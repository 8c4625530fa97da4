------------------------- MODULE SshSessionsProofs -------------------------
(***************************************************************************)
(* Theorems about SshSessions, for any number of sessions and in every     *)
(* schedule of their threads.                                              *)
(*                                                                         *)
(* The argument: as long as no two threads have read the same id, no two   *)
(* records have the same owner and "the first record with my id" is mine,  *)
(* if there is one; so who leaves marks what it pushed, and the last who   *)
(* leaves leaves a vector main will empty.  As long as no record has been  *)
(* lost or dropped either, there is one, at the index found at first.      *)
(***************************************************************************)
EXTENDS SshSessions, SequenceTheorems, TLAPS

Labels == {"none", "start", "push", "locate", "kex", "auth", "poll", "new", "connect",
           "login", "channel", "serve", "mark", "close", "done"}

Things == {"session", "event", "proxy_session"}

HasPushed(s) == tpc[s] \notin {"none", "start", "push"}

-----------------------------------------------------------------------------
(* What a change of one record's field leaves as it was.                   *)
LEMMA UpdateRecord ==
    ASSUME NEW v \in Seq(Records), NEW i \in DOMAIN v, NEW r \in Records,
           r.id = v[i].id, r.owner = v[i].owner
    PROVE  LET w == [v EXCEPT ![i] = r] IN
           /\ w \in Seq(Records)
           /\ DOMAIN w = DOMAIN v
           /\ w[i] = r
           /\ \A j \in DOMAIN v : j # i => w[j] = v[j]
           /\ \A j \in DOMAIN v : w[j].id = v[j].id /\ w[j].owner = v[j].owner
<1>1. DOMAIN v = 1 .. Len(v) /\ v \in [1 .. Len(v) -> Records]
  BY LenProperties
<1>2. [v EXCEPT ![i] = r] \in Seq(Records)
  BY <1>1, ExceptSeq
<1> QED BY <1>1, <1>2

(* All the vector's records, as elements of a sequence.                    *)
LEMMA RecordOf ==
    ASSUME TypeOK, NEW i \in DOMAIN vsdata
    PROVE  /\ vsdata[i] \in Records
           /\ vsdata[i].owner \in Sessions
           /\ i \in Nat \ {0}
<1>1. DOMAIN vsdata = 1 .. Len(vsdata) /\ Len(vsdata) \in Nat
  BY LenProperties DEF TypeOK
<1>2. vsdata[i] \in Records
  BY <1>1, ElementOfSeq DEF TypeOK
<1> QED BY <1>1, <1>2 DEF Records

-----------------------------------------------------------------------------
(* The types                                                               *)
Typed == TypeOK /\ (mpc = "create" => created < NumSessions)

LEMMA MainTyped == ASSUME Typed, Main PROVE Typed'
<1> USE SessionsAssumption DEF Typed, TypeOK, Sessions
<1>1. CASE PurgeScan \/ AcceptFails \/ CreateFails
  BY <1>1 DEF PurgeScan, AcceptFails, CreateFails
<1>2. CASE PurgeClear
  <2>1. <<>> \in Seq(Records) BY EmptySeq
  <2> QED BY <1>2, <2>1 DEF PurgeClear
<1>3. CASE Accept BY <1>3 DEF Accept
<1>4. CASE CreateThread
  <2>1. created' = created + 1 /\ created' \in 1 .. NumSessions
        /\ tpc' = [tpc EXCEPT ![created'] = "start"]
        /\ held' = [held EXCEPT ![created'] = {"session"}]
    BY <1>4 DEF CreateThread, Goto
  <2> QED BY <1>4, <2>1 DEF CreateThread
<1> QED BY <1>1, <1>2, <1>3, <1>4 DEF Main

LEMMA RecordsTyped ==
    ASSUME TypeOK, NEW i \in DOMAIN vsdata, NEW r \in Records,
           r.id = vsdata[i].id, r.owner = vsdata[i].owner
    PROVE  [vsdata EXCEPT ![i] = r] \in Seq(Records)
BY UpdateRecord DEF TypeOK

LEMMA ClientTyped ==
    ASSUME Typed, NEW s \in Sessions, Client(s) PROVE Typed'
<1>0. TypeOK BY DEF Typed
<1>1. vsdata' \in Seq(Records) /\ authed' \in [Sessions -> {"no", "none", "password"}]
  <2>1. CASE PasswordCb(s)
    <3>1. PICK i \in DOMAIN vsdata, good \in BOOLEAN :
              /\ vsdata[i].auth_attempts < MaxAttempts
              /\ vsdata' = [vsdata EXCEPT ![i].auth_attempts = @ + 1,
                                          ![i].authenticated = @ \/ good]
              /\ authed' = [authed EXCEPT ![s] = IF good THEN "password" ELSE "no"]
      BY <2>1 DEF PasswordCb
    <3> DEFINE r == [vsdata[i] EXCEPT !.auth_attempts = @ + 1, !.authenticated = @ \/ good]
    <3>2. vsdata[i] \in Records BY <1>0, RecordOf
    <3>3. r \in Records /\ r.id = vsdata[i].id /\ r.owner = vsdata[i].owner
      BY <3>1, <3>2, SessionsAssumption DEF Records
    <3>4. vsdata' = [vsdata EXCEPT ![i] = r] BY <3>1
    <3> HIDE DEF r
    <3>5. vsdata' \in Seq(Records) BY <1>0, <3>3, <3>4, RecordsTyped
    <3>6. authed' \in [Sessions -> {"no", "none", "password"}]
      BY <1>0, <3>1 DEF TypeOK
    <3> QED BY <3>5, <3>6
  <2>2. CASE AuthNoneCb(s) BY <1>0, <2>2 DEF AuthNoneCb, TypeOK
  <2>3. CASE ChannelOpenCb(s)
    <3>1. PICK i \in DOMAIN vsdata : vsdata' = [vsdata EXCEPT ![i].channel = "open"]
      BY <2>3 DEF ChannelOpenCb
    <3>2. vsdata[i] \in Records BY <1>0, RecordOf
    <3> DEFINE r == [vsdata[i] EXCEPT !.channel = "open"]
    <3>3. r \in Records /\ r.id = vsdata[i].id /\ r.owner = vsdata[i].owner
      BY <3>2 DEF Records
    <3>4. vsdata' = [vsdata EXCEPT ![i] = r] BY <3>1
    <3> QED BY <1>0, <2>3, <3>3, <3>4, RecordsTyped DEF TypeOK, ChannelOpenCb
  <2>4. CASE ClientCloses(s)
    <3> DEFINE i == iVec[s]
    <3>1. i \in DOMAIN vsdata /\ vsdata' = [vsdata EXCEPT ![i].channel = "closed"]
      BY <2>4 DEF ClientCloses
    <3>2. vsdata[i] \in Records BY <1>0, <3>1, RecordOf
    <3> DEFINE r == [vsdata[i] EXCEPT !.channel = "closed"]
    <3>3. r \in Records /\ r.id = vsdata[i].id /\ r.owner = vsdata[i].owner
      BY <3>2 DEF Records
    <3>4. vsdata' = [vsdata EXCEPT ![i] = r] BY <3>1
    <3> HIDE DEF r, i
    <3>5. [vsdata EXCEPT ![i] = r] \in Seq(Records) BY <1>0, <3>1, <3>3, RecordsTyped
    <3> QED BY <1>0, <2>4, <3>4, <3>5 DEF TypeOK, ClientCloses
  <2> QED BY <2>1, <2>2, <2>3, <2>4 DEF Client
<1>2. UNCHANGED <<gParam_id, mpc, created, tpc, myid, iVec, held, harm, server>>
  BY DEF Client, PasswordCb, AuthNoneCb, ChannelOpenCb, ClientCloses
<1> QED BY <1>1, <1>2 DEF Typed, TypeOK

LEMMA ThreadTyped ==
    ASSUME Typed, NEW s \in Sessions, Thread(s) PROVE Typed'
<1>0. TypeOK BY DEF Typed
<1>1. /\ UNCHANGED <<gParam_id, created, authed, server>>
      /\ mpc' \in {mpc, "crashed"}
      /\ harm' \in {harm, harm \cup {"id"}, harm \cup {"lost"}}
  BY DEF Thread, CopyParams, PushBack, Locate, KeyExchange, AuthLoop, PollReturns, PollFails,
         ProxyNew, ProxyIsNull, ProxyStep, ProxyFails, ServeEnds, Mark, CloseSession
<1>2. vsdata' \in Seq(Records)
  <2>1. CASE PushBack(s)
    <3>1. NewRecord(s) \in Records
      BY <1>0, SessionsAssumption DEF NewRecord, Records, TypeOK
    <3>2. Append(vsdata, NewRecord(s)) \in Seq(Records)
      BY <1>0, <3>1, AppendProperties DEF TypeOK
    <3> QED BY <1>0, <2>1, <3>2 DEF PushBack, TypeOK
  <2>2. CASE Mark(s)
    <3>1. CASE UNCHANGED vsdata BY <1>0, <3>1 DEF TypeOK
    <3>2. CASE \E i \in DOMAIN vsdata : vsdata' = [vsdata EXCEPT ![i].erase_flag = 1]
      <4>1. PICK i \in DOMAIN vsdata : vsdata' = [vsdata EXCEPT ![i].erase_flag = 1]
        BY <3>2
      <4>2. vsdata[i] \in Records BY <1>0, RecordOf
      <4> DEFINE r == [vsdata[i] EXCEPT !.erase_flag = 1]
      <4>3. r \in Records /\ r.id = vsdata[i].id /\ r.owner = vsdata[i].owner
        BY <4>2 DEF Records
      <4> QED BY <1>0, <4>1, <4>3, RecordsTyped
    <3> QED BY <2>2, <3>1, <3>2 DEF Mark
  <2> QED BY <1>0, <2>1, <2>2 DEF TypeOK, Thread, CopyParams, Locate, KeyExchange, AuthLoop,
        PollReturns, PollFails, ProxyNew, ProxyIsNull, ProxyStep, ProxyFails, ServeEnds, CloseSession
<1>3. /\ myid' \in [Sessions -> 0 .. MaxId]
      /\ iVec' \in [Sessions -> Nat]
  <2>1. CASE CopyParams(s) BY <1>0, <2>1 DEF CopyParams, TypeOK
  <2>2. CASE Locate(s)
    <3>1. Len(vsdata) \in Nat BY <1>0, LenProperties DEF TypeOK
    <3> QED BY <1>0, <2>2, <3>1 DEF Locate, TypeOK
  <2> QED BY <1>0, <2>1, <2>2 DEF TypeOK, Thread, PushBack, KeyExchange, AuthLoop,
        PollReturns, PollFails, ProxyNew, ProxyIsNull, ProxyStep, ProxyFails, ServeEnds, Mark, CloseSession
<1>4. tpc' = tpc \/ \E l \in Labels : tpc' = [tpc EXCEPT ![s] = l]
  BY DEF Thread, CopyParams, PushBack, Locate, KeyExchange, AuthLoop, PollReturns, PollFails,
         ProxyNew, ProxyIsNull, ProxyStep, ProxyFails, ServeEnds, Mark, CloseSession, Goto, Return, Labels
<1>5. \/ UNCHANGED held
      \/ \E S \in SUBSET Things :
             \/ held' = [held EXCEPT ![s] = @ \cup S]
             \/ held' = [held EXCEPT ![s] = @ \ S]
  <2>1. /\ {} \in SUBSET Things
        /\ {"event"} \in SUBSET Things
        /\ {"session"} \in SUBSET Things
        /\ {"proxy_session"} \in SUBSET Things
        /\ {"event", "proxy_session"} \in SUBSET Things
        /\ {"event"} \cup (IF server.relays THEN {"proxy_session"} ELSE {})
               \in SUBSET Things
    BY DEF Things
  <2> QED BY <2>1 DEF Thread, CopyParams, PushBack, Locate, KeyExchange, AuthLoop, PollReturns,
         PollFails, ProxyNew, ProxyIsNull, ProxyStep, ProxyFails, ServeEnds, Mark, CloseSession, Return
<1>6. tpc' \in [Sessions -> Labels]
  BY <1>0, <1>4 DEF TypeOK, Labels
<1>7. held' \in [Sessions -> SUBSET Things]
  <2>1. held \in [Sessions -> SUBSET Things]
    BY <1>0 DEF TypeOK, Things
  <2>2. ASSUME NEW S \in SUBSET Things
        PROVE  /\ held[s] \cup S \in SUBSET Things
               /\ held[s] \ S \in SUBSET Things
    BY <2>1
  <2> QED BY <1>5, <2>1, <2>2
<1> QED BY <1>0, <1>1, <1>2, <1>3, <1>6, <1>7 DEF Typed, TypeOK, Labels, Things

(* Every variable keeps its type, however the threads are scheduled: the   *)
(* records' fields and the ids stay within their ranges also when threads  *)
(* share a record or keep an index that l.74 has made stale.               *)
THEOREM TypeCorrect == Spec => []TypeOK
<1>1. Init => Typed
  <2>1. <<>> \in Seq(Records) BY EmptySeq
  <2> QED BY <2>1, SessionsAssumption DEF Init, Typed, TypeOK
<1>2. Typed /\ [Next]_vars => Typed'
  <2> SUFFICES ASSUME Typed, [Next]_vars PROVE Typed'
    OBVIOUS
  <2>1. CASE UNCHANGED vars BY <2>1 DEF vars, Typed, TypeOK
  <2> QED BY <2>1, MainTyped, ClientTyped, ThreadTyped DEF Next
<1>3. Typed => TypeOK BY DEF Typed
<1> QED BY <1>1, <1>2, <1>3, PTL DEF Spec

-----------------------------------------------------------------------------
(* Ids and owners                                                          *)

Fresh == \A s \in Sessions : s > created => tpc[s] = "none"

Ids == \A s, u \in Sessions :
           HasCopied(s) /\ HasCopied(u) /\ myid[s] = myid[u] => s = u

Owners == /\ \A i \in DOMAIN vsdata : /\ HasPushed(vsdata[i].owner)
                                      /\ vsdata[i].id = myid[vsdata[i].owner]
          /\ \A i, j \in DOMAIN vsdata : vsdata[i].owner = vsdata[j].owner => i = j

(* A thread that has left my_handle_session has marked its record.         *)
Marked == \A i \in DOMAIN vsdata :
    tpc[vsdata[i].owner] \in {"close", "done"} => vsdata[i].erase_flag = 1

IdInv == /\ Typed /\ Fresh
         /\ "id" \notin harm => Ids /\ Owners /\ Marked

(* The first record with a thread's id is the one the thread pushed.       *)
LEMMA FirstIsOwn ==
    ASSUME IdInv, "id" \notin harm, NEW s \in Sessions, HasPushed(s),
           NEW i \in DOMAIN vsdata, vsdata[i].id = myid[s]
    PROVE  vsdata[i].owner = s
<1>1. vsdata[i].owner \in Sessions /\ HasPushed(vsdata[i].owner)
      /\ myid[vsdata[i].owner] = myid[s]
  BY RecordOf DEF IdInv, Typed, Owners
<1> QED BY <1>1 DEF IdInv, Ids, HasCopied, HasPushed

(* What no step undoes.                                                    *)
LEMMA HarmGrows == Next => harm \subseteq harm'
<1>1. ASSUME Main PROVE harm \subseteq harm'
  BY <1>1 DEF Main, PurgeScan, PurgeClear, AcceptFails, Accept, CreateThread, CreateFails
<1>2. ASSUME NEW s \in Sessions, Client(s) PROVE harm \subseteq harm'
  BY <1>2 DEF Client, PasswordCb, AuthNoneCb, ChannelOpenCb, ClientCloses
<1>3. ASSUME NEW s \in Sessions, Thread(s) PROVE harm \subseteq harm'
  BY <1>3 DEF Thread, CopyParams, PushBack, Locate, KeyExchange, AuthLoop,
              PollReturns, PollFails, ProxyNew, ProxyIsNull, ProxyStep, ProxyFails,
              ServeEnds, Mark, CloseSession
<1> QED BY <1>1, <1>2, <1>3 DEF Next, vars

(* A callback changes no field of a record that tells whose it is, or      *)
(* whether it is marked.                                                   *)
LEMMA ClientRecords ==
    ASSUME Typed, NEW s \in Sessions, Client(s)
    PROVE  /\ UNCHANGED <<gParam_id, mpc, created, tpc, myid, iVec, held, harm, server>>
           /\ DOMAIN vsdata' = DOMAIN vsdata
           /\ \A i \in DOMAIN vsdata : /\ vsdata'[i].id = vsdata[i].id
                                       /\ vsdata'[i].owner = vsdata[i].owner
                                       /\ vsdata'[i].erase_flag = vsdata[i].erase_flag
<1>1. UNCHANGED <<gParam_id, mpc, created, tpc, myid, iVec, held, harm, server>>
  BY DEF Client, PasswordCb, AuthNoneCb, ChannelOpenCb, ClientCloses
<1>2. \A i \in DOMAIN vsdata : vsdata[i] \in Records BY RecordOf DEF Typed
<1>3. DOMAIN vsdata' = DOMAIN vsdata /\ \A i \in DOMAIN vsdata :
          /\ vsdata'[i].id = vsdata[i].id
          /\ vsdata'[i].owner = vsdata[i].owner
          /\ vsdata'[i].erase_flag = vsdata[i].erase_flag
  <2>1. CASE PasswordCb(s)
    <3>1. PICK i \in DOMAIN vsdata, good \in BOOLEAN :
              vsdata' = [vsdata EXCEPT ![i].auth_attempts = @ + 1,
                                       ![i].authenticated = @ \/ good]
      BY <2>1 DEF PasswordCb
    <3> QED BY <1>2, <3>1 DEF Records
  <2>2. CASE AuthNoneCb(s) BY <2>2 DEF AuthNoneCb
  <2>3. CASE ChannelOpenCb(s) BY <1>2, <2>3 DEF ChannelOpenCb, Records
  <2>4. CASE ClientCloses(s) BY <1>2, <2>4 DEF ClientCloses, Records
  <2> QED BY <2>1, <2>2, <2>3, <2>4 DEF Client
<1> QED BY <1>1, <1>3

LEMMA MainIds == ASSUME IdInv, Main, "id" \notin harm' PROVE Fresh' /\ Ids' /\ Owners' /\ Marked'
<1>0. /\ "id" \notin harm /\ TypeOK /\ Fresh /\ Ids /\ Owners /\ Marked
      /\ \A i \in DOMAIN vsdata : vsdata[i].owner \in Sessions
  <2>1. harm \subseteq harm'
    BY DEF Main, PurgeScan, PurgeClear, AcceptFails, Accept, CreateThread, CreateFails
  <2> QED BY <2>1, RecordOf DEF IdInv, Typed
<1>1. CASE PurgeClear
  BY <1>0, <1>1 DEF PurgeClear, Fresh, Ids, HasCopied, Owners, Marked
<1>2. CASE CreateThread
  <2>1. /\ mpc = "create" /\ created' = created + 1
        /\ created + 1 \in Sessions /\ tpc[created + 1] = "none"
    BY <1>0, <1>2, SessionsAssumption DEF CreateThread, Fresh, IdInv, Typed, TypeOK, Sessions
  <2>2. /\ tpc' = [tpc EXCEPT ![created + 1] = "start"]
        /\ UNCHANGED <<vsdata, myid>>
    BY <1>2, <2>1 DEF CreateThread, Goto
  <2>3. /\ tpc'[created + 1] = "start"
        /\ \A u \in Sessions : u # created + 1 => tpc'[u] = tpc[u]
    BY <1>0, <2>1, <2>2 DEF TypeOK
  <2>4. Fresh' BY <1>0, <2>1, <2>3 DEF Fresh, TypeOK, Sessions
  <2>5. Ids' BY <1>0, <2>2, <2>3 DEF Ids, HasCopied
  <2>6. \A i \in DOMAIN vsdata : vsdata[i].owner # created + 1
    BY <1>0, <2>1 DEF Owners, HasPushed
  <2> QED BY <1>0, <2>2, <2>3, <2>4, <2>5, <2>6 DEF Owners, HasPushed, Marked
<1>3. CASE PurgeScan \/ AcceptFails \/ Accept \/ CreateFails
  <2>1. UNCHANGED <<vsdata, created, tpc, myid>>
    BY <1>3 DEF PurgeScan, AcceptFails, Accept, CreateFails
  <2> QED BY <1>0, <2>1 DEF Fresh, Ids, HasCopied, Owners, HasPushed, Marked
<1> QED BY <1>1, <1>2, <1>3 DEF Main

LEMMA ClientIds == ASSUME IdInv, NEW s \in Sessions, Client(s), "id" \notin harm'
                   PROVE  Ids' /\ Owners' /\ Marked'
BY ClientRecords, RecordOf DEF IdInv, Typed, Ids, HasCopied, Owners, HasPushed, Marked

LEMMA ThreadIds == ASSUME IdInv, NEW s \in Sessions, Thread(s), "id" \notin harm'
                   PROVE  Ids' /\ Owners' /\ Marked'
<1> USE DEF Goto, Return
<1>0. /\ "id" \notin harm /\ Ids /\ Owners /\ Marked
      /\ tpc \in [Sessions -> Labels] /\ myid \in [Sessions -> 0 .. MaxId]
      /\ \A i \in DOMAIN vsdata : vsdata[i].owner \in Sessions /\ vsdata[i] \in Records
  <2>1. harm \subseteq harm'
    BY DEF Thread, CopyParams, PushBack, Locate, KeyExchange, AuthLoop,
           PollReturns, PollFails, ProxyNew, ProxyIsNull, ProxyStep, ProxyFails,
           ServeEnds, Mark, CloseSession
  <2> QED BY <2>1, RecordOf DEF IdInv, Typed, TypeOK, Labels
<1>1. CASE CopyParams(s)
  <2>1. /\ tpc[s] = "start" /\ tpc' = [tpc EXCEPT ![s] = "push"]
        /\ myid' = [myid EXCEPT ![s] = gParam_id] /\ UNCHANGED vsdata
        /\ ~\E u \in Sessions : HasCopied(u) /\ myid[u] = gParam_id
    BY <1>0, <1>1 DEF CopyParams
  <2>2. /\ tpc'[s] = "push" /\ myid'[s] = gParam_id
        /\ \A u \in Sessions : u # s => tpc'[u] = tpc[u] /\ myid'[u] = myid[u]
    BY <1>0, <2>1
  <2>3. Ids' BY <1>0, <2>1, <2>2 DEF Ids, HasCopied
  <2>4. \A i \in DOMAIN vsdata : vsdata[i].owner # s
    BY <1>0, <2>1 DEF Owners, HasPushed
  <2> QED BY <1>0, <2>1, <2>2, <2>3, <2>4 DEF Owners, HasPushed, Marked
<1>2. CASE PushBack(s)
  <2>1. /\ tpc[s] = "push" /\ tpc' = [tpc EXCEPT ![s] = "locate"] /\ UNCHANGED myid
        /\ vsdata' \in {vsdata, Append(vsdata, NewRecord(s))}
    BY <1>2 DEF PushBack
  <2>2. /\ tpc'[s] = "locate" /\ \A u \in Sessions : u # s => tpc'[u] = tpc[u]
    BY <1>0, <2>1
  <2>3. Ids' BY <1>0, <2>1, <2>2 DEF Ids, HasCopied
  <2>4. \A i \in DOMAIN vsdata : vsdata[i].owner # s
    BY <1>0, <2>1 DEF Owners, HasPushed
  <2>5. NewRecord(s).owner = s /\ NewRecord(s).id = myid[s] BY DEF NewRecord
  <2>6. CASE UNCHANGED vsdata
    BY <1>0, <2>1, <2>2, <2>3, <2>4, <2>6 DEF Owners, HasPushed, Marked
  <2>7. CASE vsdata' = Append(vsdata, NewRecord(s))
    <3>1. /\ DOMAIN vsdata = 1 .. Len(vsdata) /\ Len(vsdata) \in Nat
          /\ DOMAIN vsdata' = 1 .. Len(vsdata) + 1
          /\ \A i \in DOMAIN vsdata : vsdata'[i] = vsdata[i]
          /\ vsdata'[Len(vsdata) + 1] = NewRecord(s)
      <4>1. NewRecord(s) \in Records
        BY SessionsAssumption DEF NewRecord, Records, IdInv, Typed, TypeOK
      <4> QED BY <2>7, <4>1, AppendProperties, LenProperties DEF IdInv, Typed, TypeOK
    <3>2. \A i \in DOMAIN vsdata' : i \in DOMAIN vsdata \/ i = Len(vsdata) + 1
      BY <3>1
    <3>3. Owners' BY <1>0, <2>1, <2>2, <2>4, <2>5, <3>1, <3>2 DEF Owners, HasPushed
    <3> QED BY <1>0, <2>2, <2>3, <2>4, <2>5, <3>1, <3>2, <3>3 DEF Marked
  <2> QED BY <2>1, <2>6, <2>7
<1>3. CASE Mark(s)
  <2>1. /\ tpc[s] = "mark" /\ tpc' = [tpc EXCEPT ![s] = "close"] /\ UNCHANGED myid
    BY <1>3 DEF Mark
  <2>2. /\ tpc'[s] = "close" /\ \A u \in Sessions : u # s => tpc'[u] = tpc[u]
    BY <1>0, <2>1
  <2>3. Ids' BY <1>0, <2>1, <2>2 DEF Ids, HasCopied
  <2>4. CASE Found(myid[s])
    <3>1. PICK i \in DOMAIN vsdata :
              /\ IsFirst(i, myid[s])
              /\ vsdata' = [vsdata EXCEPT ![i].erase_flag = 1]
      BY <1>3, <2>4 DEF Mark
    <3>2. vsdata[i].owner = s
      BY <1>0, <2>1, <3>1, FirstIsOwn DEF IsFirst, HasPushed
    <3>3. \A j \in DOMAIN vsdata : vsdata[j].owner = s => j = i
      BY <1>0, <3>2 DEF Owners
    <3>4. /\ DOMAIN vsdata' = DOMAIN vsdata
          /\ \A j \in DOMAIN vsdata : j # i => vsdata'[j] = vsdata[j]
          /\ vsdata'[i].owner = vsdata[i].owner /\ vsdata'[i].erase_flag = 1
          /\ vsdata'[i].id = vsdata[i].id
      BY <1>0, <3>1 DEF Records
    <3>5. Owners' BY <1>0, <2>1, <2>2, <3>4 DEF Owners, HasPushed
    <3> QED BY <1>0, <2>2, <2>3, <3>3, <3>4, <3>5 DEF Marked
  <2>5. CASE ~Found(myid[s])
    <3>1. UNCHANGED vsdata BY <1>3, <2>5 DEF Mark, Found, IsFirst
    <3>2. \A i \in DOMAIN vsdata : vsdata[i].owner # s
      BY <1>0, <2>5 DEF Found, Owners
    <3> QED BY <1>0, <2>1, <2>2, <2>3, <3>1, <3>2 DEF Owners, HasPushed, Marked
  <2> QED BY <2>4, <2>5
<1>4. CASE \/ Locate(s) \/ KeyExchange(s) \/ AuthLoop(s) \/ PollReturns(s) \/ PollFails(s)
           \/ ProxyNew(s) \/ ProxyIsNull(s) \/ ProxyStep(s) \/ ProxyFails(s)
           \/ ServeEnds(s) \/ CloseSession(s)
  <2>1. /\ UNCHANGED <<vsdata, myid>> /\ HasPushed(s)
        /\ \/ UNCHANGED tpc
           \/ tpc[s] = "close" /\ tpc' = [tpc EXCEPT ![s] = "done"]
           \/ \E l \in Labels \ {"none", "start", "push", "close", "done"} :
                  tpc' = [tpc EXCEPT ![s] = l]
    BY <1>4 DEF Locate, KeyExchange, AuthLoop, PollReturns, PollFails, ProxyNew, ProxyIsNull,
                ProxyStep, ProxyFails, ServeEnds, CloseSession, Labels, HasPushed
  <2>2. /\ \A u \in Sessions : u # s => tpc'[u] = tpc[u]
        /\ HasPushed(s)' /\ (tpc'[s] \in {"close", "done"} => tpc[s] \in {"close", "done"})
    BY <1>0, <2>1 DEF HasPushed
  <2>3. \A u \in Sessions : (HasPushed(u)' <=> HasPushed(u)) /\ (HasCopied(u)' <=> HasCopied(u))
    BY <2>1, <2>2 DEF HasPushed, HasCopied
  <2> QED BY <1>0, <2>1, <2>2, <2>3 DEF Ids, Owners, Marked
<1> QED BY <1>1, <1>2, <1>3, <1>4 DEF Thread

LEMMA FreshKept == ASSUME Typed, Fresh, NEW s \in Sessions, Client(s) \/ Thread(s) PROVE Fresh'
<1>1. UNCHANGED created
      /\ \/ UNCHANGED tpc
         \/ tpc[s] # "none" /\ \E l \in Labels : tpc' = [tpc EXCEPT ![s] = l]
  BY DEF Client, PasswordCb, AuthNoneCb, ChannelOpenCb, ClientCloses,
         Thread, CopyParams, PushBack, Locate, KeyExchange, AuthLoop, PollReturns,
         PollFails, ProxyNew, ProxyIsNull, ProxyStep, ProxyFails, ServeEnds, Mark,
         CloseSession, Goto, Return, Labels
<1> QED BY <1>1 DEF Fresh, Typed, TypeOK

LEMMA MainFresh == ASSUME Typed, Fresh, Main PROVE Fresh'
<1>1. CASE CreateThread
  <2>1. /\ created' = created + 1 /\ tpc' = [tpc EXCEPT ![created'] = "start"]
    BY <1>1 DEF CreateThread, Goto
  <2>2. \A s \in Sessions : s > created' => s > created /\ s # created'
    BY <2>1 DEF Typed, TypeOK, Sessions
  <2> QED BY <2>1, <2>2 DEF Fresh, Typed, TypeOK
<1>2. CASE PurgeScan \/ PurgeClear \/ AcceptFails \/ Accept \/ CreateFails
  BY <1>2 DEF PurgeScan, PurgeClear, AcceptFails, Accept, CreateFails, Fresh
<1> QED BY <1>1, <1>2 DEF Main

LEMMA InitIds == Init => IdInv
<1> SUFFICES ASSUME Init PROVE IdInv
  OBVIOUS
<1>1. Typed
  <2>1. <<>> \in Seq(Records) BY EmptySeq
  <2> QED BY <2>1, SessionsAssumption DEF Init, Typed, TypeOK
<1> QED BY <1>1 DEF Init, IdInv, Fresh, Ids, HasCopied, Owners, Marked

LEMMA NextIds == IdInv /\ [Next]_vars => IdInv'
<1> SUFFICES ASSUME IdInv, [Next]_vars PROVE IdInv'
  OBVIOUS
<1>1. CASE UNCHANGED vars
  BY <1>1 DEF vars, IdInv, Typed, TypeOK, Fresh, Ids, HasCopied, Owners, HasPushed, Marked
<1>2. CASE Main
  BY <1>2, MainTyped, MainFresh, MainIds DEF IdInv
<1>3. ASSUME NEW s \in Sessions, Client(s) \/ Thread(s) PROVE IdInv'
  BY <1>3, ClientTyped, ThreadTyped, FreshKept, ClientIds, ThreadIds DEF IdInv
<1> QED BY <1>1, <1>2, <1>3 DEF Next

(* As long as no two threads have read the same id (l.394 against l.509),  *)
(* when the last session has ended main's next look at the vector (l.65-   *)
(* 72) finds every record marked, however many there are: each belongs to  *)
(* a thread, which marked it (l.408-414) on its way to its end, whichever  *)
(* return it took and whatever has been lost or dropped before.            *)
THEOREM IdleIsEmptied == Spec => IdleIsPurged
<1>1. IdInv /\ [Next]_vars =>
          [(/\ "id" \notin harm
            /\ mpc = "scan" /\ mpc' # "scan"
            /\ \A s \in Sessions : tpc[s] \in {"none", "done"})
           => mpc' = "clear"]_vars
  <2> SUFFICES ASSUME IdInv, "id" \notin harm, Next, mpc = "scan", mpc' # "scan",
                      \A s \in Sessions : tpc[s] \in {"none", "done"}
               PROVE  mpc' = "clear"
    OBVIOUS
  <2>1. AllMarked
    <3>1. ASSUME NEW i \in DOMAIN vsdata PROVE vsdata[i].erase_flag = 1
      <4>1. vsdata[i].owner \in Sessions /\ tpc[vsdata[i].owner] # "none"
        BY RecordOf DEF IdInv, Typed, Owners, HasPushed
      <4> QED BY <4>1 DEF IdInv, Marked
    <3> QED BY <3>1 DEF AllMarked
  <2>2. PurgeScan
    BY DEF Next, Crashed, Main, PurgeClear, AcceptFails, Accept, CreateThread, CreateFails,
           Client, PasswordCb, AuthNoneCb, ChannelOpenCb, ClientCloses,
           Thread, CopyParams, PushBack, Locate, KeyExchange, AuthLoop, PollReturns,
           PollFails, ProxyNew, ProxyIsNull, ProxyStep, ProxyFails, ServeEnds, Mark,
           CloseSession
  <2> QED BY <2>1, <2>2 DEF PurgeScan
<1> QED BY <1>1, InitIds, NextIds, PTL DEF Spec, IdleIsPurged

-----------------------------------------------------------------------------
(* The record a thread works with                                          *)

Located == \A s \in Sessions :
    /\ tpc[s] = "locate" => \E i \in DOMAIN vsdata :
           /\ vsdata[i].owner = s
           /\ vsdata[i].erase_flag = 0
           /\ ~vsdata[i].authenticated
    /\ tpc[s] \in Working =>
           /\ iVec[s] \in DOMAIN vsdata
           /\ vsdata[iVec[s]].owner = s
           /\ vsdata[iVec[s]].erase_flag = 0

Passwords == \A s \in Sessions :
    /\ tpc[s] \in Working =>
           (vsdata[iVec[s]].authenticated => authed[s] = "password")
    /\ tpc[s] \in {"new", "connect", "login", "channel", "serve"} =>
           authed[s] = "password"

Own == /\ Typed /\ Ids /\ Owners /\ Located /\ Passwords

OwnInv == IdInv /\ (harm = {} => Own)

LEMMA MainOwn == ASSUME Own, IdInv, harm = {}, harm' = {}, Main PROVE Located' /\ Passwords'
<1> USE DEF Own
<1>1. CASE PurgeClear
  <2>1. AllMarked BY <1>1 DEF PurgeClear
  <2>2. \A s \in Sessions : tpc[s] \notin Working /\ tpc[s] # "locate"
    BY <2>1 DEF AllMarked, Located
  <2> QED BY <1>1, <2>2 DEF PurgeClear, Located, Passwords, Working
<1>2. CASE CreateThread
  <2>1. tpc' = [tpc EXCEPT ![created'] = "start"] /\ UNCHANGED <<vsdata, iVec, authed>>
    BY <1>2 DEF CreateThread, Goto
  <2>2. \A s \in Sessions : tpc'[s] \in {"start", tpc[s]}
    BY <2>1 DEF Typed, TypeOK
  <2> QED BY <2>1, <2>2 DEF Located, Passwords, Working
<1>3. CASE PurgeScan \/ AcceptFails \/ Accept \/ CreateFails
  <2>1. UNCHANGED <<vsdata, tpc, iVec, authed>>
    BY <1>3 DEF PurgeScan, AcceptFails, Accept, CreateFails
  <2> QED BY <2>1 DEF Located, Passwords
<1> QED BY <1>1, <1>2, <1>3 DEF Main

(* Steps of a thread that has its record and changes no record.            *)
LEMMA QuietOwn ==
    ASSUME Own, NEW s \in Sessions, NEW label \in Labels,
           tpc' = [tpc EXCEPT ![s] = label], UNCHANGED <<vsdata, iVec, authed>>,
           label # "locate", label \in Working => tpc[s] \in Working,
           label \in {"new", "connect", "login", "channel", "serve"} =>
               authed[s] = "password"
    PROVE  Located' /\ Passwords'
<1>1. tpc'[s] = label /\ \A u \in Sessions : u # s => tpc'[u] = tpc[u]
  BY DEF Own, Typed, TypeOK
<1> QED BY <1>1 DEF Own, Located, Passwords

LEMMA QuietSteps ==
    ASSUME Own, NEW s \in Sessions,
           \/ CopyParams(s) \/ KeyExchange(s) \/ AuthLoop(s) \/ PollReturns(s)
           \/ PollFails(s) \/ ProxyNew(s) \/ ProxyIsNull(s) \/ ProxyStep(s)
           \/ ProxyFails(s) \/ ServeEnds(s) \/ CloseSession(s)
    PROVE  Located' /\ Passwords'
<1> USE DEF Goto, Return, Labels, Working
<1>1. UNCHANGED <<vsdata, iVec, authed>>
  BY DEF CopyParams, KeyExchange, AuthLoop, PollReturns, PollFails, ProxyNew, ProxyIsNull,
         ProxyStep, ProxyFails, ServeEnds, CloseSession
<1>2. CASE AuthLoop(s)
  <2>1. LoopOver(s) => authed[s] = "password"
    BY <1>2 DEF AuthLoop, LoopOver, Rec, Own, Passwords, Located
  <2>2. PICK l \in {"new", "serve", "poll", "mark"} :
            /\ tpc' = [tpc EXCEPT ![s] = l]
            /\ l \in {"new", "serve"} => authed[s] = "password"
    BY <1>2, <2>1 DEF AuthLoop
  <2>3. l \in Labels /\ l # "locate" /\ tpc[s] \in Working
    BY <1>2 DEF AuthLoop
  <2> QED BY <1>1, <2>2, <2>3, QuietOwn
<1>3. CASE ProxyNew(s) \/ ProxyStep(s)
  <2>1. authed[s] = "password" BY <1>3 DEF ProxyNew, ProxyStep, Own, Passwords
  <2> QED BY <1>1, <1>3, <2>1, QuietOwn DEF ProxyNew, ProxyStep
<1>4. CASE ProxyIsNull(s)
  BY <1>1, <1>4 DEF ProxyIsNull, Own, Located, Passwords
<1>5. CASE CopyParams(s) \/ CloseSession(s)
  BY <1>1, <1>5, QuietOwn DEF CopyParams, CloseSession
<1>6. CASE KeyExchange(s) \/ PollReturns(s) \/ PollFails(s) \/ ProxyFails(s) \/ ServeEnds(s)
  <2>1. \E l \in {"auth", "mark"} : tpc' = [tpc EXCEPT ![s] = l]
    BY <1>6 DEF KeyExchange, PollReturns, PollFails, ProxyFails, ServeEnds
  <2> QED BY <1>1, <1>6, <2>1, QuietOwn
          DEF KeyExchange, PollReturns, PollFails, ProxyFails, ServeEnds
<1> QED BY <1>2, <1>3, <1>4, <1>5, <1>6

(* A callback changes the fields of one record, the calling thread's own;  *)
(* erase_flag is not among them.                                           *)
Touch(s, i, r) ==
    /\ tpc[s] \in Working
    /\ i \in DOMAIN vsdata /\ r \in Records
    /\ r.id = vsdata[i].id /\ r.owner = vsdata[i].owner
    /\ r.erase_flag = vsdata[i].erase_flag
    /\ vsdata[i].owner = s
    /\ vsdata' = [vsdata EXCEPT ![i] = r]
    /\ \E a \in {"no", "none", "password"} : authed' = [authed EXCEPT ![s] = a]
    /\ r.authenticated => authed'[s] = "password"
    /\ authed[s] = "password" => authed'[s] = "password"
    /\ UNCHANGED <<tpc, iVec>>

LEMMA TouchOwn ==
    ASSUME Own, NEW s \in Sessions, NEW i, NEW r, Touch(s, i, r)
    PROVE  Located' /\ Passwords'
<1> USE DEF Own
<1>2. /\ DOMAIN vsdata' = DOMAIN vsdata
      /\ vsdata'[i] = r
      /\ \A j \in DOMAIN vsdata : j # i => vsdata'[j] = vsdata[j]
      /\ \A j \in DOMAIN vsdata : /\ vsdata'[j].id = vsdata[j].id
                                  /\ vsdata'[j].owner = vsdata[j].owner
  <2>1. /\ vsdata \in Seq(Records) /\ i \in DOMAIN vsdata /\ r \in Records
        /\ r.id = vsdata[i].id /\ r.owner = vsdata[i].owner
        /\ vsdata' = [vsdata EXCEPT ![i] = r]
    BY DEF Touch, Typed, TypeOK
  <2> QED BY <2>1, UpdateRecord
<1>3. \A j \in DOMAIN vsdata : vsdata'[j].erase_flag = vsdata[j].erase_flag
  BY <1>2 DEF Touch
<1>4. UNCHANGED <<tpc, iVec>>
  BY DEF Touch
<1>5. \A u \in Sessions : u # s => authed'[u] = authed[u]
  BY DEF Touch, Typed, TypeOK
<1>9. Located'
  <2>1. \A u \in Sessions : tpc[u] = "locate" => u # s
    BY DEF Touch, Working
  <2>2. \A j \in DOMAIN vsdata : vsdata[j].owner # s => vsdata'[j] = vsdata[j]
    BY <1>2 DEF Touch
  <2> QED BY <1>2, <1>3, <1>4, <2>1, <2>2 DEF Located
<1>10. Passwords'
  <2>1. ASSUME NEW u \in Sessions, u # s, tpc[u] \in Working
        PROVE  vsdata'[iVec[u]] = vsdata[iVec[u]]
    BY <1>2, <2>1 DEF Located, Touch
  <2>2. tpc[s] \in Working => iVec[s] = i
    BY DEF Located, Owners, Touch
  <2> QED BY <1>2, <1>4, <1>5, <2>1, <2>2 DEF Passwords, Touch, Working
<1> QED BY <1>9, <1>10

LEMMA ClientOwn ==
    ASSUME Own, IdInv, harm = {}, NEW s \in Sessions, Client(s)
    PROVE  Located' /\ Passwords'
<1> USE DEF Working, HasPushed
<1>1. CASE PasswordCb(s)
  <2>1. PICK i \in DOMAIN vsdata, good \in BOOLEAN :
            /\ IsFirst(i, myid[s])
            /\ vsdata[i].auth_attempts < MaxAttempts
            /\ vsdata' = [vsdata EXCEPT ![i].auth_attempts = @ + 1,
                                        ![i].authenticated = @ \/ good]
            /\ authed' = [authed EXCEPT ![s] = IF good THEN "password" ELSE "no"]
    BY <1>1 DEF PasswordCb
  <2> DEFINE r == [vsdata[i] EXCEPT !.auth_attempts = @ + 1,
                                    !.authenticated = @ \/ good]
  <2>2. vsdata[i].owner = s
    BY <1>1, <2>1, FirstIsOwn DEF PasswordCb, IsFirst
  <2>3. vsdata[i] \in Records
    BY RecordOf DEF Own, Typed
  <2>4. /\ r \in Records /\ r.id = vsdata[i].id /\ r.owner = vsdata[i].owner
        /\ r.erase_flag = vsdata[i].erase_flag
        /\ r.authenticated = (vsdata[i].authenticated \/ good)
    BY <2>1, <2>3, SessionsAssumption DEF Records
  <2>5. vsdata' = [vsdata EXCEPT ![i] = r]
    BY <2>1, <2>3 DEF Records
  <2>6. authed[s] = "no" /\ authed'[s] = IF good THEN "password" ELSE "no"
    BY <1>1, <2>1 DEF PasswordCb, Own, Typed, TypeOK
  <2>7. ~vsdata[i].authenticated
    BY <1>1, <2>2, <2>6 DEF PasswordCb, Own, Located, Owners, Passwords
  <2>8. Touch(s, i, r)
    BY <1>1, <2>1, <2>2, <2>4, <2>5, <2>6, <2>7 DEF PasswordCb, Touch
  <2> QED BY <2>8, TouchOwn
<1>2. CASE ChannelOpenCb(s)
  <2>1. PICK i \in DOMAIN vsdata :
            /\ IsFirst(i, myid[s])
            /\ vsdata' = [vsdata EXCEPT ![i].channel = "open"]
    BY <1>2 DEF ChannelOpenCb
  <2> DEFINE r == [vsdata[i] EXCEPT !.channel = "open"]
  <2>2. vsdata[i].owner = s
    BY <1>2, <2>1, FirstIsOwn DEF ChannelOpenCb, IsFirst
  <2>3. vsdata[i] \in Records
    BY RecordOf DEF Own, Typed
  <2>4. /\ r \in Records /\ r.id = vsdata[i].id /\ r.owner = vsdata[i].owner
        /\ r.erase_flag = vsdata[i].erase_flag
    BY <2>3 DEF Records
  <2>5. /\ authed[s] \in {"no", "none", "password"}
        /\ authed' = [authed EXCEPT ![s] = authed[s]] /\ authed'[s] = authed[s]
    BY <1>2 DEF ChannelOpenCb, Own, Typed, TypeOK
  <2>6. /\ tpc[s] \in Working
        /\ iVec[s] \in DOMAIN vsdata /\ vsdata[iVec[s]].owner = s
    BY <1>2 DEF ChannelOpenCb, Own, Located, Working
  <2>7. iVec[s] = i
    BY <2>2, <2>6 DEF Own, Owners
  <2>8. r.authenticated => authed'[s] = "password"
    BY <2>3, <2>5, <2>6, <2>7 DEF Own, Passwords, Records
  <2>9. vsdata' = [vsdata EXCEPT ![i] = r] /\ UNCHANGED <<tpc, iVec>>
    BY <1>2, <2>1 DEF ChannelOpenCb
  <2> HIDE DEF r
  <2>10. Touch(s, i, r)
    BY <2>2, <2>4, <2>5, <2>6, <2>8, <2>9 DEF Touch
  <2> QED BY <2>10, TouchOwn
<1>3. CASE ClientCloses(s)
  <2> DEFINE i == iVec[s]
             r == [vsdata[i] EXCEPT !.channel = "closed"]
  <2>1. i \in DOMAIN vsdata /\ vsdata' = [vsdata EXCEPT ![i] = r]
    BY <1>3 DEF ClientCloses
  <2>2. vsdata[i].owner = s
    BY <1>3 DEF ClientCloses, Own, Located
  <2>3. vsdata[i] \in Records
    BY <2>1, RecordOf DEF Own, Typed
  <2>4. /\ r \in Records /\ r.id = vsdata[i].id /\ r.owner = vsdata[i].owner
        /\ r.erase_flag = vsdata[i].erase_flag
        /\ r.authenticated = vsdata[i].authenticated
    BY <2>3 DEF Records
  <2>5. r.authenticated => authed[s] = "password"
    BY <1>3, <2>4 DEF ClientCloses, Own, Passwords
  <2>6. authed[s] \in {"no", "none", "password"} /\ authed' = [authed EXCEPT ![s] = authed[s]]
        /\ authed'[s] = authed[s]
    BY <1>3 DEF ClientCloses, Own, Typed, TypeOK
  <2>7. Touch(s, i, r)
    BY <1>3, <2>1, <2>2, <2>4, <2>5, <2>6 DEF ClientCloses, Touch
  <2> QED BY <2>7, TouchOwn
<1>4. CASE AuthNoneCb(s)
  <2> DEFINE i == iVec[s]
  <2>1. i \in DOMAIN vsdata /\ vsdata[i].owner = s /\ vsdata[i] \in Records
    BY <1>4, RecordOf DEF AuthNoneCb, Own, Typed, Located
  <2>2. ~vsdata[i].authenticated
    BY <1>4 DEF AuthNoneCb, Own, Passwords
  <2>3. vsdata' = [vsdata EXCEPT ![i] = vsdata[i]]
    <3>1. vsdata \in [1 .. Len(vsdata) -> Records]
      BY LenProperties DEF Own, Typed, TypeOK
    <3> QED BY <1>4, <2>1, <3>1 DEF AuthNoneCb
  <2>4. authed' = [authed EXCEPT ![s] = "none"] /\ authed[s] = "no"
    BY <1>4 DEF AuthNoneCb
  <2>5. Touch(s, i, vsdata[i])
    BY <1>4, <2>1, <2>2, <2>3, <2>4 DEF AuthNoneCb, Touch
  <2> QED BY <2>5, TouchOwn
<1> QED BY <1>1, <1>2, <1>3, <1>4 DEF Client

LEMMA PushBackOwn ==
    ASSUME Own, harm' = {}, NEW s \in Sessions, PushBack(s)
    PROVE  Located' /\ Passwords'
<1> USE DEF Own
<1>1. /\ tpc[s] = "push" /\ tpc' = [tpc EXCEPT ![s] = "locate"]
      /\ UNCHANGED <<myid, iVec, authed>>
      /\ vsdata' = Append(vsdata, NewRecord(s))
  BY DEF PushBack, Goto
<1>2. /\ tpc'[s] = "locate"
      /\ \A u \in Sessions : u # s => tpc'[u] = tpc[u]
  BY <1>1 DEF Typed, TypeOK
<1>4. NewRecord(s) \in Records
  BY SessionsAssumption DEF NewRecord, Records, Typed, TypeOK
<1>5. /\ DOMAIN vsdata = 1 .. Len(vsdata) /\ Len(vsdata) \in Nat
      /\ DOMAIN vsdata' = 1 .. Len(vsdata) + 1
      /\ \A i \in DOMAIN vsdata : vsdata'[i] = vsdata[i]
      /\ vsdata'[Len(vsdata) + 1] = NewRecord(s)
  BY <1>1, <1>4, AppendProperties, LenProperties DEF Typed, TypeOK
<1>10. NewRecord(s).owner = s /\ NewRecord(s).erase_flag = 0 /\ ~NewRecord(s).authenticated
  BY DEF NewRecord
<1>13. Located'
  <2>1. \E i \in DOMAIN vsdata' :
            /\ vsdata'[i].owner = s /\ vsdata'[i].erase_flag = 0
            /\ ~vsdata'[i].authenticated
    BY <1>5, <1>10
  <2>2. \A i \in DOMAIN vsdata : i \in DOMAIN vsdata'
    BY <1>5
  <2> QED BY <1>1, <1>2, <1>5, <2>1, <2>2 DEF Located, Working
<1>14. Passwords'
  <2>1. \A u \in Sessions : tpc'[u] \in Working =>
            u # s /\ tpc[u] \in Working /\ vsdata'[iVec[u]] = vsdata[iVec[u]]
    BY <1>2, <1>5 DEF Located, Working
  <2> QED BY <1>1, <1>2, <2>1 DEF Passwords, Working
<1> QED BY <1>13, <1>14

LEMMA LocateOwn ==
    ASSUME Own, IdInv, harm = {}, NEW s \in Sessions, Locate(s)
    PROVE  Located' /\ Passwords'
<1> USE DEF Own
<1>1. PICK i \in 1 .. Len(vsdata) + 1 :
          /\ IF Found(myid[s]) THEN IsFirst(i, myid[s]) ELSE i = 1
          /\ iVec' = [iVec EXCEPT ![s] = i]
  BY DEF Locate
<1>2. /\ tpc[s] = "locate" /\ tpc' = [tpc EXCEPT ![s] = "kex"]
      /\ UNCHANGED <<vsdata, authed>>
  BY DEF Locate, Goto
<1>3. /\ tpc'[s] = "kex" /\ iVec'[s] = i
      /\ \A u \in Sessions : u # s => tpc'[u] = tpc[u] /\ iVec'[u] = iVec[u]
  BY <1>1, <1>2 DEF Typed, TypeOK
<1>4. PICK k \in DOMAIN vsdata : /\ vsdata[k].owner = s
                                 /\ vsdata[k].erase_flag = 0
                                 /\ ~vsdata[k].authenticated
  BY <1>2 DEF Located
<1>5. IsFirst(i, myid[s])
  BY <1>1, <1>4 DEF Found, Owners
<1>6. i \in DOMAIN vsdata /\ vsdata[i].owner = s
  BY <1>2, <1>5, FirstIsOwn DEF IsFirst, HasPushed
<1>7. i = k
  BY <1>4, <1>6 DEF Owners
<1>11. Located'
  BY <1>2, <1>3, <1>4, <1>6, <1>7 DEF Located, Working
<1>12. Passwords'
  BY <1>2, <1>3, <1>4, <1>7 DEF Passwords, Working
<1> QED BY <1>11, <1>12

LEMMA MarkOwn ==
    ASSUME Own, IdInv, harm = {}, NEW s \in Sessions, Mark(s)
    PROVE  Located' /\ Passwords'
<1> USE DEF Own
<1>1. /\ tpc[s] = "mark" /\ tpc' = [tpc EXCEPT ![s] = "close"]
      /\ UNCHANGED <<iVec, authed>>
  BY DEF Mark, Goto
<1>2. /\ tpc'[s] = "close"
      /\ \A u \in Sessions : u # s => tpc'[u] = tpc[u]
  BY <1>1 DEF Typed, TypeOK
<1>3. iVec[s] \in DOMAIN vsdata /\ vsdata[iVec[s]].owner = s
  BY <1>1 DEF Located, Working
<1>4. Found(myid[s])
  BY <1>3 DEF Found, Owners
<1>5. PICK i \in DOMAIN vsdata :
          /\ IsFirst(i, myid[s])
          /\ vsdata' = [vsdata EXCEPT ![i].erase_flag = 1]
  BY <1>4 DEF Mark
<1>6. vsdata[i].owner = s
  BY <1>1, <1>5, FirstIsOwn DEF IsFirst, HasPushed
<1>9. /\ DOMAIN vsdata' = DOMAIN vsdata
      /\ \A j \in DOMAIN vsdata : j # i => vsdata'[j] = vsdata[j]
      /\ \A j \in DOMAIN vsdata : vsdata'[j].owner = vsdata[j].owner
  BY <1>5, RecordOf DEF Records, Typed
<1>13. \A j \in DOMAIN vsdata : vsdata[j].owner # s => vsdata'[j] = vsdata[j]
  BY <1>6, <1>9
<1>14. Located'
  BY <1>1, <1>2, <1>9, <1>13 DEF Located, Working
<1>15. Passwords'
  BY <1>1, <1>2, <1>13 DEF Located, Passwords, Working
<1> QED BY <1>14, <1>15

LEMMA InitOwn == Init => OwnInv
BY InitIds DEF Init, IdInv, OwnInv, Own, Ids, HasCopied, Owners, Located, Passwords, Working

LEMMA NextOwn == OwnInv /\ [Next]_vars => OwnInv'
<1> SUFFICES ASSUME OwnInv, [Next]_vars, IdInv', harm' = {} PROVE Located' /\ Passwords'
  BY NextIds DEF OwnInv, Own, IdInv
<1>1. harm = {} BY HarmGrows DEF vars
<1>2. Own /\ IdInv BY <1>1 DEF OwnInv
<1>3. CASE UNCHANGED vars
  BY <1>2, <1>3 DEF vars, Own, Located, Passwords
<1>4. CASE Main BY <1>1, <1>2, <1>4, MainOwn
<1>5. ASSUME NEW s \in Sessions, Client(s) PROVE Located' /\ Passwords'
  BY <1>1, <1>2, <1>5, ClientOwn
<1>6. ASSUME NEW s \in Sessions, Thread(s) PROVE Located' /\ Passwords'
  BY <1>1, <1>2, <1>6, QuietSteps, PushBackOwn, LocateOwn, MarkOwn DEF Thread
<1> QED BY <1>3, <1>4, <1>5, <1>6 DEF Next

(* The index l.217-222 computes once names the thread's own unmarked       *)
(* record for the whole of my_handle_session, in every schedule, up to the *)
(* first time that two threads read the same id, a push_back loses a       *)
(* record or main drops an unmarked one.                                   *)
THEOREM RecordIsOwn == Spec => []OwnRecord
<1>1. OwnInv => OwnRecord
  BY DEF OwnInv, Own, Located, OwnRecord
<1> QED BY InitOwn, NextOwn, <1>1, PTL DEF Spec

(* Up to that first time a thread goes on to serve its client or to        *)
(* connect to proxy_to_host (l.303-311) only when that client gave the     *)
(* password, though the flag it reads is in a vector all sessions share    *)
(* and libssh may have taken the client without one.                       *)
THEOREM ServedAuthenticated == Spec => []ServedIsAuthenticated
<1>1. OwnInv => ServedIsAuthenticated
  BY DEF OwnInv, Own, Passwords, ServedIsAuthenticated
<1> QED BY InitOwn, NextOwn, <1>1, PTL DEF Spec

-----------------------------------------------------------------------------
(* What a thread may hold where it is, however the threads are scheduled.  *)
Serving == {"session", "event"} \cup IF server.relays THEN {"proxy_session"} ELSE {}

HeldWhere ==
    /\ tpc \in [Sessions -> Labels]
    /\ held \in [Sessions -> SUBSET Things]
    /\ \A s \in Sessions :
        /\ tpc[s] \in {"start", "push", "locate", "kex", "mark", "close"} =>
               held[s] \subseteq {"session"}
        /\ tpc[s] \in {"auth", "poll", "new"} =>
               held[s] \subseteq {"session", "event"}
        /\ tpc[s] = "serve" => held[s] \subseteq Serving
        /\ tpc[s] \in {"new", "connect", "login", "channel"} => server.relays
        /\ tpc[s] = "done" => held[s] = {}

LEMMA HeldStep ==
    ASSUME HeldWhere, NEW s \in Sessions, NEW label \in Labels,
           NEW S \in SUBSET Things,
           tpc' = [tpc EXCEPT ![s] = label], held' = [held EXCEPT ![s] = S],
           UNCHANGED server,
           label \in {"start", "push", "locate", "kex", "mark", "close"} =>
               S \subseteq {"session"},
           label \in {"auth", "poll", "new"} => S \subseteq {"session", "event"},
           label = "serve" => S \subseteq Serving,
           label \in {"new", "connect", "login", "channel"} => server.relays,
           label = "done" => S = {}
    PROVE  HeldWhere'
<1>1. /\ tpc'[s] = label /\ held'[s] = S /\ Serving' = Serving
      /\ \A u \in Sessions : u # s => tpc'[u] = tpc[u] /\ held'[u] = held[u]
      /\ tpc' \in [Sessions -> Labels]
      /\ held' \in [Sessions -> SUBSET Things]
  BY DEF HeldWhere, Serving
<1> QED BY <1>1 DEF HeldWhere

LEMMA ThreadHeld ==
    ASSUME HeldWhere, NEW s \in Sessions, Thread(s)
    PROVE  HeldWhere'
<1> USE DEF Goto, Return, Labels, Things
<1>h. held' = held => held' = [held EXCEPT ![s] = held[s]]
  BY DEF HeldWhere
<1>s. held[s] \in SUBSET Things
  BY DEF HeldWhere
<1>w. /\ tpc[s] \in {"start", "push", "locate", "kex", "mark", "close"} =>
             held[s] \subseteq {"session"}
      /\ tpc[s] \in {"auth", "poll", "new"} =>
             held[s] \subseteq {"session", "event"}
      /\ tpc[s] = "serve" => held[s] \subseteq Serving
      /\ tpc[s] \in {"new", "connect", "login", "channel"} => server.relays
  BY DEF HeldWhere
<1>1. CASE CopyParams(s) \/ PushBack(s) \/ Locate(s) \/ Mark(s)
  BY <1>1, <1>h, <1>s, <1>w, HeldStep DEF CopyParams, PushBack, Locate, Mark
<1>2. CASE KeyExchange(s)
  <2>1. /\ held[s] \cup {"event"} \in SUBSET Things
        /\ held[s] \ {} \in SUBSET Things
        /\ held[s] \cup {"event"} \subseteq {"session", "event"}
        /\ held[s] \ {} \subseteq {"session"}
    BY <1>2, <1>s, <1>w DEF KeyExchange
  <2>2. CASE tpc' = [tpc EXCEPT ![s] = "auth"]
             /\ held' = [held EXCEPT ![s] = held[s] \cup {"event"}]
    BY <1>2, <2>1, <2>2, HeldStep DEF KeyExchange
  <2>3. CASE tpc' = [tpc EXCEPT ![s] = "mark"]
             /\ held' = [held EXCEPT ![s] = held[s] \ {}]
    BY <1>2, <2>1, <2>3, HeldStep DEF KeyExchange
  <2> QED BY <1>2, <2>2, <2>3 DEF KeyExchange
<1>3. CASE AuthLoop(s)
  <2>1. held[s] \subseteq {"session", "event"} /\ held[s] \subseteq Serving
        /\ held[s] \ {"event"} \subseteq {"session"}
        /\ held[s] \ {"event"} \in SUBSET Things
    BY <1>3, <1>s, <1>w DEF AuthLoop, Serving
  <2>2. CASE tpc' = [tpc EXCEPT ![s] = "mark"]
             /\ held' = [held EXCEPT ![s] = held[s] \ {"event"}]
    BY <1>3, <2>1, <2>2, HeldStep DEF AuthLoop
  <2>3. CASE tpc' = [tpc EXCEPT ![s] = "poll"] /\ UNCHANGED held
    BY <1>3, <1>h, <1>s, <2>1, <2>3, HeldStep DEF AuthLoop
  <2>4. CASE tpc' = [tpc EXCEPT ![s] = "new"] /\ server.relays /\ UNCHANGED held
    BY <1>3, <1>h, <1>s, <2>1, <2>4, HeldStep DEF AuthLoop
  <2>5. CASE tpc' = [tpc EXCEPT ![s] = "serve"] /\ UNCHANGED held
    BY <1>3, <1>h, <1>s, <2>1, <2>5, HeldStep DEF AuthLoop
  <2> QED BY <1>3, <2>2, <2>3, <2>4, <2>5 DEF AuthLoop
<1>4. CASE PollReturns(s)
  BY <1>4, <1>h, <1>s, <1>w, HeldStep DEF PollReturns
<1>5. CASE PollFails(s)
  <2>1. held[s] \ {"event"} \subseteq {"session"}
        /\ held[s] \ {"event"} \in SUBSET Things
    BY <1>5, <1>s, <1>w DEF PollFails
  <2> QED BY <1>5, <2>1, HeldStep DEF PollFails
<1>6. CASE ProxyNew(s) \/ ProxyIsNull(s) \/ ProxyStep(s)
  <2>1. CASE ProxyNew(s)
    <3>1. held[s] \cup {"proxy_session"} \in SUBSET Things
      BY <1>s
    <3> QED BY <1>w, <2>1, <3>1, HeldStep DEF ProxyNew
  <2>2. CASE ProxyIsNull(s)
    BY <2>2 DEF ProxyIsNull, HeldWhere, Serving
  <2>3. CASE ProxyStep(s)
    <3>1. server.relays => held[s] \subseteq Serving
      BY <1>s DEF Serving
    <3> QED BY <1>h, <1>s, <1>w, <2>3, <3>1, HeldStep DEF ProxyStep
  <2> QED BY <1>6, <2>1, <2>2, <2>3
<1>7. CASE ProxyFails(s)
  <2>1. held[s] \ {"event", "proxy_session"} \subseteq {"session"}
        /\ held[s] \ {"event", "proxy_session"} \in
               SUBSET Things
    BY <1>s
  <2> QED BY <1>7, <2>1, HeldStep DEF ProxyFails
<1>8. CASE ServeEnds(s)
  <2> DEFINE freed == {"event"} \cup IF server.relays THEN {"proxy_session"} ELSE {}
  <2>1. held[s] \ freed \subseteq {"session"}
        /\ held[s] \ freed \in SUBSET Things
    BY <1>8, <1>s, <1>w DEF ServeEnds, Serving
  <2>2. /\ tpc' = [tpc EXCEPT ![s] = "mark"] /\ UNCHANGED server
        /\ held' = [held EXCEPT ![s] = held[s] \ freed]
    BY <1>8 DEF ServeEnds
  <2> HIDE DEF freed
  <2> QED BY <2>1, <2>2, HeldStep
<1>9. CASE CloseSession(s)
  <2>1. held[s] \ {"session"} = {}
        /\ held[s] \ {"session"} \in SUBSET Things
    BY <1>9, <1>s, <1>w DEF CloseSession
  <2> QED BY <1>9, <2>1, HeldStep DEF CloseSession
<1> QED BY <1>1, <1>2, <1>3, <1>4, <1>5, <1>6, <1>7, <1>8, <1>9 DEF Thread

(* Every return of my_handle_session (l.227-384) and of the thread         *)
(* (l.416-417) has freed what the session had by then, of every server and *)
(* for any number of sessions, also when threads share a record.           *)
THEOREM NothingIsKept == Spec => []NothingKept
<1>1. Init => HeldWhere
  BY DEF Init, HeldWhere, Labels
<1>2. HeldWhere /\ [Next]_vars => HeldWhere'
  <2> SUFFICES ASSUME HeldWhere, [Next]_vars PROVE HeldWhere'
    OBVIOUS
  <2>1. CASE UNCHANGED vars
    BY <2>1 DEF vars, HeldWhere, Serving
  <2>2. CASE PurgeScan \/ PurgeClear \/ AcceptFails \/ Accept \/ CreateFails
    BY <2>2 DEF PurgeScan, PurgeClear, AcceptFails, Accept, CreateFails,
                HeldWhere, Serving
  <2>3. CASE CreateThread
    <3>1. /\ tpc' = [tpc EXCEPT ![created'] = "start"]
          /\ held' = [held EXCEPT ![created'] = {"session"}] /\ UNCHANGED server
      BY <2>3 DEF CreateThread, Goto
    <3>2. CASE created' \in Sessions
      BY <3>1, <3>2, HeldStep DEF Labels, Things
    <3>3. CASE created' \notin Sessions
      BY <3>1, <3>3 DEF HeldWhere, Serving
    <3> QED BY <3>2, <3>3
  <2>4. ASSUME NEW s \in Sessions, Client(s) PROVE HeldWhere'
    BY <2>4 DEF Client, PasswordCb, AuthNoneCb, ChannelOpenCb, ClientCloses,
                HeldWhere, Serving
  <2> QED BY <2>1, <2>2, <2>3, <2>4, ThreadHeld DEF Next, Main
<1>3. HeldWhere => NothingKept
  BY DEF HeldWhere, NothingKept
<1> QED BY <1>1, <1>2, <1>3, PTL DEF Spec
=============================================================================
