---------------------------- MODULE SshSessions ----------------------------
(***************************************************************************)
(* YH-161/ssh_proxy_server.cpp and the ssh_echo_server.cpp of YH-159,      *)
(* YH-160 and YH-161, which share one skeleton: main accepts clients and   *)
(* starts one detached thread for each; the threads keep one record per    *)
(* session in the global vector vsdata, find it by the id they copied from *)
(* gParam, and main empties the vector when every record is marked.        *)
(* Nothing takes a lock.  Line numbers are those of ssh_proxy_server.cpp.  *)
(***************************************************************************)
EXTENDS Integers, Sequences, FiniteSets

CONSTANTS
    NumSessions,  \* clients that connect, in this order
    MaxId,        \* bound on gParam.id
    MaxAttempts   \* bound on auth_attempts: passwords one dopoll may deliver

(* The programs, and what their my_handle_session does differently: only   *)
(* the proxy opens a session of its own, only YH-160's echo server has an  *)
(* auth_none_function.                                                     *)
Proxy161 == [relays |-> TRUE, accepts_none |-> FALSE]
Echo161 == [relays |-> FALSE, accepts_none |-> FALSE]
Echo160 == [relays |-> FALSE, accepts_none |-> TRUE]
Echo159 == [relays |-> FALSE, accepts_none |-> FALSE]
Servers == {Proxy161, Echo161, Echo160, Echo159}

ASSUME SessionsAssumption == /\ NumSessions \in Nat
                             /\ MaxId \in Nat
                             /\ MaxAttempts \in Nat

Sessions == 1 .. NumSessions

VARIABLES
    vsdata,     \* the records; "owner" is the thread that pushed it
    gParam_id,
    mpc,        \* where main is
    created,    \* threads main has created
    tpc,        \* where each session's thread is
    myid,       \* myParam.id
    iVec,       \* index of the record, 1-based
    authed,     \* libssh's own view: how this session's client authenticated
    held,       \* what the thread has to free: session, event, proxy_session
    harm,       \* history, how the threads have got in each other's way:
                \* "id", two have read the same gParam.id; "lost", a
                \* push_back overwrote another; "dropped", main cleared a
                \* record that was not marked
    server      \* which of the programs runs

vars == <<vsdata, gParam_id, mpc, created, tpc, myid, iVec, authed, held,
          harm, server>>

NewRecord(s) == [id |-> myid[s], owner |-> s, authenticated |-> FALSE,
                 channel |-> "none", auth_attempts |-> 0, erase_flag |-> 0]

Init == /\ vsdata = <<>>
        /\ gParam_id = 0
        /\ mpc = "scan"
        /\ created = 0
        /\ tpc = [s \in Sessions |-> "none"]
        /\ myid = [s \in Sessions |-> 0]
        /\ iVec = [s \in Sessions |-> 0]
        /\ authed = [s \in Sessions |-> "no"]
        /\ held = [s \in Sessions |-> {}]
        /\ harm = {}
        /\ server \in Servers

Goto(s, label) == tpc' = [tpc EXCEPT ![s] = label]

(* search_session_data_vector: the first record with this id.              *)
IsFirst(i, id) == /\ i \in DOMAIN vsdata
                  /\ vsdata[i].id = id
                  /\ \A j \in 1 .. i - 1 : vsdata[j].id # id

Found(id) == \E i \in DOMAIN vsdata : vsdata[i].id = id

-----------------------------------------------------------------------------
(* main's accept loop                                                      *)

AllMarked == \A i \in DOMAIN vsdata : vsdata[i].erase_flag = 1

PurgeScan ==
    /\ mpc = "scan"
    /\ mpc' = IF AllMarked THEN "clear" ELSE "accept"
    /\ UNCHANGED <<vsdata, gParam_id, created, tpc, myid, iVec, authed, held,
                   harm, server>>

PurgeClear ==
    /\ mpc = "clear"
    /\ vsdata' = <<>>
    /\ harm' = IF AllMarked THEN harm ELSE harm \cup {"dropped"}
    /\ mpc' = "accept"
    /\ UNCHANGED <<gParam_id, created, tpc, myid, iVec, authed, held, server>>

AcceptFails ==       \* ssh_new() is NULL, or ssh_bind_accept() fails
    /\ mpc = "accept"
    /\ mpc' = "scan"
    /\ UNCHANGED <<vsdata, gParam_id, created, tpc, myid, iVec, authed, held,
                   harm, server>>

Accept ==
    /\ mpc = "accept"
    /\ created < NumSessions /\ gParam_id < MaxId
    /\ gParam_id' = gParam_id + 1
    /\ mpc' = "create"
    /\ UNCHANGED <<vsdata, created, tpc, myid, iVec, authed, held, harm, server>>

CreateThread ==
    /\ mpc = "create"
    /\ created' = created + 1
    /\ Goto(created', "start")
    /\ held' = [held EXCEPT ![created'] = {"session"}]
    /\ mpc' = "scan"
    /\ UNCHANGED <<vsdata, gParam_id, myid, iVec, authed, harm, server>>

CreateFails ==       \* the session is kept by nobody; the id is used up
    /\ mpc = "create"
    /\ mpc' = "scan"
    /\ UNCHANGED <<vsdata, gParam_id, created, tpc, myid, iVec, authed, held,
                   harm, server>>

-----------------------------------------------------------------------------
(* my_session_thread_function, and my_handle_session which it calls        *)

HasCopied(u) == tpc[u] \notin {"none", "start"}

CopyParams(s) ==
    /\ tpc[s] = "start"
    /\ myid' = [myid EXCEPT ![s] = gParam_id]
    /\ harm' = IF \E u \in Sessions : HasCopied(u) /\ myid[u] = gParam_id
               THEN harm \cup {"id"} ELSE harm
    /\ Goto(s, "push")
    /\ UNCHANGED <<vsdata, gParam_id, mpc, created, iVec, authed, held, server>>

PushBack(s) ==       \* of two overlapping push_backs one record may be lost
    /\ tpc[s] = "push"
    /\ \/ vsdata' = Append(vsdata, NewRecord(s)) /\ UNCHANGED harm
       \/ /\ \E u \in Sessions \ {s} : tpc[u] = "push"
          /\ harm' = harm \cup {"lost"}
          /\ UNCHANGED vsdata
    /\ Goto(s, "locate")
    /\ UNCHANGED <<gParam_id, mpc, created, myid, iVec, authed, held, server>>

LocateFirst(s) ==    \* mutant of Locate: iVec is left at its first value
    /\ tpc[s] = "locate"
    /\ iVec' = [iVec EXCEPT ![s] = 1]
    /\ Goto(s, "kex")
    /\ UNCHANGED <<vsdata, gParam_id, mpc, created, myid, authed, held,
                   harm, server>>

Locate(s) ==         \* iVec stays at the first record if none has the id
    /\ tpc[s] = "locate"
    /\ \E i \in 1 .. Len(vsdata) + 1 :
          /\ IF Found(myid[s]) THEN IsFirst(i, myid[s]) ELSE i = 1
          /\ iVec' = [iVec EXCEPT ![s] = i]
    /\ Goto(s, "kex")
    /\ UNCHANGED <<vsdata, gParam_id, mpc, created, myid, authed, held,
                   harm, server>>

(* The record the thread works with; past the vector's end, fields nobody  *)
(* wrote.                                                                  *)
Rec(s) == IF iVec[s] \in DOMAIN vsdata THEN vsdata[iVec[s]] ELSE NewRecord(s)

Return(s, freed) ==  \* leaves my_handle_session having freed these
    /\ held' = [held EXCEPT ![s] = @ \ freed]
    /\ Goto(s, "mark")

KeyExchange(s) ==
    /\ tpc[s] = "kex"
    /\ \/ /\ held' = [held EXCEPT ![s] = @ \cup {"event"}]
          /\ Goto(s, "auth")
       \/ Return(s, {})      \* the exchange or ssh_event_new() failed
    /\ UNCHANGED <<vsdata, gParam_id, mpc, created, myid, iVec, authed,
                   harm, server>>

n == 0       \* turns of the loop: set at l.289, and never changed

GivesUp(s) == Rec(s).auth_attempts >= 3 \/ n >= 100

AnyAttempt(s) == Rec(s).auth_attempts > 0   \* mutant of LoopOver
LoopOver(s) == Rec(s).authenticated /\ Rec(s).channel # "none"

AuthLoop(s) ==
    /\ tpc[s] = "auth"
    /\ \/ /\ LoopOver(s)
          /\ Goto(s, IF server.relays THEN "new" ELSE "serve")
          /\ UNCHANGED held
       \/ LoopOver(s) /\ Return(s, {"event"})   \* ssh_set_channel_callbacks fails
       \/ ~LoopOver(s) /\ GivesUp(s) /\ Return(s, {"event"})
       \/ ~LoopOver(s) /\ ~GivesUp(s) /\ Goto(s, "poll") /\ UNCHANGED held
    /\ UNCHANGED <<vsdata, gParam_id, mpc, created, myid, iVec, authed,
                   harm, server>>

(* Callbacks run inside ssh_event_dopoll; libssh lets a client open a      *)
(* channel only after it has authenticated, and authenticate only once.    *)
PasswordCb(s) ==
    /\ tpc[s] = "poll"
    /\ authed[s] = "no"
    /\ \E i \in DOMAIN vsdata, good \in BOOLEAN :
          /\ IsFirst(i, myid[s])
          /\ vsdata[i].auth_attempts < MaxAttempts
          /\ vsdata' = [vsdata EXCEPT ![i].auth_attempts = @ + 1,
                                      ![i].authenticated = @ \/ good]
          /\ authed' = [authed EXCEPT ![s] = IF good THEN "password" ELSE "no"]
    /\ UNCHANGED <<gParam_id, mpc, created, tpc, myid, iVec, held, harm, server>>

(* SSH_AUTH_SUCCESS for whoever asks, and the record is not told.          *)
AuthNoneCb(s) ==
    /\ tpc[s] = "poll"
    /\ server.accepts_none
    /\ authed[s] = "no"
    /\ authed' = [authed EXCEPT ![s] = "none"]
    /\ UNCHANGED <<vsdata, gParam_id, mpc, created, tpc, myid, iVec, held,
                   harm, server>>

ChannelOpenCb(s) ==
    /\ tpc[s] = "poll"
    /\ authed[s] # "no"
    /\ \E i \in DOMAIN vsdata :
          /\ IsFirst(i, myid[s])
          /\ vsdata[i].channel = "none"
          /\ vsdata' = [vsdata EXCEPT ![i].channel = "open"]
    /\ UNCHANGED <<gParam_id, mpc, created, tpc, myid, iVec, authed, held,
                   harm, server>>

ClientCloses(s) ==   \* my_channel_close_cb, or the client's socket is gone
    /\ tpc[s] \in {"poll", "serve"}
    /\ iVec[s] \in DOMAIN vsdata
    /\ vsdata[iVec[s]].channel = "open"
    /\ vsdata' = [vsdata EXCEPT ![iVec[s]].channel = "closed"]
    /\ UNCHANGED <<gParam_id, mpc, created, tpc, myid, iVec, authed, held,
                   harm, server>>

PollReturns(s) ==
    /\ tpc[s] = "poll"
    /\ Goto(s, "auth")
    /\ UNCHANGED <<vsdata, gParam_id, mpc, created, myid, iVec, authed, held,
                   harm, server>>

PollFails(s) ==
    /\ tpc[s] = "poll"
    /\ Return(s, {"event"})
    /\ UNCHANGED <<vsdata, gParam_id, mpc, created, myid, iVec, authed,
                   harm, server>>

(* The session with proxy_to_host: ssh_new(), and then ssh_connect(),      *)
(* ssh_userauth_password() and ssh_channel_new() with a return for each    *)
(* failure.  The one of ssh_new() is not handled (l.314): libssh refuses   *)
(* to connect NULL, and ssh_get_error_code() reads through it (l.333),     *)
(* which ends the process with all its sessions.                           *)
ProxyNew(s) ==
    /\ tpc[s] = "new"
    /\ Goto(s, "connect")
    /\ held' = [held EXCEPT ![s] = @ \cup {"proxy_session"}]
    /\ UNCHANGED <<vsdata, gParam_id, mpc, created, myid, iVec, authed,
                   harm, server>>

ProxyIsNull(s) ==
    /\ tpc[s] = "new"
    /\ mpc' = "crashed"
    /\ UNCHANGED <<vsdata, gParam_id, created, tpc, myid, iVec, authed, held,
                   harm, server>>

ProxyStep(s) ==
    /\ \/ tpc[s] = "connect" /\ Goto(s, "login")
       \/ tpc[s] = "login" /\ Goto(s, "channel")
       \/ tpc[s] = "channel" /\ Goto(s, "serve")
    /\ UNCHANGED <<vsdata, gParam_id, mpc, created, myid, iVec, authed, held,
                   harm, server>>

ProxyFailsKeeps(s) ==   \* mutant of ProxyFails: no ssh_free() when ssh_connect() fails
    /\ tpc[s] \in {"connect", "login", "channel"}
    /\ Return(s, {"event"} \cup IF tpc[s] = "connect" THEN {} ELSE {"proxy_session"})
    /\ UNCHANGED <<vsdata, gParam_id, mpc, created, myid, iVec, authed,
                   harm, server>>

ProxyFails(s) ==
    /\ tpc[s] \in {"connect", "login", "channel"}
    /\ Return(s, {"event", "proxy_session"})
    /\ UNCHANGED <<vsdata, gParam_id, mpc, created, myid, iVec, authed,
                   harm, server>>

ServeEnds(s) ==      \* ssh_channel_is_open() is false
    /\ tpc[s] = "serve"
    /\ Rec(s).channel # "open"
    /\ Return(s, {"event"} \cup IF server.relays THEN {"proxy_session"} ELSE {})
    /\ UNCHANGED <<vsdata, gParam_id, mpc, created, myid, iVec, authed,
                   harm, server>>

MarkNothing(s) ==    \* mutant of Mark
    /\ tpc[s] = "mark"
    /\ Goto(s, "close")
    /\ UNCHANGED <<vsdata, gParam_id, mpc, created, myid, iVec, authed, held,
                   harm, server>>

MarkCounts(s) ==     \* mutant of Mark: erase_flag++
    /\ tpc[s] = "mark"
    /\ \/ \E i \in DOMAIN vsdata :
             /\ IsFirst(i, myid[s])
             /\ vsdata' = [vsdata EXCEPT ![i].erase_flag = @ + 1]
       \/ ~Found(myid[s]) /\ UNCHANGED vsdata
    /\ Goto(s, "close")
    /\ UNCHANGED <<gParam_id, mpc, created, myid, iVec, authed, held,
                   harm, server>>

Mark(s) ==
    /\ tpc[s] = "mark"
    /\ \/ \E i \in DOMAIN vsdata :
             /\ IsFirst(i, myid[s])
             /\ vsdata' = [vsdata EXCEPT ![i].erase_flag = 1]
       \/ ~Found(myid[s]) /\ UNCHANGED vsdata
    /\ Goto(s, "close")
    /\ UNCHANGED <<gParam_id, mpc, created, myid, iVec, authed, held,
                   harm, server>>

CloseSession(s) ==
    /\ tpc[s] = "close"
    /\ held' = [held EXCEPT ![s] = @ \ {"session"}]
    /\ Goto(s, "done")
    /\ UNCHANGED <<vsdata, gParam_id, mpc, created, myid, iVec, authed,
                   harm, server>>

-----------------------------------------------------------------------------
Main == \/ PurgeScan \/ PurgeClear \/ AcceptFails \/ Accept
        \/ CreateThread \/ CreateFails

Client(s) == \/ PasswordCb(s) \/ AuthNoneCb(s) \/ ChannelOpenCb(s)
             \/ ClientCloses(s)

Thread(s) == \/ CopyParams(s) \/ PushBack(s) \/ Locate(s) \/ KeyExchange(s)
             \/ AuthLoop(s) \/ PollReturns(s) \/ PollFails(s) \/ ProxyNew(s)
             \/ ProxyIsNull(s) \/ ProxyStep(s) \/ ProxyFails(s) \/ ServeEnds(s)
             \/ Mark(s) \/ CloseSession(s)

Crashed == mpc = "crashed"

Next == \/ ~Crashed /\ (Main \/ \E s \in Sessions : Client(s) \/ Thread(s))
        \/ Crashed /\ UNCHANGED vars

Spec == Init /\ [][Next]_vars

(* Every thread is scheduled, and the calls it makes return.  Clients and  *)
(* main's accept owe nobody a step.                                        *)
FairSpec == Spec /\ \A s \in Sessions : WF_vars(~Crashed /\ Thread(s))

-----------------------------------------------------------------------------
Records == [id : 0 .. MaxId, owner : Sessions, authenticated : BOOLEAN,
            channel : {"none", "open", "closed"},
            auth_attempts : 0 .. MaxAttempts, erase_flag : {0, 1}]

TypeOK ==
    /\ vsdata \in Seq(Records)
    /\ gParam_id \in 0 .. MaxId
    /\ mpc \in {"scan", "clear", "accept", "create", "crashed"}
    /\ created \in 0 .. NumSessions
    /\ tpc \in [Sessions -> {"none", "start", "push", "locate", "kex", "auth",
                             "poll", "new", "connect", "login", "channel",
                             "serve", "mark", "close", "done"}]
    /\ myid \in [Sessions -> 0 .. MaxId]
    /\ iVec \in [Sessions -> Nat]
    /\ authed \in [Sessions -> {"no", "none", "password"}]
    /\ held \in [Sessions -> SUBSET {"session", "event", "proxy_session"}]
    /\ harm \subseteq {"id", "lost", "dropped"}
    /\ server \in Servers

Working == {"kex", "auth", "poll", "new", "connect", "login", "channel", "serve",
            "mark"}

(* The index a thread keeps across all its blocking calls goes on naming   *)
(* the record it pushed, unmarked, while other threads push records and    *)
(* main empties the vector (l.217-222 against l.74 and l.405), in every    *)
(* schedule in which none of the three harms has been done: nothing else   *)
(* can turn a session to another's record.                                 *)
OwnRecord ==
    harm = {} => \A s \in Sessions : tpc[s] \in Working =>
        /\ iVec[s] \in DOMAIN vsdata
        /\ vsdata[iVec[s]].owner = s
        /\ vsdata[iVec[s]].erase_flag = 0

(* l.62-63: "if all records have been marked as erase, then clean vsdata". *)
ClearsOnlyMarked == [][mpc = "clear" /\ mpc' = "accept" => AllMarked]_vars

(* A session is echoed or connected to proxy_to_host only when its own     *)
(* client has given the password (l.290, l.201-205), also by the server    *)
(* whose libssh authenticates every client that asks (YH-160's             *)
(* ssh_echo_server.cpp l.161-167); again unless a harm has been done.      *)
ServedIsAuthenticated ==
    harm = {} => \A s \in Sessions :
        tpc[s] \in {"new", "connect", "login", "channel", "serve"} =>
            authed[s] = "password"

(* When no session is left, main's next look at the vector empties it: no  *)
(* way out of a session leaves its record unmarked (l.65-74, l.408-414),   *)
(* neither does a lost or a dropped record.  A shared id does: of two      *)
(* records with one id only the first is ever marked.                      *)
IdleIsPurged ==
    [][(/\ "id" \notin harm
        /\ mpc = "scan" /\ mpc' # "scan"
        /\ \A s \in Sessions : tpc[s] \in {"none", "done"})
       => mpc' = "clear"]_vars

(* A finished thread has freed its session, its event and its session with *)
(* proxy_to_host, whichever return it took (l.227-384, l.416-417).         *)
NothingKept == \A s \in Sessions : tpc[s] = "done" => held[s] = {}

(* l.288: "Loop attempts authenticate 3 times in 10 seconds (n * 100ms)":  *)
(* whatever the client does, a thread leaves the loop of l.290-301.        *)
LoginEnds == \A s \in Sessions : []<>(tpc[s] \notin {"auth", "poll"})

=============================================================================
