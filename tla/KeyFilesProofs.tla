--------------------------- MODULE KeyFilesProofs ---------------------------
(***************************************************************************)
(* Proofs about KeyFiles, for any number of runs, versions and messages.   *)
(***************************************************************************)
EXTENDS KeyFiles, TLAPS

(* The programs' names and their control points.                           *)
LEMMA Named ==
  /\ Programs = {"generate_rsakey", "generate_x509", "pkey_sign", "pkey_verify",
                 "verify_x509", "evp_readkey_file", "pkey_send", "pkey_recv"}
  /\ \A p \in Programs : "idle" \in Labels(p)
  /\ \A p \in Writers : {"open", "write"} \subseteq Labels(p)
  /\ {"digest", "sign"} \subseteq Labels("pkey_sign")
  /\ {"digest", "compare"} \subseteq Labels("pkey_verify")
  /\ "compare" \in Labels("verify_x509")
  /\ {"line", "encrypt", "copy"} \subseteq Labels("pkey_send")
  /\ {"prompt", "copying"} \subseteq Labels("pkey_recv")
BY DEF Programs, Writers, Generators, Verifiers, Labels

LEMMA GotoOK ==
  ASSUME PcOK, NEW p \in Programs, NEW l, l \in Labels(p), Goto(p, l)
  PROVE  PcOK'
<1>1. l \in {"idle", "open", "write", "digest", "sign", "compare",
             "line", "encrypt", "copy", "prompt", "copying"}
  BY DEF Labels
<1>2. QED BY <1>1, Zenon DEF PcOK, Goto

LEMMA ReturnOK ==
  ASSUME PcOK, NEW p \in Programs, NEW rc \in {"none", "ok", "bad", "failed"}, Return(p, rc),
         result \in [Programs -> {"none", "ok", "bad", "failed"}]
  PROVE  PcOK' /\ result' \in [Programs -> {"none", "ok", "bad", "failed"}]
<1>1. PcOK' BY GotoOK, Named DEF Return
<1>2. QED BY <1>1 DEF Return

LEMMA PlanLengths ==
  \A p \in Writers : /\ Len(Plan(p)) \in Nat \ {0}
                     /\ \A i \in 1 .. Len(Plan(p)) : Plan(p)[i] \in Files
BY DEF Plan, Writers, Generators, Files, KeyFiles

LEMMA AfterSaveOK ==
  ASSUME RunsOK, NEW p \in Writers, NEW rc, AfterSave(p, rc)
  PROVE  /\ PcOK'
         /\ result' \in [Programs -> {"none", "ok", "bad", "failed"}]
         /\ at' \in [Programs -> Nat] /\ \A q \in Writers : at'[q] \in 1 .. Len(Plan(q))
<1> p \in Programs BY DEF Programs
<1>1. CASE Return(p, "failed") /\ UNCHANGED at
  BY <1>1, ReturnOK DEF RunsOK
<1>2. CASE Return(p, "ok") /\ UNCHANGED at
  BY <1>2, ReturnOK DEF RunsOK
<1>3. CASE /\ at[p] # Len(Plan(p))
           /\ at' = [at EXCEPT ![p] = @ + 1]
           /\ Goto(p, "open")
           /\ UNCHANGED result
  <2>1. PcOK' BY <1>3, GotoOK, Named DEF RunsOK
  <2>2. at'[p] = at[p] + 1 /\ \A q \in Writers \ {p} : at'[q] = at[q]
    BY <1>3 DEF RunsOK, Programs
  <2>3. \A q \in Writers : at'[q] \in 1 .. Len(Plan(q))
    BY <1>3, <2>2, PlanLengths DEF RunsOK
  <2>4. QED BY <1>3, <2>1, <2>3 DEF RunsOK
<1>4. QED BY <1>1, <1>2, <1>3 DEF AfterSave

(* What load_key yields.                                                   *)
LEMMA LoadNat ==
  ASSUME FilesOK
  PROVE  /\ \A f \in Files : Load(f) \in Nat
         /\ LoadTwice("public") \in Nat
<1>1. ASSUME NEW f \in Files PROVE Load(f) \in Nat
  <2>1. file[f] \in Seq(Contents) BY DEF FilesOK
  <2>2. file[f] # <<>> => Head(file[f]) \in Contents BY <2>1
  <2>3. QED BY <2>2 DEF Load, Contents, None
<1>2. LoadTwice("public") \in Nat
  <2>1. file["public"] \in Seq(Contents) BY DEF FilesOK, Files, KeyFiles
  <2>2. Len(file["public"]) >= 2 => file["public"][2] \in Contents BY <2>1
  <2>3. QED BY <2>1, <2>2 DEF LoadTwice, Contents, None
<1>3. QED BY <1>1, <1>2

LEMMA LoadsRuns ==
  ASSUME TypeOK, NEW v \in Verifiers, NEW key \in Nat, Loads(v, key)
  PROVE  RunsOK'
<1>1. v \in Programs BY DEF Programs
<1>2. v = "pkey_verify" \/ v = "verify_x509" BY DEF Verifiers
<1>3. CASE Return(v, "failed") /\ UNCHANGED pkey
  BY <1>1, <1>3, ReturnOK, KeyFilesAssumption DEF Loads, Start, RunsOK, TypeOK
<1>4. CASE /\ pkey' = [pkey EXCEPT ![v] = key]
           /\ Goto(v, IF v = "pkey_verify" THEN "digest" ELSE "compare")
           /\ result' = [result EXCEPT ![v] = "none"]
  <2>1. PcOK' BY <1>1, <1>2, <1>4, GotoOK, Named DEF RunsOK, TypeOK
  <2>2. QED BY <1>1, <1>4, <2>1, KeyFilesAssumption DEF Loads, Start, RunsOK, TypeOK
<1>5. QED BY <1>3, <1>4 DEF Loads

LEMMA RunsStep ==
  ASSUME TypeOK, [Next]_vars
  PROVE  RunsOK'
<1> USE KeyFilesAssumption DEF TypeOK
<1>1. ASSUME NEW g \in Generators, Generate(g) PROVE RunsOK'
  <2>1. g \in Programs /\ g \in Writers BY DEF Programs, Writers
  <2>2. CASE Return(g, "failed") /\ UNCHANGED <<keys, pkey, at, alone, steady>>
    BY <1>1, <2>1, <2>2, ReturnOK DEF Generate, KeyMade, NotMade, Start, RunsOK, FilesOK
  <2>3. CASE /\ pkey' = [pkey EXCEPT ![g] = keys + 1]
             /\ at' = [at EXCEPT ![g] = 1]
             /\ Goto(g, "open")
             /\ result' = [result EXCEPT ![g] = "none"]
    <3>1. PcOK' BY <2>1, <2>3, GotoOK, Named DEF RunsOK
    <3>2. pkey' \in [Programs -> Nat] /\ result' \in [Programs -> {"none", "ok", "bad", "failed"}]
      BY <2>1, <2>3 DEF RunsOK, FilesOK
    <3>3. at' \in [Programs -> Nat] BY <2>1, <2>3 DEF RunsOK
    <3>4. ASSUME NEW q \in Writers PROVE at'[q] \in 1 .. Len(Plan(q))
      <4>1. q \in Programs BY DEF Programs
      <4>2. at'[q] = IF q = g THEN 1 ELSE at[q] BY <2>1, <2>3, <4>1 DEF RunsOK
      <4>3. QED BY <4>2, PlanLengths DEF RunsOK
    <3>5. QED BY <1>1, <3>1, <3>2, <3>3, <3>4 DEF Generate, KeyMade, NotMade, Start, RunsOK
  <2>4. QED BY <1>1, <2>2, <2>3 DEF Generate, KeyMade, NotMade
<1>2. ASSUME NEW p \in Writers, OpenFile(p) PROVE RunsOK'
  <2>1. p \in Programs BY DEF Programs
  <2>2. CASE Goto(p, "write") /\ UNCHANGED <<at, result>>
    BY <1>2, <2>1, <2>2, GotoOK, Named DEF OpenFile, RunsOK
  <2>3. CASE AfterSave(p, 0)
    BY <1>2, <2>3, AfterSaveOK DEF OpenFile, RunsOK
  <2>4. QED BY <1>2, <2>2, <2>3 DEF OpenFile
<1>3. ASSUME NEW p \in Writers, WriteFile(p) PROVE RunsOK'
  BY <1>3, AfterSaveOK DEF WriteFile, RunsOK
<1>4. ASSUME NEW p \in {"pkey_sign", "pkey_verify"}, LoadToMd(p) PROVE RunsOK'
  <2>1. p \in Programs BY DEF Programs, Writers, Verifiers
  <2>2. PcOK'
    BY <1>4, <2>1, GotoOK, Named DEF LoadToMd, RunsOK
  <2>3. QED BY <1>4, <2>1, <2>2 DEF LoadToMd, RunsOK, FilesOK
<1>5. ASSUME SignStart PROVE RunsOK'
  <2> DEFINE p == "pkey_sign"
  <2>1. p \in Programs BY Named
  <2>2. CASE Return(p, "failed") /\ UNCHANGED pkey
    BY <1>5, <2>1, <2>2, ReturnOK DEF SignStart, Start, RunsOK
  <2>3. CASE /\ pkey' = [pkey EXCEPT ![p] = Load("private")]
             /\ Goto(p, "digest")
             /\ UNCHANGED result
    <3>1. PcOK' BY <2>1, <2>3, GotoOK, Named DEF RunsOK
    <3>2. Load("private") \in Nat BY LoadNat DEF Files, KeyFiles
    <3>3. QED BY <1>5, <2>1, <2>3, <3>1, <3>2 DEF SignStart, Start, RunsOK
  <2>4. QED BY <1>5, <2>2, <2>3 DEF SignStart
<1>6. ASSUME Sign PROVE RunsOK'
  <2>1. "pkey_sign" \in Programs /\ "open" \in Labels("pkey_sign")
    BY Named DEF Writers
  <2>2. CASE Goto("pkey_sign", "open") /\ UNCHANGED result
    BY <1>6, <2>1, <2>2, GotoOK DEF Sign, RunsOK
  <2>3. CASE Return("pkey_sign", "failed")
    BY <1>6, <2>1, <2>3, ReturnOK DEF Sign, RunsOK
  <2>4. QED BY <1>6, <2>2, <2>3 DEF Sign
<1>7. ASSUME VerifyStart PROVE RunsOK'
  BY <1>7, LoadsRuns, LoadNat DEF VerifyStart, Verifiers
<1>8. ASSUME PkeyVerify PROVE RunsOK'
  BY <1>8, GotoOK, ReturnOK, Named DEF PkeyVerify, Verdict, RunsOK
<1>9. ASSUME VerifyX509Start PROVE RunsOK'
  <2>1. Load("x509") \in Nat BY LoadNat DEF Files, KeyFiles
  <2>2. QED BY <1>9, <2>1, LoadsRuns DEF VerifyX509Start, Verifiers
<1>10. ASSUME VerifyX509 PROVE RunsOK'
  BY <1>10, GotoOK, ReturnOK, Named DEF VerifyX509, Verdict, RunsOK
<1>11. ASSUME ReadKeyFile PROVE RunsOK'
  <2>1. PICK f \in {"private", "public"} :
             Return("evp_readkey_file", IF Load(f) = None THEN "failed" ELSE "ok")
    BY <1>11 DEF ReadKeyFile
  <2>2. PcOK' /\ result' \in [Programs -> {"none", "ok", "bad", "failed"}]
    BY <2>1, ReturnOK, Named DEF RunsOK
  <2>3. QED BY <1>11, <2>2 DEF ReadKeyFile, Start, RunsOK
<1>12. ASSUME SendStart PROVE RunsOK'
  <2> DEFINE p == "pkey_send"
  <2>1. p \in Programs BY Named
  <2>2. CASE Return(p, "failed") /\ UNCHANGED pkey
    BY <1>12, <2>1, <2>2, ReturnOK DEF SendStart, Start, RunsOK
  <2>3. CASE /\ pkey' = [pkey EXCEPT ![p] = Load("public")]
             /\ Goto(p, "line")
             /\ UNCHANGED result
    <3>1. PcOK' BY <2>1, <2>3, GotoOK, Named DEF RunsOK
    <3>2. Load("public") \in Nat BY LoadNat DEF Files, KeyFiles
    <3>3. QED BY <1>12, <2>1, <2>3, <3>1, <3>2 DEF SendStart, Start, RunsOK
  <2>4. QED BY <1>12, <2>2, <2>3 DEF SendStart
<1>13. ASSUME TypeLine PROVE RunsOK'
  BY <1>13, GotoOK, ReturnOK, Named DEF TypeLine, RunsOK
<1>14. ASSUME Encrypt PROVE RunsOK'
  BY <1>14, GotoOK, ReturnOK, Named DEF Encrypt, RunsOK
<1>15. ASSUME CopyEnds PROVE RunsOK'
  BY <1>15, GotoOK, ReturnOK, Named DEF CopyEnds, RunsOK
<1>16. ASSUME SendExit PROVE RunsOK'
  BY <1>16, GotoOK, ReturnOK, Named DEF SendExit, RunsOK
<1>17. ASSUME RecvStart PROVE RunsOK'
  <2> DEFINE p == "pkey_recv"
  <2>1. p \in Programs BY Named
  <2>2. CASE Return(p, "failed") /\ UNCHANGED pkey
    BY <1>17, <2>1, <2>2, ReturnOK DEF RecvStart, Start, RunsOK
  <2>3. CASE /\ pkey' = [pkey EXCEPT ![p] = Load("private")]
             /\ Goto(p, "prompt")
             /\ UNCHANGED result
    <3>1. PcOK' BY <2>1, <2>3, GotoOK, Named DEF RunsOK
    <3>2. Load("private") \in Nat BY LoadNat DEF Files, KeyFiles
    <3>3. QED BY <1>17, <2>1, <2>3, <3>1, <3>2 DEF RecvStart, Start, RunsOK
  <2>4. QED BY <1>17, <2>2, <2>3 DEF RecvStart
<1>18. ASSUME ReadBegins PROVE RunsOK'
  BY <1>18, GotoOK, ReturnOK, Named DEF ReadBegins, RunsOK
<1>19. ASSUME ReadEnds PROVE RunsOK'
  BY <1>19, GotoOK, ReturnOK, Named DEF ReadEnds, RunsOK
<1>20. ASSUME RecvLeaves PROVE RunsOK'
  BY <1>20, GotoOK, ReturnOK, Named DEF RecvLeaves, RunsOK
<1>21. ASSUME NEW p \in Programs, Killed(p) PROVE RunsOK'
  BY <1>21, GotoOK, ReturnOK, Named DEF Killed, RunsOK
<1>22. ASSUME Edit PROVE RunsOK'
  BY <1>22 DEF Edit, RunsOK, PcOK, runVars
<1>23. ASSUME Bundle PROVE RunsOK'
  BY <1>23 DEF Bundle, RunsOK, PcOK, runVars
<1>24. ASSUME UNCHANGED vars PROVE RunsOK'
  BY <1>24 DEF vars, runVars, RunsOK, PcOK
<1>25. QED BY <1>1, <1>2, <1>3, <1>4, <1>5, <1>6, <1>7, <1>8, <1>9, <1>10, <1>11, <1>12, <1>13, <1>14, <1>15, <1>16, <1>17, <1>18, <1>19, <1>20, <1>21, <1>22, <1>23, <1>24 DEF Next

LEMMA FilesStep ==
  ASSUME TypeOK, [Next]_vars
  PROVE  FilesOK'
<1> USE DEF TypeOK
<1>1. ASSUME NEW g \in Generators, Generate(g) PROVE FilesOK'
  BY <1>1 DEF Generate, KeyMade, NotMade, FilesOK, Generators
<1>2. ASSUME NEW p \in Writers, OpenFile(p) PROVE FilesOK'
  <2>1. Target(p) \in Files BY PlanLengths DEF Target, RunsOK
  <2>2. <<>> \in Seq(Contents) OBVIOUS
  <2>3. file' \in [Files -> Seq(Contents)] BY <1>2, <2>1, <2>2 DEF OpenFile, FilesOK
  <2>4. QED BY <1>2, <2>3 DEF OpenFile, FilesOK, Contents
<1>3. ASSUME NEW p \in Writers, WriteFile(p) PROVE FilesOK'
  <2>1. Target(p) \in Files BY PlanLengths DEF Target, RunsOK
  <2>2. [key |-> pkey[p], md |-> md[p]] \in Contents
    BY DEF RunsOK, Contents, Programs
  <2>3. <<[key |-> pkey[p], md |-> md[p]]>> \in Seq(Contents) BY <2>2
  <2>4. file' \in [Files -> Seq(Contents)] BY <1>3, <2>1, <2>3 DEF WriteFile, FilesOK
  <2>5. cut' \subseteq Files BY <1>3, <2>1 DEF WriteFile, FilesOK
  <2>6. QED BY <1>3, <2>4, <2>5 DEF WriteFile, FilesOK, Contents
<1>4. ASSUME NEW p \in {"pkey_sign", "pkey_verify"}, LoadToMd(p) PROVE FilesOK'
  BY <1>4 DEF LoadToMd, fileVars, FilesOK, Contents
<1>5. ASSUME SignStart PROVE FilesOK'
  BY <1>5 DEF SignStart, FilesOK, Contents
<1>6. ASSUME Sign PROVE FilesOK'
  BY <1>6 DEF Sign, fileVars, FilesOK, Contents
<1>7. ASSUME VerifyStart PROVE FilesOK'
  BY <1>7 DEF VerifyStart, Loads, FilesOK, Contents, Verifiers
<1>8. ASSUME PkeyVerify PROVE FilesOK'
  BY <1>8 DEF PkeyVerify, fileVars, FilesOK, Contents
<1>9. ASSUME VerifyX509Start PROVE FilesOK'
  BY <1>9 DEF VerifyX509Start, Loads, FilesOK, Contents, Verifiers
<1>10. ASSUME VerifyX509 PROVE FilesOK'
  BY <1>10 DEF VerifyX509, fileVars, FilesOK, Contents
<1>11. ASSUME ReadKeyFile PROVE FilesOK'
  BY <1>11 DEF ReadKeyFile, fileVars, FilesOK, Contents
<1>12. ASSUME SendStart PROVE FilesOK'
  BY <1>12 DEF SendStart, fileVars, FilesOK, Contents
<1>13. ASSUME TypeLine PROVE FilesOK'
  BY <1>13 DEF TypeLine, fileVars, FilesOK, Contents
<1>14. ASSUME Encrypt PROVE FilesOK'
  BY <1>14 DEF Encrypt, fileVars, FilesOK, Contents
<1>15. ASSUME CopyEnds PROVE FilesOK'
  BY <1>15 DEF CopyEnds, fileVars, FilesOK, Contents
<1>16. ASSUME SendExit PROVE FilesOK'
  BY <1>16 DEF SendExit, fileVars, FilesOK, Contents
<1>17. ASSUME RecvStart PROVE FilesOK'
  BY <1>17 DEF RecvStart, fileVars, FilesOK, Contents
<1>18. ASSUME ReadBegins PROVE FilesOK'
  BY <1>18 DEF ReadBegins, fileVars, FilesOK, Contents
<1>19. ASSUME ReadEnds PROVE FilesOK'
  BY <1>19 DEF ReadEnds, fileVars, FilesOK, Contents
<1>20. ASSUME RecvLeaves PROVE FilesOK'
  BY <1>20 DEF RecvLeaves, fileVars, FilesOK, Contents
<1>21. ASSUME NEW p \in Programs, Killed(p) PROVE FilesOK'
  <2>1. p \notin Writers => pc[p] # "write" BY DEF RunsOK, PcOK, Labels, Programs, Writers, Verifiers
  <2>2. pc[p] = "write" => Target(p) \in Files BY <2>1, PlanLengths DEF Target, RunsOK
  <2>3. cut' \subseteq Files BY <1>21, <2>2 DEF Killed, FilesOK
  <2>4. QED BY <1>21, <2>3 DEF Killed, FilesOK, Contents
<1>22. ASSUME Edit PROVE FilesOK'
  BY <1>22 DEF Edit, FilesOK, Contents
<1>23. ASSUME Bundle PROVE FilesOK'
  <2>1. PICK k \in 1 .. keys :
             file' = [file EXCEPT !["public"] = Append(@, [key |-> k, md |-> 0])]
    BY <1>23 DEF Bundle
  <2>2. [key |-> k, md |-> 0] \in Contents BY KeyFilesAssumption DEF Contents, FilesOK
  <2>3. "public" \in Files /\ file["public"] \in Seq(Contents) BY DEF FilesOK, Files, KeyFiles
  <2>4. Append(file["public"], [key |-> k, md |-> 0]) \in Seq(Contents) BY <2>2, <2>3
  <2>5. file' \in [Files -> Seq(Contents)] BY <2>1, <2>3, <2>4 DEF FilesOK
  <2>6. QED BY <1>23, <2>5 DEF Bundle, FilesOK, Contents
<1>24. ASSUME UNCHANGED vars PROVE FilesOK'
  BY <1>24 DEF vars, fileVars, FilesOK, Contents
<1>25. QED BY <1>1, <1>2, <1>3, <1>4, <1>5, <1>6, <1>7, <1>8, <1>9, <1>10, <1>11, <1>12, <1>13, <1>14, <1>15, <1>16, <1>17, <1>18, <1>19, <1>20, <1>21, <1>22, <1>23, <1>24 DEF Next

(* A step of one program leaves the others where they are.                 *)
LEMMA Others ==
  ASSUME NEW p, NEW l, Goto(p, l), NEW q \in Programs, q # p, PcOK
  PROVE  pc'[q] = pc[q]
BY DEF Goto, PcOK

LEMMA MessagesStep ==
  ASSUME TypeOK, [Next]_vars
  PROVE  MessagesOK'
<1> USE DEF TypeOK
<1>1. ASSUME NEW g \in Generators, Generate(g) PROVE MessagesOK'
  <2>1. g # "pkey_send" /\ g # "pkey_recv" BY DEF Generators, Writers
  <2>2. pc' = pc \/ \E l : Goto(g, l)
    BY <1>1 DEF Generate, KeyMade, NotMade, AfterSave, Return
  <2>3. pc'["pkey_send"] = pc["pkey_send"] /\ pc'["pkey_recv"] = pc["pkey_recv"]
    BY <2>1, <2>2, Others, Named DEF RunsOK
  <2>4. QED BY <1>1, <2>3 DEF Generate, KeyMade, NotMade, messageVars, MessagesOK
<1>2. ASSUME NEW p \in Writers, OpenFile(p) PROVE MessagesOK'
  <2>1. p # "pkey_send" /\ p # "pkey_recv" BY DEF Generators, Writers
  <2>2. pc' = pc \/ \E l : Goto(p, l)
    BY <1>2 DEF OpenFile, AfterSave, Return
  <2>3. pc'["pkey_send"] = pc["pkey_send"] /\ pc'["pkey_recv"] = pc["pkey_recv"]
    BY <2>1, <2>2, Others, Named DEF RunsOK
  <2>4. QED BY <1>2, <2>3 DEF OpenFile, messageVars, MessagesOK
<1>3. ASSUME NEW p \in Writers, WriteFile(p) PROVE MessagesOK'
  <2>1. p # "pkey_send" /\ p # "pkey_recv" BY DEF Generators, Writers
  <2>2. pc' = pc \/ \E l : Goto(p, l)
    BY <1>3 DEF WriteFile, AfterSave, Return
  <2>3. pc'["pkey_send"] = pc["pkey_send"] /\ pc'["pkey_recv"] = pc["pkey_recv"]
    BY <2>1, <2>2, Others, Named DEF RunsOK
  <2>4. QED BY <1>3, <2>3 DEF WriteFile, messageVars, MessagesOK
<1>4. ASSUME NEW p \in {"pkey_sign", "pkey_verify"}, LoadToMd(p) PROVE MessagesOK'
  <2>1. \E l : Goto(p, l) BY <1>4 DEF LoadToMd, Return
  <2>2. pc'["pkey_send"] = pc["pkey_send"] /\ pc'["pkey_recv"] = pc["pkey_recv"]
    BY <2>1, Named DEF Goto, RunsOK, PcOK
  <2>3. QED BY <1>4, <2>2 DEF LoadToMd, messageVars, MessagesOK
<1>5. ASSUME SignStart PROVE MessagesOK'
  <2>1. \E l : Goto("pkey_sign", l) BY <1>5 DEF SignStart, Return
  <2>2. pc'["pkey_send"] = pc["pkey_send"] /\ pc'["pkey_recv"] = pc["pkey_recv"]
    BY <2>1, Named DEF Goto, RunsOK, PcOK
  <2>3. QED BY <1>5, <2>2 DEF SignStart, messageVars, MessagesOK
<1>6. ASSUME Sign PROVE MessagesOK'
  <2>1. \E l : Goto("pkey_sign", l) BY <1>6 DEF Sign, Return
  <2>2. pc'["pkey_send"] = pc["pkey_send"] /\ pc'["pkey_recv"] = pc["pkey_recv"]
    BY <2>1, Named DEF Goto, RunsOK, PcOK
  <2>3. QED BY <1>6, <2>2 DEF Sign, messageVars, MessagesOK
<1>7. ASSUME VerifyStart PROVE MessagesOK'
  <2>1. \E l : Goto("pkey_verify", l) BY <1>7 DEF VerifyStart, Loads, Return
  <2>2. pc'["pkey_send"] = pc["pkey_send"] /\ pc'["pkey_recv"] = pc["pkey_recv"]
    BY <2>1, Named DEF Goto, RunsOK, PcOK
  <2>3. QED BY <1>7, <2>2 DEF VerifyStart, Loads, messageVars, MessagesOK
<1>8. ASSUME PkeyVerify PROVE MessagesOK'
  <2>1. \E l : Goto("pkey_verify", l) BY <1>8 DEF PkeyVerify, Verdict, Return
  <2>2. pc'["pkey_send"] = pc["pkey_send"] /\ pc'["pkey_recv"] = pc["pkey_recv"]
    BY <2>1, Named DEF Goto, RunsOK, PcOK
  <2>3. QED BY <1>8, <2>2 DEF PkeyVerify, Verdict, messageVars, MessagesOK
<1>9. ASSUME VerifyX509Start PROVE MessagesOK'
  <2>1. \E l : Goto("verify_x509", l) BY <1>9 DEF VerifyX509Start, Loads, Return
  <2>2. pc'["pkey_send"] = pc["pkey_send"] /\ pc'["pkey_recv"] = pc["pkey_recv"]
    BY <2>1, Named DEF Goto, RunsOK, PcOK
  <2>3. QED BY <1>9, <2>2 DEF VerifyX509Start, Loads, messageVars, MessagesOK
<1>10. ASSUME VerifyX509 PROVE MessagesOK'
  <2>1. \E l : Goto("verify_x509", l) BY <1>10 DEF VerifyX509, Verdict, Return
  <2>2. pc'["pkey_send"] = pc["pkey_send"] /\ pc'["pkey_recv"] = pc["pkey_recv"]
    BY <2>1, Named DEF Goto, RunsOK, PcOK
  <2>3. QED BY <1>10, <2>2 DEF VerifyX509, Verdict, messageVars, MessagesOK
<1>11. ASSUME ReadKeyFile PROVE MessagesOK'
  <2>1. \E l : Goto("evp_readkey_file", l) BY <1>11 DEF ReadKeyFile, Return
  <2>2. pc'["pkey_send"] = pc["pkey_send"] /\ pc'["pkey_recv"] = pc["pkey_recv"]
    BY <2>1, Named DEF Goto, RunsOK, PcOK
  <2>3. QED BY <1>11, <2>2 DEF ReadKeyFile, messageVars, MessagesOK
<1>12. ASSUME SendStart PROVE MessagesOK'
  <2>1. \E l : Goto("pkey_send", l) BY <1>12 DEF SendStart, Return
  <2>2. pc'["pkey_recv"] = pc["pkey_recv"] BY <2>1, Others, Named DEF RunsOK
  <2>3. Torn \in Messages BY DEF Torn, Messages, None
  <2>4. area' \in Seq(Messages) /\ area' # <<>> /\ Len(area') = Len(area) + 1
    BY <1>12, <2>3 DEF SendStart, MessagesOK
  <2>5. QED BY <1>12, <2>2, <2>4 DEF SendStart, MessagesOK
<1>13. ASSUME TypeLine PROVE MessagesOK'
  <2>1. \E l : Goto("pkey_send", l) BY <1>13 DEF TypeLine, Return
  <2>2. pc'["pkey_recv"] = pc["pkey_recv"] BY <2>1, Others, Named DEF RunsOK
  <2>3. Blank \in Messages BY DEF Blank, Torn, Messages, None, MessagesOK, RunsOK, Programs
  <2>4. area' \in Seq(Messages) /\ Len(area') = Len(area)
    BY <1>13, <2>3 DEF TypeLine, Put, MessagesOK
  <2>5. QED BY <1>13, <2>2, <2>4, KeyFilesAssumption DEF TypeLine, MessagesOK, RunsOK, PcOK
<1>14. ASSUME Encrypt PROVE MessagesOK'
  <2>1. \E l : Goto("pkey_send", l) BY <1>14 DEF Encrypt, Return
  <2>2. pc'["pkey_recv"] = pc["pkey_recv"] BY <2>1, Others, Named DEF RunsOK
  <2>3. Torn \in Messages BY DEF Torn, Messages, None
  <2>4. area' \in Seq(Messages) /\ Len(area') = Len(area)
    BY <1>14, <2>3 DEF Encrypt, Put, MessagesOK
  <2>5. QED BY <1>14, <2>2, <2>4 DEF Encrypt, MessagesOK
<1>15. ASSUME CopyEnds PROVE MessagesOK'
  <2>1. \E l : Goto("pkey_send", l) BY <1>15 DEF CopyEnds, Return
  <2>2. pc'["pkey_recv"] = pc["pkey_recv"] BY <2>1, Others, Named DEF RunsOK
  <2>3. [key |-> pkey["pkey_send"], text |-> typed] \in Messages BY DEF Blank, Torn, Messages, None, MessagesOK, RunsOK, Programs
  <2>4. area' \in Seq(Messages) /\ Len(area') = Len(area)
    BY <1>15, <2>3 DEF CopyEnds, Put, MessagesOK
  <2>5. QED BY <1>15, <2>2, <2>4 DEF CopyEnds, MessagesOK
<1>16. ASSUME SendExit PROVE MessagesOK'
  <2>1. \E l : Goto("pkey_send", l) BY <1>16 DEF SendExit, Return
  <2>2. pc'["pkey_recv"] = pc["pkey_recv"] BY <2>1, Others, Named DEF RunsOK
  <2>3. pc'["pkey_send"] = "idle" BY <1>16 DEF SendExit, Return, Goto, RunsOK, PcOK, Programs
  <2>4. QED BY <1>16, <2>2, <2>3 DEF SendExit, MessagesOK
<1>17. ASSUME RecvStart PROVE MessagesOK'
  <2>1. \E l : Goto("pkey_recv", l) BY <1>17 DEF RecvStart, Return
  <2>2. pc'["pkey_send"] = pc["pkey_send"] BY <2>1, Others, Named DEF RunsOK
  <2>3. seg' = Len(area) /\ Len(area) # 0 BY <1>17 DEF RecvStart, MessagesOK
  <2>4. QED BY <1>17, <2>2, <2>3 DEF RecvStart, MessagesOK
<1>18. ASSUME ReadBegins PROVE MessagesOK'
  <2>1. \E l : Goto("pkey_recv", l) BY <1>18 DEF ReadBegins, Return
  <2>2. pc'["pkey_send"] = pc["pkey_send"] BY <2>1, Others, Named DEF RunsOK
  <2>3. seg \in 1 .. Len(area) BY <1>18 DEF ReadBegins, MessagesOK
  <2>4. area[seg] \in Messages BY <2>3 DEF MessagesOK
  <2>5. QED BY <1>18, <2>2, <2>3, <2>4 DEF ReadBegins, MessagesOK
<1>19. ASSUME ReadEnds PROVE MessagesOK'
  <2>1. \E l : Goto("pkey_recv", l) BY <1>19 DEF ReadEnds, Return
  <2>2. pc'["pkey_send"] = pc["pkey_send"] BY <2>1, Others, Named DEF RunsOK
  <2>3. look.text \in Int BY DEF MessagesOK, Messages
  <2>4. seg # 0 BY <1>19 DEF ReadEnds, MessagesOK
  <2>5. QED BY <1>19, <2>2, <2>3, <2>4 DEF ReadEnds, MessagesOK
<1>20. ASSUME RecvLeaves PROVE MessagesOK'
  <2>1. \E l : Goto("pkey_recv", l) BY <1>20 DEF RecvLeaves, Return
  <2>2. pc'["pkey_send"] = pc["pkey_send"] BY <2>1, Others, Named DEF RunsOK
  <2>3. Torn \in Messages BY DEF Torn, Messages, None
  <2>4. area' \in Seq(Messages) /\ Len(area') = Len(area)
    BY <1>20, <2>3 DEF RecvLeaves, MessagesOK
  <2>5. seg # 0 BY <1>20 DEF RecvLeaves, MessagesOK
  <2>6. QED BY <1>20, <2>2, <2>4, <2>5 DEF RecvLeaves, MessagesOK
<1>21. ASSUME NEW p \in Programs, Killed(p) PROVE MessagesOK'
  <2>1. \A q \in Programs : pc'[q] = "idle" \/ pc'[q] = pc[q]
    BY <1>21 DEF Killed, Return, Goto, RunsOK, PcOK
  <2>2. QED BY <1>21, <2>1, Named DEF Killed, messageVars, MessagesOK
<1>22. ASSUME Edit PROVE MessagesOK'
  BY <1>22 DEF Edit, runVars, messageVars, MessagesOK
<1>23. ASSUME Bundle PROVE MessagesOK'
  BY <1>23 DEF Bundle, runVars, messageVars, MessagesOK
<1>24. ASSUME UNCHANGED vars PROVE MessagesOK'
  BY <1>24 DEF vars, messageVars, runVars, MessagesOK
<1>25. QED BY <1>1, <1>2, <1>3, <1>4, <1>5, <1>6, <1>7, <1>8, <1>9, <1>10, <1>11, <1>12, <1>13, <1>14, <1>15, <1>16, <1>17, <1>18, <1>19, <1>20, <1>21, <1>22, <1>23, <1>24 DEF Next

-----------------------------------------------------------------------------
(* What the properties rest on.                                            *)
X509 == "generate_x509"

Written(i) == \/ Plan(X509)[i] \in cut
              \/ file[Plan(X509)[i]] = <<[key |-> pkey[X509], md |-> 0]>>

KeysInv ==
    /\ md[X509] = 0
    /\ alone = X509 => pc["generate_rsakey"] = "idle"
    /\ (alone = X509 /\ pc[X509] # "idle") => \A i \in 1 .. at[X509] - 1 : Written(i)
    /\ SavedAll

SteadyInv ==
    /\ (\E p \in Writers : Busy(p)) => steady = {}
    /\ ("pkey_verify" \in steady /\ pc["pkey_verify"] \in {"digest", "compare"})
       => pkey["pkey_verify"] = LoadTwice("public") /\ LoadTwice("public") # None
    /\ ("pkey_verify" \in steady /\ pc["pkey_verify"] = "compare")
       => md["pkey_verify"] = document
    /\ ("verify_x509" \in steady /\ pc["verify_x509"] = "compare")
       => pkey["verify_x509"] = Load("x509") /\ Load("x509") # None
    /\ SteadyVerdict

Proper(m) == m.key # None => m.text > 0

MessagesInv ==
    /\ area # <<>> => area[Len(area)].text \in {0, -1, typed}
    /\ \A i \in 1 .. Len(area) : Proper(area[i])
    /\ Proper(look)
    /\ pc["pkey_send"] \in {"encrypt", "copy"} => typed > 0
    /\ pc["pkey_recv"] # "idle" => pkey["pkey_recv"] # None
    /\ (pc["pkey_recv"] = "copying" /\ look.text > 0) => since <= look.text
    /\ NeverStale

-----------------------------------------------------------------------------
(* KeysInv looks at the generators and at the key files only.              *)
LEMMA KeysFrame ==
  ASSUME KeysInv, UNCHANGED <<file, cut, alone, at>>,
         md'[X509] = md[X509], pkey'[X509] = pkey[X509], pc'[X509] = pc[X509],
         pc'["generate_rsakey"] = pc["generate_rsakey"], result'[X509] = result[X509]
  PROVE  KeysInv'
BY DEF KeysInv, Written, SavedAll, X509

LEMMA PlanX509 ==
  /\ Len(Plan(X509)) = 3
  /\ Plan(X509)[1] = "x509" /\ Plan(X509)[2] = "private" /\ Plan(X509)[3] = "public"
BY DEF Plan, X509

LEMMA KeysFrameFor ==
  ASSUME KeysInv, UNCHANGED <<alone, md, pkey>>, at[X509] \in 1 .. 3,
         \A f \in KeyFiles : file'[f] = file[f] /\ (f \in cut <=> f \in cut'),
         at'[X509] = at[X509], pc'[X509] = pc[X509],
         pc'["generate_rsakey"] = pc["generate_rsakey"], result'[X509] = result[X509]
  PROVE  KeysInv'
<1>1. \A i \in 1 .. 3 : Written(i) => Written(i)'
  BY PlanX509 DEF Written, KeyFiles
<1>2. SavedAll' BY DEF SavedAll, KeysInv, X509
<1>3. QED BY <1>1, <1>2 DEF KeysInv

LEMMA KeysStep ==
  ASSUME TypeOK, KeysInv, [Next]_vars
  PROVE  KeysInv'
<1> USE DEF TypeOK
<1>1. ASSUME NEW g \in Generators, Generate(g) PROVE KeysInv'
  <2>1. CASE g = X509 /\ ~(result'[X509] = "failed" /\ UNCHANGED <<pkey, alone, pc>>)
    <3>1. /\ md'[X509] = 0 /\ at'[X509] = 1 /\ pc'[X509] = "open"
          /\ alone' = X509 => pc'["generate_rsakey"] = "idle"
      BY <1>1, <2>1, Named DEF Generate, KeyMade, NotMade, Goto, Return, Start, Busy, Generators, X509, RunsOK, PcOK, KeysInv
    <3>2. QED BY <3>1 DEF KeysInv, SavedAll, X509
  <2>2. CASE g = X509 /\ result'[X509] = "failed" /\ UNCHANGED <<pkey, alone, pc>>
    BY <1>1, <2>2 DEF Generate, KeyMade, NotMade, KeysInv, SavedAll, Written, Goto, Return, Start, X509, RunsOK, PcOK, FilesOK
  <2>3. CASE g = "generate_rsakey"
    <3>1. CASE alone' # X509
      <4>1. md'[X509] = 0 BY <1>1 DEF Generate, KeyMade, NotMade, KeysInv
      <4>2. QED BY <3>1, <4>1 DEF KeysInv, SavedAll, X509
    <3>2. CASE Return(g, "failed") /\ UNCHANGED <<keys, pkey, at, alone, steady>>
      <4>1. /\ pc'[X509] = pc[X509] /\ result'[X509] = result[X509]
            /\ pc'["generate_rsakey"] = pc["generate_rsakey"]
        BY <1>1, <2>3, <3>2, Named DEF Generate, KeyMade, NotMade, Start, Goto, Return, RunsOK, PcOK, X509
      <4>2. QED BY <1>1, <3>2, <4>1, KeysFrame DEF Generate, KeyMade, NotMade
    <3>3. alone' # X509 \/ (Return(g, "failed") /\ UNCHANGED <<keys, pkey, at, alone, steady>>)
      BY <1>1, <2>3 DEF Generate, KeyMade, NotMade, X509
    <3>4. QED BY <3>1, <3>2, <3>3
  <2>4. QED BY <1>1, <2>1, <2>2, <2>3 DEF Generators, X509
<1>2. ASSUME NEW p \in Writers, OpenFile(p) PROVE KeysInv'
  <2>1. CASE p = X509
    <3>1. /\ pc[X509] = "open" /\ at[X509] \in 1 .. 3
          /\ UNCHANGED <<alone, cut, md, pkey>> /\ pc'["generate_rsakey"] = pc["generate_rsakey"]
      BY <1>2, <2>1, PlanX509, Named
      DEF OpenFile, AfterSave, Goto, Return, RunsOK, PcOK, X509, ChecksSave
    <3>2. CASE /\ file' = [file EXCEPT ![Target(X509)] = <<>>]
               /\ Goto(X509, "write") /\ UNCHANGED <<at, result>>
      <4>1. pc'[X509] = "write" BY <3>2, Named DEF Goto, RunsOK, PcOK, X509
      <4>2. \A i \in 1 .. at[X509] - 1 : file'[Plan(X509)[i]] = file[Plan(X509)[i]]
        BY <3>1, <3>2, PlanX509 DEF Target, FilesOK, Files, KeyFiles
      <4>3. QED BY <3>1, <3>2, <4>1, <4>2 DEF KeysInv, Written, SavedAll, X509
    <3>3. CASE UNCHANGED file /\ AfterSave(X509, 0)
      <4>1. pc'[X509] = "idle" /\ result'[X509] = "failed"
        BY <3>3, Named DEF AfterSave, ChecksSave, Goto, Return, RunsOK, PcOK, X509
      <4>2. QED BY <3>1, <4>1 DEF KeysInv, SavedAll, X509
    <3>4. QED BY <1>2, <2>1, <3>2, <3>3 DEF OpenFile
  <2>2. CASE p = "generate_rsakey"
    <3>1. alone' # X509 BY <1>2, <2>2 DEF OpenFile, KeysInv
    <3>2. QED BY <1>2, <3>1 DEF OpenFile, KeysInv, SavedAll, X509
  <2>3. CASE p = "pkey_sign"
    <3>1. Target(p) = "signature" BY <2>3, PlanLengths DEF Target, Plan, RunsOK, Writers
    <3>2. /\ pc'[X509] = pc[X509] /\ pc'["generate_rsakey"] = pc["generate_rsakey"]
          /\ result'[X509] = result[X509] /\ at'[X509] = at[X509]
      BY <1>2, <2>3, Named DEF OpenFile, AfterSave, Goto, Return, RunsOK, PcOK, X509
    <3>3. \A f \in KeyFiles : file'[f] = file[f]
      BY <1>2, <3>1 DEF OpenFile, FilesOK, Files, KeyFiles
    <3>4. at[X509] \in 1 .. 3 BY PlanX509 DEF RunsOK, Writers, Generators, X509
    <3>5. QED BY <1>2, <3>2, <3>3, <3>4, KeysFrameFor DEF OpenFile
  <2>4. QED BY <2>1, <2>2, <2>3 DEF Writers, Generators, X509
<1>3. ASSUME NEW p \in Writers, WriteFile(p) PROVE KeysInv'
  <2>1. CASE p = X509
    <3> DEFINE i == at[X509]
    <3>1. /\ pc[X509] = "write" /\ i \in 1 .. 3
          /\ UNCHANGED <<alone, md, pkey>> /\ pc'["generate_rsakey"] = pc["generate_rsakey"]
      BY <1>3, <2>1, PlanX509, Named
      DEF WriteFile, AfterSave, Goto, Return, RunsOK, PcOK, X509, ChecksSave
    <3>2. CASE alone # X509
      BY <3>1, <3>2 DEF KeysInv, SavedAll, X509
    <3>3. CASE alone = X509
      <4>1. \A j \in 1 .. i - 1 : Written(j) BY <3>1, <3>3 DEF KeysInv
      <4>2. Target(X509) = Plan(X509)[i] /\ Plan(X509)[i] \in Files
        BY <3>1, PlanX509 DEF Target, Files, KeyFiles
      <4>3. \A j \in 1 .. i : Written(j)'
        <5>1. CASE /\ file' = [file EXCEPT ![Target(X509)] = <<[key |-> pkey[X509], md |-> md[X509]]>>]
                   /\ cut' = cut \ {Target(X509)}
          BY <3>1, <4>1, <4>2, <5>1, PlanX509 DEF Written, KeysInv, FilesOK, Files, KeyFiles
        <5>2. CASE UNCHANGED file /\ cut' = cut \cup {Target(X509)}
          BY <3>1, <4>1, <4>2, <5>2 DEF Written
        <5>3. QED BY <1>3, <2>1, <5>1, <5>2 DEF WriteFile
      <4>4. CASE i = 3 /\ pc'[X509] = "idle"
        <5>1. \A f \in KeyFiles : \E j \in 1 .. 3 : f = Plan(X509)[j]
          BY PlanX509 DEF KeyFiles
        <5>2. SavedAll' BY <4>3, <4>4, <5>1, <3>3, <3>1 DEF SavedAll, Written, X509
        <5>3. QED BY <3>1, <3>3, <4>4, <5>2 DEF KeysInv
      <4>5. CASE at'[X509] = i + 1 /\ pc'[X509] = "open"
        BY <3>1, <3>3, <4>3, <4>5 DEF KeysInv, SavedAll, X509
      <4>6. CASE pc'[X509] = "idle" /\ result'[X509] = "failed"
        BY <3>1, <4>6 DEF KeysInv, SavedAll, X509
      <4>7. \A rc \in 0 .. 1 : AfterSave(X509, rc) =>
               \/ i = 3 /\ pc'[X509] = "idle"
               \/ at'[X509] = i + 1 /\ pc'[X509] = "open"
               \/ pc'[X509] = "idle" /\ result'[X509] = "failed"
        BY <3>1, PlanX509, Named DEF AfterSave, Goto, Return, RunsOK, PcOK, X509
      <4>8. \E rc \in 0 .. 1 : AfterSave(X509, rc) BY <1>3, <2>1 DEF WriteFile
      <4>9. QED BY <4>4, <4>5, <4>6, <4>7, <4>8
    <3>4. QED BY <3>2, <3>3
  <2>2. CASE p = "generate_rsakey"
    <3>1. alone' # X509 BY <1>3, <2>2 DEF WriteFile, KeysInv
    <3>2. QED BY <1>3, <3>1 DEF WriteFile, KeysInv, SavedAll, X509
  <2>3. CASE p = "pkey_sign"
    <3>1. Target(p) = "signature" BY <2>3, PlanLengths DEF Target, Plan, RunsOK, Writers
    <3>2. /\ pc'[X509] = pc[X509] /\ pc'["generate_rsakey"] = pc["generate_rsakey"]
          /\ result'[X509] = result[X509] /\ at'[X509] = at[X509]
      BY <1>3, <2>3, Named DEF WriteFile, AfterSave, Goto, Return, RunsOK, PcOK, X509
    <3>3. \A f \in KeyFiles : file'[f] = file[f] /\ (f \in cut <=> f \in cut')
      BY <1>3, <3>1 DEF WriteFile, FilesOK, Files, KeyFiles
    <3>4. at[X509] \in 1 .. 3 BY PlanX509 DEF RunsOK, Writers, Generators, X509
    <3>5. QED BY <1>3, <3>2, <3>3, <3>4, KeysFrameFor DEF WriteFile
  <2>4. QED BY <2>1, <2>2, <2>3 DEF Writers, Generators, X509
<1>4. ASSUME NEW p \in {"pkey_sign", "pkey_verify"}, LoadToMd(p) PROVE KeysInv'
  <2>1. /\ pc'[X509] = pc[X509] /\ pc'["generate_rsakey"] = pc["generate_rsakey"]
        /\ md'[X509] = md[X509] /\ pkey'[X509] = pkey[X509] /\ result'[X509] = result[X509]
        /\ UNCHANGED <<file, cut, alone, at>>
    BY <1>4, Named DEF LoadToMd, Goto, Return, RunsOK, PcOK, X509, fileVars
  <2>2. QED BY <2>1, KeysFrame
<1>5. ASSUME SignStart PROVE KeysInv'
  <2>1. /\ pc'[X509] = pc[X509] /\ pc'["generate_rsakey"] = pc["generate_rsakey"]
        /\ md'[X509] = md[X509] /\ pkey'[X509] = pkey[X509] /\ result'[X509] = result[X509]
        /\ UNCHANGED <<file, cut, alone, at>>
    BY <1>5, Named DEF SignStart, Goto, Return, RunsOK, PcOK, X509, fileVars
  <2>2. QED BY <2>1, KeysFrame
<1>6. ASSUME Sign PROVE KeysInv'
  <2>1. /\ pc'[X509] = pc[X509] /\ pc'["generate_rsakey"] = pc["generate_rsakey"]
        /\ md'[X509] = md[X509] /\ pkey'[X509] = pkey[X509] /\ result'[X509] = result[X509]
        /\ UNCHANGED <<file, cut, alone, at>>
    BY <1>6, Named DEF Sign, Goto, Return, RunsOK, PcOK, X509, fileVars
  <2>2. QED BY <2>1, KeysFrame
<1>7. ASSUME VerifyStart PROVE KeysInv'
  <2>1. /\ pc'[X509] = pc[X509] /\ pc'["generate_rsakey"] = pc["generate_rsakey"]
        /\ md'[X509] = md[X509] /\ pkey'[X509] = pkey[X509] /\ result'[X509] = result[X509]
        /\ UNCHANGED <<file, cut, alone, at>>
    BY <1>7, Named DEF VerifyStart, Loads, Goto, Return, RunsOK, PcOK, X509, fileVars
  <2>2. QED BY <2>1, KeysFrame
<1>8. ASSUME PkeyVerify PROVE KeysInv'
  <2>1. /\ pc'[X509] = pc[X509] /\ pc'["generate_rsakey"] = pc["generate_rsakey"]
        /\ md'[X509] = md[X509] /\ pkey'[X509] = pkey[X509] /\ result'[X509] = result[X509]
        /\ UNCHANGED <<file, cut, alone, at>>
    BY <1>8, Named DEF PkeyVerify, Verdict, Goto, Return, RunsOK, PcOK, X509, fileVars
  <2>2. QED BY <2>1, KeysFrame
<1>9. ASSUME VerifyX509Start PROVE KeysInv'
  <2>1. /\ pc'[X509] = pc[X509] /\ pc'["generate_rsakey"] = pc["generate_rsakey"]
        /\ md'[X509] = md[X509] /\ pkey'[X509] = pkey[X509] /\ result'[X509] = result[X509]
        /\ UNCHANGED <<file, cut, alone, at>>
    BY <1>9, Named DEF VerifyX509Start, Loads, Goto, Return, RunsOK, PcOK, X509, fileVars
  <2>2. QED BY <2>1, KeysFrame
<1>10. ASSUME VerifyX509 PROVE KeysInv'
  <2>1. /\ pc'[X509] = pc[X509] /\ pc'["generate_rsakey"] = pc["generate_rsakey"]
        /\ md'[X509] = md[X509] /\ pkey'[X509] = pkey[X509] /\ result'[X509] = result[X509]
        /\ UNCHANGED <<file, cut, alone, at>>
    BY <1>10, Named DEF VerifyX509, Verdict, Goto, Return, RunsOK, PcOK, X509, fileVars
  <2>2. QED BY <2>1, KeysFrame
<1>11. ASSUME ReadKeyFile PROVE KeysInv'
  <2>1. /\ pc'[X509] = pc[X509] /\ pc'["generate_rsakey"] = pc["generate_rsakey"]
        /\ md'[X509] = md[X509] /\ pkey'[X509] = pkey[X509] /\ result'[X509] = result[X509]
        /\ UNCHANGED <<file, cut, alone, at>>
    BY <1>11, Named DEF ReadKeyFile, Goto, Return, RunsOK, PcOK, X509, fileVars
  <2>2. QED BY <2>1, KeysFrame
<1>12. ASSUME SendStart PROVE KeysInv'
  <2>1. /\ pc'[X509] = pc[X509] /\ pc'["generate_rsakey"] = pc["generate_rsakey"]
        /\ md'[X509] = md[X509] /\ pkey'[X509] = pkey[X509] /\ result'[X509] = result[X509]
        /\ UNCHANGED <<file, cut, alone, at>>
    BY <1>12, Named DEF SendStart, Goto, Return, RunsOK, PcOK, X509, fileVars
  <2>2. QED BY <2>1, KeysFrame
<1>13. ASSUME TypeLine PROVE KeysInv'
  <2>1. /\ pc'[X509] = pc[X509] /\ pc'["generate_rsakey"] = pc["generate_rsakey"]
        /\ md'[X509] = md[X509] /\ pkey'[X509] = pkey[X509] /\ result'[X509] = result[X509]
        /\ UNCHANGED <<file, cut, alone, at>>
    BY <1>13, Named DEF TypeLine, Goto, Return, RunsOK, PcOK, X509, fileVars
  <2>2. QED BY <2>1, KeysFrame
<1>14. ASSUME Encrypt PROVE KeysInv'
  <2>1. /\ pc'[X509] = pc[X509] /\ pc'["generate_rsakey"] = pc["generate_rsakey"]
        /\ md'[X509] = md[X509] /\ pkey'[X509] = pkey[X509] /\ result'[X509] = result[X509]
        /\ UNCHANGED <<file, cut, alone, at>>
    BY <1>14, Named DEF Encrypt, Goto, Return, RunsOK, PcOK, X509, fileVars
  <2>2. QED BY <2>1, KeysFrame
<1>15. ASSUME CopyEnds PROVE KeysInv'
  <2>1. /\ pc'[X509] = pc[X509] /\ pc'["generate_rsakey"] = pc["generate_rsakey"]
        /\ md'[X509] = md[X509] /\ pkey'[X509] = pkey[X509] /\ result'[X509] = result[X509]
        /\ UNCHANGED <<file, cut, alone, at>>
    BY <1>15, Named DEF CopyEnds, Goto, Return, RunsOK, PcOK, X509, fileVars
  <2>2. QED BY <2>1, KeysFrame
<1>16. ASSUME SendExit PROVE KeysInv'
  <2>1. /\ pc'[X509] = pc[X509] /\ pc'["generate_rsakey"] = pc["generate_rsakey"]
        /\ md'[X509] = md[X509] /\ pkey'[X509] = pkey[X509] /\ result'[X509] = result[X509]
        /\ UNCHANGED <<file, cut, alone, at>>
    BY <1>16, Named DEF SendExit, Goto, Return, RunsOK, PcOK, X509, fileVars
  <2>2. QED BY <2>1, KeysFrame
<1>17. ASSUME RecvStart PROVE KeysInv'
  <2>1. /\ pc'[X509] = pc[X509] /\ pc'["generate_rsakey"] = pc["generate_rsakey"]
        /\ md'[X509] = md[X509] /\ pkey'[X509] = pkey[X509] /\ result'[X509] = result[X509]
        /\ UNCHANGED <<file, cut, alone, at>>
    BY <1>17, Named DEF RecvStart, Goto, Return, RunsOK, PcOK, X509, fileVars
  <2>2. QED BY <2>1, KeysFrame
<1>18. ASSUME ReadBegins PROVE KeysInv'
  <2>1. /\ pc'[X509] = pc[X509] /\ pc'["generate_rsakey"] = pc["generate_rsakey"]
        /\ md'[X509] = md[X509] /\ pkey'[X509] = pkey[X509] /\ result'[X509] = result[X509]
        /\ UNCHANGED <<file, cut, alone, at>>
    BY <1>18, Named DEF ReadBegins, Goto, Return, RunsOK, PcOK, X509, fileVars
  <2>2. QED BY <2>1, KeysFrame
<1>19. ASSUME ReadEnds PROVE KeysInv'
  <2>1. /\ pc'[X509] = pc[X509] /\ pc'["generate_rsakey"] = pc["generate_rsakey"]
        /\ md'[X509] = md[X509] /\ pkey'[X509] = pkey[X509] /\ result'[X509] = result[X509]
        /\ UNCHANGED <<file, cut, alone, at>>
    BY <1>19, Named DEF ReadEnds, Goto, Return, RunsOK, PcOK, X509, fileVars
  <2>2. QED BY <2>1, KeysFrame
<1>20. ASSUME RecvLeaves PROVE KeysInv'
  <2>1. /\ pc'[X509] = pc[X509] /\ pc'["generate_rsakey"] = pc["generate_rsakey"]
        /\ md'[X509] = md[X509] /\ pkey'[X509] = pkey[X509] /\ result'[X509] = result[X509]
        /\ UNCHANGED <<file, cut, alone, at>>
    BY <1>20, Named DEF RecvLeaves, Goto, Return, RunsOK, PcOK, X509, fileVars
  <2>2. QED BY <2>1, KeysFrame
<1>21. ASSUME NEW p \in Programs, Killed(p) PROVE KeysInv'
  <2>1. /\ UNCHANGED <<file, alone, md, pkey, at>> /\ cut \subseteq cut'
        /\ pc' = [pc EXCEPT ![p] = "idle"] /\ result' = [result EXCEPT ![p] = "failed"]
    BY <1>21 DEF Killed, Return, Goto
  <2>2. \A i : Written(i) => Written(i)' BY <2>1 DEF Written
  <2>3. SavedAll' BY <2>1, Named DEF SavedAll, KeysInv, X509, RunsOK, PcOK
  <2>4. QED BY <2>1, <2>2, <2>3, Named DEF KeysInv, X509, RunsOK, PcOK
<1>22. ASSUME Edit PROVE KeysInv'
  BY <1>22, KeysFrame DEF Edit, runVars
<1>23. ASSUME Bundle PROVE KeysInv'
  BY <1>23 DEF Bundle, runVars, KeysInv, SavedAll, Written, X509
<1>24. ASSUME UNCHANGED vars PROVE KeysInv'
  BY <1>24, KeysFrame DEF vars, fileVars, runVars
<1>25. QED BY <1>1, <1>2, <1>3, <1>4, <1>5, <1>6, <1>7, <1>8, <1>9, <1>10, <1>11, <1>12, <1>13, <1>14, <1>15, <1>16, <1>17, <1>18, <1>19, <1>20, <1>21, <1>22, <1>23, <1>24 DEF Next

-----------------------------------------------------------------------------
(* CutOnlyByFault is inductive: a program that is not writing a file       *)
(* leaves it as it is.                                                     *)
LEMMA CutFrame ==
  ASSUME CutOnlyByFault, UNCHANGED <<file, cut>>,
         \A q \in Writers : pc[q] = "write" => pc'[q] = "write" /\ at'[q] = at[q]
  PROVE  CutOnlyByFault'
BY DEF CutOnlyByFault, Target

LEMMA CutStep ==
  ASSUME TypeOK, CutOnlyByFault, [Next]_vars
  PROVE  CutOnlyByFault'
<1> USE DEF TypeOK
<1> Writers \subseteq Programs BY DEF Programs
<1>1. ASSUME NEW g \in Generators, Generate(g) PROVE CutOnlyByFault'
  <2>1. /\ UNCHANGED <<file, cut>>
        /\ \A q \in Writers : pc[q] = "write" => pc'[q] = "write" /\ at'[q] = at[q]
    BY <1>1, Named DEF Generate, KeyMade, NotMade, Start, Goto, Return, RunsOK, PcOK, Generators
  <2>2. QED BY <2>1, CutFrame
<1>2. ASSUME NEW p \in Writers, OpenFile(p) PROVE CutOnlyByFault'
  <2>1. \A q \in Writers \ {p} : pc'[q] = pc[q] /\ at'[q] = at[q]
    BY <1>2 DEF OpenFile, AfterSave, Goto, Return, RunsOK, PcOK
  <2>2. CASE /\ file' = [file EXCEPT ![Target(p)] = <<>>]
             /\ Goto(p, "write") /\ UNCHANGED <<at, result>>
    <3>1. pc'[p] = "write" /\ Target(p)' = Target(p)
      BY <2>2 DEF Goto, RunsOK, PcOK, Target
    <3>2. \A f \in Files \ {Target(p)} : file'[f] = file[f] BY <2>2 DEF FilesOK
    <3>3. QED BY <1>2, <2>1, <3>1, <3>2 DEF CutOnlyByFault, OpenFile, Target
  <2>3. CASE UNCHANGED file
    BY <1>2, <2>1, <2>3, CutFrame DEF OpenFile
  <2>4. QED BY <1>2, <2>2, <2>3 DEF OpenFile
<1>3. ASSUME NEW p \in Writers, WriteFile(p) PROVE CutOnlyByFault'
  <2>1. \A q \in Writers \ {p} : pc'[q] = pc[q] /\ at'[q] = at[q]
    BY <1>3 DEF WriteFile, AfterSave, Goto, Return, RunsOK, PcOK
  <2>2. \A f \in Files \ {Target(p)} : file'[f] = file[f] /\ (f \in cut <=> f \in cut')
    BY <1>3 DEF WriteFile, FilesOK
  <2>3. Target(p) \in cut' \/ file'[Target(p)] # <<>>
    <3>1. Target(p) \in Files BY PlanLengths DEF Target, RunsOK
    <3>2. CASE file' = [file EXCEPT ![Target(p)] = <<[key |-> pkey[p], md |-> md[p]]>>]
      <4>1. file'[Target(p)] = <<[key |-> pkey[p], md |-> md[p]]>> BY <3>1, <3>2 DEF FilesOK
      <4>2. QED BY <4>1
    <3>3. QED BY <1>3, <3>1, <3>2 DEF WriteFile
  <2>4. QED BY <2>1, <2>2, <2>3 DEF CutOnlyByFault, Target
<1>4. ASSUME NEW p \in {"pkey_sign", "pkey_verify"}, LoadToMd(p) PROVE CutOnlyByFault'
  <2>1. /\ UNCHANGED <<file, cut, at>>
        /\ \A q \in Writers : pc[q] = "write" => pc'[q] = "write"
    BY <1>4, Named DEF LoadToMd, Goto, Return, RunsOK, PcOK, fileVars, Writers, Generators
  <2>2. QED BY <2>1, CutFrame
<1>5. ASSUME SignStart PROVE CutOnlyByFault'
  <2>1. /\ UNCHANGED <<file, cut, at>>
        /\ \A q \in Writers : pc[q] = "write" => pc'[q] = "write"
    BY <1>5, Named DEF SignStart, Start, Goto, Return, RunsOK, PcOK, fileVars, Writers, Generators
  <2>2. QED BY <2>1, CutFrame
<1>6. ASSUME Sign PROVE CutOnlyByFault'
  <2>1. /\ UNCHANGED <<file, cut, at>>
        /\ \A q \in Writers : pc[q] = "write" => pc'[q] = "write"
    BY <1>6, Named DEF Sign, Goto, Return, RunsOK, PcOK, fileVars, Writers, Generators
  <2>2. QED BY <2>1, CutFrame
<1>7. ASSUME VerifyStart PROVE CutOnlyByFault'
  <2>1. /\ UNCHANGED <<file, cut, at>>
        /\ \A q \in Writers : pc[q] = "write" => pc'[q] = "write"
    BY <1>7, Named DEF VerifyStart, Loads, Start, Goto, Return, RunsOK, PcOK, fileVars, Writers, Generators
  <2>2. QED BY <2>1, CutFrame
<1>8. ASSUME PkeyVerify PROVE CutOnlyByFault'
  <2>1. /\ UNCHANGED <<file, cut, at>>
        /\ \A q \in Writers : pc[q] = "write" => pc'[q] = "write"
    BY <1>8, Named DEF PkeyVerify, Verdict, Goto, Return, RunsOK, PcOK, fileVars, Writers, Generators
  <2>2. QED BY <2>1, CutFrame
<1>9. ASSUME VerifyX509Start PROVE CutOnlyByFault'
  <2>1. /\ UNCHANGED <<file, cut, at>>
        /\ \A q \in Writers : pc[q] = "write" => pc'[q] = "write"
    BY <1>9, Named DEF VerifyX509Start, Loads, Start, Goto, Return, RunsOK, PcOK, fileVars, Writers, Generators
  <2>2. QED BY <2>1, CutFrame
<1>10. ASSUME VerifyX509 PROVE CutOnlyByFault'
  <2>1. /\ UNCHANGED <<file, cut, at>>
        /\ \A q \in Writers : pc[q] = "write" => pc'[q] = "write"
    BY <1>10, Named DEF VerifyX509, Verdict, Goto, Return, RunsOK, PcOK, fileVars, Writers, Generators
  <2>2. QED BY <2>1, CutFrame
<1>11. ASSUME ReadKeyFile PROVE CutOnlyByFault'
  <2>1. /\ UNCHANGED <<file, cut, at>>
        /\ \A q \in Writers : pc[q] = "write" => pc'[q] = "write"
    BY <1>11, Named DEF ReadKeyFile, Start, Goto, Return, RunsOK, PcOK, fileVars, Writers, Generators
  <2>2. QED BY <2>1, CutFrame
<1>12. ASSUME SendStart PROVE CutOnlyByFault'
  <2>1. /\ UNCHANGED <<file, cut, at>>
        /\ \A q \in Writers : pc[q] = "write" => pc'[q] = "write"
    BY <1>12, Named DEF SendStart, Start, Goto, Return, RunsOK, PcOK, fileVars, Writers, Generators
  <2>2. QED BY <2>1, CutFrame
<1>13. ASSUME TypeLine PROVE CutOnlyByFault'
  <2>1. /\ UNCHANGED <<file, cut, at>>
        /\ \A q \in Writers : pc[q] = "write" => pc'[q] = "write"
    BY <1>13, Named DEF TypeLine, Goto, Return, RunsOK, PcOK, fileVars, Writers, Generators
  <2>2. QED BY <2>1, CutFrame
<1>14. ASSUME Encrypt PROVE CutOnlyByFault'
  <2>1. /\ UNCHANGED <<file, cut, at>>
        /\ \A q \in Writers : pc[q] = "write" => pc'[q] = "write"
    BY <1>14, Named DEF Encrypt, Goto, Return, RunsOK, PcOK, fileVars, Writers, Generators
  <2>2. QED BY <2>1, CutFrame
<1>15. ASSUME CopyEnds PROVE CutOnlyByFault'
  <2>1. /\ UNCHANGED <<file, cut, at>>
        /\ \A q \in Writers : pc[q] = "write" => pc'[q] = "write"
    BY <1>15, Named DEF CopyEnds, Goto, Return, RunsOK, PcOK, fileVars, Writers, Generators
  <2>2. QED BY <2>1, CutFrame
<1>16. ASSUME SendExit PROVE CutOnlyByFault'
  <2>1. /\ UNCHANGED <<file, cut, at>>
        /\ \A q \in Writers : pc[q] = "write" => pc'[q] = "write"
    BY <1>16, Named DEF SendExit, Goto, Return, RunsOK, PcOK, fileVars, Writers, Generators
  <2>2. QED BY <2>1, CutFrame
<1>17. ASSUME RecvStart PROVE CutOnlyByFault'
  <2>1. /\ UNCHANGED <<file, cut, at>>
        /\ \A q \in Writers : pc[q] = "write" => pc'[q] = "write"
    BY <1>17, Named DEF RecvStart, Start, Goto, Return, RunsOK, PcOK, fileVars, Writers, Generators
  <2>2. QED BY <2>1, CutFrame
<1>18. ASSUME ReadBegins PROVE CutOnlyByFault'
  <2>1. /\ UNCHANGED <<file, cut, at>>
        /\ \A q \in Writers : pc[q] = "write" => pc'[q] = "write"
    BY <1>18, Named DEF ReadBegins, Goto, Return, RunsOK, PcOK, fileVars, Writers, Generators
  <2>2. QED BY <2>1, CutFrame
<1>19. ASSUME ReadEnds PROVE CutOnlyByFault'
  <2>1. /\ UNCHANGED <<file, cut, at>>
        /\ \A q \in Writers : pc[q] = "write" => pc'[q] = "write"
    BY <1>19, Named DEF ReadEnds, Goto, Return, RunsOK, PcOK, fileVars, Writers, Generators
  <2>2. QED BY <2>1, CutFrame
<1>20. ASSUME RecvLeaves PROVE CutOnlyByFault'
  <2>1. /\ UNCHANGED <<file, cut, at>>
        /\ \A q \in Writers : pc[q] = "write" => pc'[q] = "write"
    BY <1>20, Named DEF RecvLeaves, Goto, Return, RunsOK, PcOK, fileVars, Writers, Generators
  <2>2. QED BY <2>1, CutFrame
<1>21. ASSUME NEW p \in Programs, Killed(p) PROVE CutOnlyByFault'
  <2>1. /\ UNCHANGED <<file, at>>
        /\ cut' = IF pc[p] = "write" THEN cut \cup {Target(p)} ELSE cut
        /\ \A q \in Writers : q # p => pc'[q] = pc[q]
    BY <1>21 DEF Killed, Return, Goto, RunsOK, PcOK
  <2>2. QED BY <2>1 DEF CutOnlyByFault, Target
<1>22. ASSUME Edit PROVE CutOnlyByFault'
  BY <1>22, CutFrame DEF Edit, runVars
<1>23. ASSUME Bundle PROVE CutOnlyByFault'
  <2>1. \A f \in Files : file'[f] = <<>> => file[f] = <<>>
    BY <1>23, SMTT(60) DEF Bundle, FilesOK, Files, KeyFiles
  <2>2. QED BY <1>23, <2>1 DEF Bundle, runVars, CutOnlyByFault, Target
<1>24. ASSUME UNCHANGED vars PROVE CutOnlyByFault'
  BY <1>24, CutFrame DEF vars, fileVars, runVars
<1>25. QED BY <1>1, <1>2, <1>3, <1>4, <1>5, <1>6, <1>7, <1>8, <1>9, <1>10, <1>11, <1>12, <1>13, <1>14, <1>15, <1>16, <1>17, <1>18, <1>19, <1>20, <1>21, <1>22, <1>23, <1>24 DEF Next

-----------------------------------------------------------------------------
(* What verifiers have read is still in the files while nobody writes.     *)
LEMMA NobodySteady ==
  ASSUME SteadyInv, steady' = {}
  PROVE  SteadyInv'
BY DEF SteadyInv, SteadyVerdict

LEMMA SteadyFrame ==
  ASSUME SteadyInv, UNCHANGED <<file, document, steady>>,
         \A v \in Verifiers : /\ pc'[v] = pc[v] /\ pkey'[v] = pkey[v]
                              /\ md'[v] = md[v] /\ result'[v] = result[v],
         \A p \in Writers : pc[p] = "idle" => pc'[p] = "idle",
         steady \subseteq Verifiers
  PROVE  SteadyInv'
<1>1. SteadyVerdict' BY DEF SteadyInv, SteadyVerdict, Match, Load
<1>2. QED BY <1>1 DEF SteadyInv, Busy, Verifiers, Load, LoadTwice

LEMMA SteadyStep ==
  ASSUME TypeOK, SteadyInv, [Next]_vars
  PROVE  SteadyInv'
<1> USE DEF TypeOK
<1>1. ASSUME NEW g \in Generators, Generate(g) PROVE SteadyInv'
  <2>1. CASE steady' = {} BY <2>1, NobodySteady
  <2>2. CASE Return(g, "failed") /\ UNCHANGED <<keys, pkey, at, alone, steady>>
    <3>1. /\ \A v \in Verifiers : pc'[v] = pc[v] /\ result'[v] = result[v]
          /\ \A p \in Writers : pc[p] = "idle" => pc'[p] = "idle"
      BY <1>1, <2>2 DEF Return, Goto, RunsOK, PcOK, Generators, Verifiers, Writers, Programs
    <3>2. QED BY <1>1, <2>2, <3>1, SteadyFrame DEF Generate, KeyMade, NotMade, FilesOK
  <2>3. QED BY <1>1, <2>1, <2>2 DEF Generate, KeyMade, NotMade
<1>2. ASSUME NEW p \in Writers, OpenFile(p) PROVE SteadyInv'
  <2>1. steady' = {} BY <1>2 DEF OpenFile, SteadyInv, Busy
  <2>2. QED BY <2>1, NobodySteady
<1>3. ASSUME NEW p \in Writers, WriteFile(p) PROVE SteadyInv'
  <2>1. steady' = {} BY <1>3 DEF WriteFile, SteadyInv, Busy
  <2>2. QED BY <2>1, NobodySteady
<1>4. ASSUME NEW p \in {"pkey_sign", "pkey_verify"}, LoadToMd(p) PROVE SteadyInv'
  <2>1. CASE p = "pkey_sign"
    <3>1. steady' = {}
      BY <1>4, <2>1 DEF LoadToMd, SteadyInv, Busy, Writers, fileVars
    <3>2. QED BY <3>1, NobodySteady
  <2>2. CASE p = "pkey_verify"
    <3>1. /\ pc["pkey_verify"] = "digest" /\ pc'["pkey_verify"] = "compare"
          /\ md'["pkey_verify"] = document
          /\ \A q \in Programs \ {"pkey_verify"} : pc'[q] = pc[q] /\ md'[q] = md[q]
          /\ UNCHANGED <<file, document, steady, pkey, result>>
      BY <1>4, <2>2, Named DEF LoadToMd, Goto, RunsOK, PcOK, fileVars
    <3>2. SteadyVerdict' BY <3>1 DEF SteadyInv, SteadyVerdict, Match, Load
    <3>3. Writers \subseteq Programs \ {"pkey_verify"} /\ "verify_x509" \in Programs
      BY Named DEF Writers, Generators
    <3>4. QED BY <3>1, <3>2, <3>3 DEF SteadyInv, Busy, Load, LoadTwice
  <2>3. QED BY <1>4, <2>1, <2>2
<1>5. ASSUME SignStart PROVE SteadyInv'
  BY <1>5, NobodySteady DEF SignStart
<1>6. ASSUME Sign PROVE SteadyInv'
  <2>1. /\ \A v \in Verifiers : /\ pc'[v] = pc[v] /\ pkey'[v] = pkey[v]
                              /\ md'[v] = md[v] /\ result'[v] = result[v]
        /\ \A p \in Writers : pc[p] = "idle" => pc'[p] = "idle"
        /\ UNCHANGED <<file, document, steady>>
    BY <1>6, Named, SMTT(60) DEF Sign, Goto, Return, RunsOK, PcOK, Verifiers, Writers, Generators, fileVars
  <2>2. QED BY <2>1, SteadyFrame DEF FilesOK
<1>7. ASSUME VerifyStart PROVE SteadyInv'
  <2> DEFINE v == "pkey_verify"
  <2>1. Loads(v, LoadTwice("public")) BY <1>7 DEF VerifyStart
  <2>2. /\ UNCHANGED <<file, document, md>>
        /\ \A q \in Programs \ {v} : /\ pc'[q] = pc[q] /\ result'[q] = result[q]
                                      /\ pkey'[q] = pkey[q]
        /\ \/ pc'[v] = "idle" /\ result'[v] = "failed"
           \/ /\ LoadTwice("public") # None /\ pkey'[v] = LoadTwice("public")
              /\ pc'[v] = "digest" /\ result'[v] = "none"
        /\ steady' = IF \E p \in Writers : Busy(p) THEN steady \ {v} ELSE steady \cup {v}
    BY <2>1, Named, SMTT(60) DEF Loads, Start, Goto, Return, RunsOK, PcOK
  <2>3. Writers \subseteq Programs \ {v} /\ "verify_x509" \in Programs \ {v}
    BY Named DEF Writers, Generators
  <2>4. (\E p \in Writers : Busy(p))' => steady' = {}
    BY <2>2, <2>3 DEF SteadyInv, Busy
  <2>5. SteadyVerdict'
    <3>1. ASSUME NEW u \in steady', u # v
          PROVE  (result[u] = result'[u]) /\ (Match(u) <=> Match(u)') /\ u \in steady
      BY <2>2, <3>1, Named DEF Match, Load, FilesOK, Verifiers
    <3>2. QED BY <2>2, <3>1 DEF SteadyInv, SteadyVerdict
  <2>6. QED BY <2>2, <2>3, <2>4, <2>5 DEF SteadyInv, Load, LoadTwice
<1>8. ASSUME PkeyVerify PROVE SteadyInv'
  <2>1. /\ UNCHANGED <<file, document, steady, pkey, md>>
        /\ pc["pkey_verify"] = "compare" /\ pc'["pkey_verify"] = "idle"
        /\ \A q \in Programs \ {"pkey_verify"} : pc'[q] = pc[q] /\ result'[q] = result[q]
        /\ result'["pkey_verify"] = "ok" =>
              file["signature"] = <<[key |-> pkey["pkey_verify"], md |-> md["pkey_verify"]]>>
    BY <1>8, Named DEF PkeyVerify, Verdict, Goto, Return, RunsOK, PcOK, fileVars
  <2>2. Writers \subseteq Programs \ {"pkey_verify"} /\ "verify_x509" \in Programs
    BY Named DEF Writers, Generators
  <2>3. ASSUME "pkey_verify" \in steady, result'["pkey_verify"] = "ok"
        PROVE  Match("pkey_verify")
    <3>1. file["signature"] = <<[key |-> LoadTwice("public"), md |-> document]>>
          /\ LoadTwice("public") # None
      BY <2>1, <2>3 DEF SteadyInv
    <3>2. LoadTwice("public") = file["public"][2].key /\ Len(file["public"]) >= 2
      BY <3>1 DEF LoadTwice, FilesOK, Files, KeyFiles
    <3>3. 2 \in DOMAIN file["public"] BY <3>2 DEF FilesOK, Files, KeyFiles
    <3>4. QED BY <3>1, <3>2, <3>3 DEF Match
  <2>4. SteadyVerdict'
    <3>1. ASSUME NEW u \in steady PROVE Match(u)' <=> Match(u)
      BY <2>1 DEF Match, Load
    <3>2. steady \subseteq Verifiers /\ steady' = steady BY <2>1 DEF FilesOK
    <3>3. QED BY <2>1, <2>2, <2>3, <3>1, <3>2 DEF SteadyInv, SteadyVerdict, Verifiers
  <2>5. QED BY <2>1, <2>2, <2>4 DEF SteadyInv, Busy, Load, LoadTwice
<1>9. ASSUME VerifyX509Start PROVE SteadyInv'
  <2> DEFINE v == "verify_x509"
  <2>1. Loads(v, Load("x509")) BY <1>9 DEF VerifyX509Start
  <2>2. /\ UNCHANGED <<file, document, md>>
        /\ \A q \in Programs \ {v} : /\ pc'[q] = pc[q] /\ result'[q] = result[q]
                                      /\ pkey'[q] = pkey[q]
        /\ \/ pc'[v] = "idle" /\ result'[v] = "failed"
           \/ /\ Load("x509") # None /\ pkey'[v] = Load("x509")
              /\ pc'[v] = "compare" /\ result'[v] = "none"
        /\ steady' = IF \E p \in Writers : Busy(p) THEN steady \ {v} ELSE steady \cup {v}
    BY <2>1, Named, SMTT(60) DEF Loads, Start, Goto, Return, RunsOK, PcOK
  <2>3. Writers \subseteq Programs \ {v} /\ "pkey_verify" \in Programs \ {v}
    BY Named DEF Writers, Generators
  <2>4. (\E p \in Writers : Busy(p))' => steady' = {}
    BY <2>2, <2>3 DEF SteadyInv, Busy
  <2>5. SteadyVerdict'
    <3>1. ASSUME NEW u \in steady', u # v
          PROVE  (result[u] = result'[u]) /\ (Match(u) <=> Match(u)') /\ u \in steady
      BY <2>2, <3>1, Named DEF Match, Load, FilesOK, Verifiers
    <3>2. QED BY <2>2, <3>1 DEF SteadyInv, SteadyVerdict
  <2>6. QED BY <2>2, <2>3, <2>4, <2>5 DEF SteadyInv, Load, LoadTwice
<1>10. ASSUME VerifyX509 PROVE SteadyInv'
  <2>1. /\ UNCHANGED <<file, document, steady, pkey, md>>
        /\ pc["verify_x509"] = "compare" /\ pc'["verify_x509"] = "idle"
        /\ \A q \in Programs \ {"verify_x509"} : pc'[q] = pc[q] /\ result'[q] = result[q]
        /\ result'["verify_x509"] = "ok" => pkey["verify_x509"] = Load("public")
        /\ result'["verify_x509"] = "bad" => pkey["verify_x509"] # Load("public")
    BY <1>10, Named DEF VerifyX509, Verdict, Goto, Return, RunsOK, PcOK, fileVars
  <2>2. Writers \subseteq Programs \ {"verify_x509"} /\ "pkey_verify" \in Programs
    BY Named DEF Writers, Generators
  <2>3. "verify_x509" \in steady =>
          /\ result'["verify_x509"] = "ok" => Match("verify_x509")
          /\ result'["verify_x509"] = "bad" => ~Match("verify_x509")
    BY <2>1 DEF SteadyInv, Match
  <2>4. SteadyVerdict'
    <3>1. ASSUME NEW u \in steady PROVE Match(u)' <=> Match(u)
      BY <2>1 DEF Match, Load
    <3>2. steady \subseteq Verifiers /\ steady' = steady BY <2>1 DEF FilesOK
    <3>3. QED BY <2>1, <2>2, <2>3, <3>1, <3>2 DEF SteadyInv, SteadyVerdict, Verifiers
  <2>5. QED BY <2>1, <2>2, <2>4 DEF SteadyInv, Busy, Load, LoadTwice
<1>11. ASSUME ReadKeyFile PROVE SteadyInv'
  <2>1. /\ \A v \in Verifiers : /\ pc'[v] = pc[v] /\ pkey'[v] = pkey[v]
                              /\ md'[v] = md[v] /\ result'[v] = result[v]
        /\ \A p \in Writers : pc[p] = "idle" => pc'[p] = "idle"
        /\ UNCHANGED <<file, document, steady>>
    BY <1>11, Named, SMTT(60) DEF ReadKeyFile, Start, Goto, Return, RunsOK, PcOK, Verifiers, Writers, Generators, fileVars
  <2>2. QED BY <2>1, SteadyFrame DEF FilesOK
<1>12. ASSUME SendStart PROVE SteadyInv'
  <2>1. /\ \A v \in Verifiers : /\ pc'[v] = pc[v] /\ pkey'[v] = pkey[v]
                              /\ md'[v] = md[v] /\ result'[v] = result[v]
        /\ \A p \in Writers : pc[p] = "idle" => pc'[p] = "idle"
        /\ UNCHANGED <<file, document, steady>>
    BY <1>12, Named, SMTT(60) DEF SendStart, Start, Goto, Return, RunsOK, PcOK, Verifiers, Writers, Generators, fileVars
  <2>2. QED BY <2>1, SteadyFrame DEF FilesOK
<1>13. ASSUME TypeLine PROVE SteadyInv'
  <2>1. /\ \A v \in Verifiers : /\ pc'[v] = pc[v] /\ pkey'[v] = pkey[v]
                              /\ md'[v] = md[v] /\ result'[v] = result[v]
        /\ \A p \in Writers : pc[p] = "idle" => pc'[p] = "idle"
        /\ UNCHANGED <<file, document, steady>>
    BY <1>13, Named, SMTT(60) DEF TypeLine, Goto, Return, RunsOK, PcOK, Verifiers, Writers, Generators, fileVars
  <2>2. QED BY <2>1, SteadyFrame DEF FilesOK
<1>14. ASSUME Encrypt PROVE SteadyInv'
  <2>1. /\ \A v \in Verifiers : /\ pc'[v] = pc[v] /\ pkey'[v] = pkey[v]
                              /\ md'[v] = md[v] /\ result'[v] = result[v]
        /\ \A p \in Writers : pc[p] = "idle" => pc'[p] = "idle"
        /\ UNCHANGED <<file, document, steady>>
    BY <1>14, Named, SMTT(60) DEF Encrypt, Goto, Return, RunsOK, PcOK, Verifiers, Writers, Generators, fileVars
  <2>2. QED BY <2>1, SteadyFrame DEF FilesOK
<1>15. ASSUME CopyEnds PROVE SteadyInv'
  <2>1. /\ \A v \in Verifiers : /\ pc'[v] = pc[v] /\ pkey'[v] = pkey[v]
                              /\ md'[v] = md[v] /\ result'[v] = result[v]
        /\ \A p \in Writers : pc[p] = "idle" => pc'[p] = "idle"
        /\ UNCHANGED <<file, document, steady>>
    BY <1>15, Named, SMTT(60) DEF CopyEnds, Goto, Return, RunsOK, PcOK, Verifiers, Writers, Generators, fileVars
  <2>2. QED BY <2>1, SteadyFrame DEF FilesOK
<1>16. ASSUME SendExit PROVE SteadyInv'
  <2>1. /\ \A v \in Verifiers : /\ pc'[v] = pc[v] /\ pkey'[v] = pkey[v]
                              /\ md'[v] = md[v] /\ result'[v] = result[v]
        /\ \A p \in Writers : pc[p] = "idle" => pc'[p] = "idle"
        /\ UNCHANGED <<file, document, steady>>
    BY <1>16, Named, SMTT(60) DEF SendExit, Goto, Return, RunsOK, PcOK, Verifiers, Writers, Generators, fileVars
  <2>2. QED BY <2>1, SteadyFrame DEF FilesOK
<1>17. ASSUME RecvStart PROVE SteadyInv'
  <2>1. /\ \A v \in Verifiers : /\ pc'[v] = pc[v] /\ pkey'[v] = pkey[v]
                              /\ md'[v] = md[v] /\ result'[v] = result[v]
        /\ \A p \in Writers : pc[p] = "idle" => pc'[p] = "idle"
        /\ UNCHANGED <<file, document, steady>>
    BY <1>17, Named, SMTT(60) DEF RecvStart, Start, Goto, Return, RunsOK, PcOK, Verifiers, Writers, Generators, fileVars
  <2>2. QED BY <2>1, SteadyFrame DEF FilesOK
<1>18. ASSUME ReadBegins PROVE SteadyInv'
  <2>1. /\ \A v \in Verifiers : /\ pc'[v] = pc[v] /\ pkey'[v] = pkey[v]
                              /\ md'[v] = md[v] /\ result'[v] = result[v]
        /\ \A p \in Writers : pc[p] = "idle" => pc'[p] = "idle"
        /\ UNCHANGED <<file, document, steady>>
    BY <1>18, Named, SMTT(60) DEF ReadBegins, Goto, Return, RunsOK, PcOK, Verifiers, Writers, Generators, fileVars
  <2>2. QED BY <2>1, SteadyFrame DEF FilesOK
<1>19. ASSUME ReadEnds PROVE SteadyInv'
  <2>1. /\ \A v \in Verifiers : /\ pc'[v] = pc[v] /\ pkey'[v] = pkey[v]
                              /\ md'[v] = md[v] /\ result'[v] = result[v]
        /\ \A p \in Writers : pc[p] = "idle" => pc'[p] = "idle"
        /\ UNCHANGED <<file, document, steady>>
    BY <1>19, Named, SMTT(60) DEF ReadEnds, Goto, Return, RunsOK, PcOK, Verifiers, Writers, Generators, fileVars
  <2>2. QED BY <2>1, SteadyFrame DEF FilesOK
<1>20. ASSUME RecvLeaves PROVE SteadyInv'
  <2>1. /\ \A v \in Verifiers : /\ pc'[v] = pc[v] /\ pkey'[v] = pkey[v]
                              /\ md'[v] = md[v] /\ result'[v] = result[v]
        /\ \A p \in Writers : pc[p] = "idle" => pc'[p] = "idle"
        /\ UNCHANGED <<file, document, steady>>
    BY <1>20, Named, SMTT(60) DEF RecvLeaves, Goto, Return, RunsOK, PcOK, Verifiers, Writers, Generators, fileVars
  <2>2. QED BY <2>1, SteadyFrame DEF FilesOK
<1>21. ASSUME NEW p \in Programs, Killed(p) PROVE SteadyInv'
  <2>1. /\ UNCHANGED <<file, document, steady, pkey, md>>
        /\ \A q \in Programs : \/ pc'[q] = pc[q] /\ result'[q] = result[q]
                               \/ pc'[q] = "idle" /\ result'[q] = "failed"
    BY <1>21 DEF Killed, Return, Goto, RunsOK, PcOK
  <2>2. Writers \subseteq Programs /\ steady \subseteq Programs
        /\ "pkey_verify" \in Programs /\ "verify_x509" \in Programs
    BY DEF Programs, FilesOK, Verifiers
  <2>3. SteadyVerdict'
    <3>1. ASSUME NEW u \in steady PROVE Match(u)' <=> Match(u)
      BY <2>1 DEF Match, Load
    <3>2. QED BY <2>1, <2>2, <3>1 DEF SteadyInv, SteadyVerdict
  <2>4. (\E q \in Writers : Busy(q))' => steady' = {}
    BY <2>1, <2>2 DEF SteadyInv, Busy
  <2>5. QED BY <2>1, <2>2, <2>3, <2>4 DEF SteadyInv, Load, LoadTwice
<1>22. ASSUME Edit PROVE SteadyInv'
  BY <1>22, NobodySteady DEF Edit
<1>23. ASSUME Bundle PROVE SteadyInv'
  BY <1>23, NobodySteady DEF Bundle
<1>24. ASSUME UNCHANGED vars PROVE SteadyInv'
  BY <1>24, SteadyFrame DEF vars, fileVars, runVars, FilesOK
<1>25. QED BY <1>1, <1>2, <1>3, <1>4, <1>5, <1>6, <1>7, <1>8, <1>9, <1>10, <1>11, <1>12, <1>13, <1>14, <1>15, <1>16, <1>17, <1>18, <1>19, <1>20, <1>21, <1>22, <1>23, <1>24 DEF Next

-----------------------------------------------------------------------------
(* The last segment holds the last message typed, or none.                 *)
LEMMA MessagesFrame ==
  ASSUME MessagesInv, UNCHANGED <<area, typed, look, shown, since>>,
         pc'["pkey_send"] \in {pc["pkey_send"], "idle", "line"},
         pc'["pkey_recv"] \in {pc["pkey_recv"], "idle"},
         pkey'["pkey_recv"] = pkey["pkey_recv"]
  PROVE  MessagesInv'
BY DEF MessagesInv, NeverStale, Proper

LEMMA MessagesInvStep ==
  ASSUME TypeOK, MessagesInv, [Next]_vars
  PROVE  MessagesInv'
<1> USE DEF TypeOK
<1>1. ASSUME NEW g \in Generators, Generate(g) PROVE MessagesInv'
  <2>1. /\ UNCHANGED <<area, typed, look, shown, since>>
        /\ \A q \in {"pkey_send", "pkey_recv"} : pc'[q] = pc[q] /\ pkey'[q] = pkey[q]
    BY <1>1, Named, SMTT(60) DEF Generate, KeyMade, NotMade, AfterSave, Start, Goto, Return, RunsOK, PcOK, messageVars, Writers, Generators
  <2>2. QED BY <2>1, MessagesFrame
<1>2. ASSUME NEW p \in Writers, OpenFile(p) PROVE MessagesInv'
  <2>1. /\ UNCHANGED <<area, typed, look, shown, since>>
        /\ \A q \in {"pkey_send", "pkey_recv"} : pc'[q] = pc[q] /\ pkey'[q] = pkey[q]
    BY <1>2, Named, SMTT(60) DEF OpenFile, AfterSave, Start, Goto, Return, RunsOK, PcOK, messageVars, Writers, Generators
  <2>2. QED BY <2>1, MessagesFrame
<1>3. ASSUME NEW p \in Writers, WriteFile(p) PROVE MessagesInv'
  <2>1. /\ UNCHANGED <<area, typed, look, shown, since>>
        /\ \A q \in {"pkey_send", "pkey_recv"} : pc'[q] = pc[q] /\ pkey'[q] = pkey[q]
    BY <1>3, Named, SMTT(60) DEF WriteFile, AfterSave, Start, Goto, Return, RunsOK, PcOK, messageVars, Writers, Generators
  <2>2. QED BY <2>1, MessagesFrame
<1>4. ASSUME NEW p \in {"pkey_sign", "pkey_verify"}, LoadToMd(p) PROVE MessagesInv'
  <2>1. /\ UNCHANGED <<area, typed, look, shown, since>>
        /\ \A q \in {"pkey_send", "pkey_recv"} : pc'[q] = pc[q] /\ pkey'[q] = pkey[q]
    BY <1>4, Named, SMTT(60) DEF LoadToMd, Start, Goto, Return, RunsOK, PcOK, messageVars, Writers, Generators
  <2>2. QED BY <2>1, MessagesFrame
<1>5. ASSUME SignStart PROVE MessagesInv'
  <2>1. /\ UNCHANGED <<area, typed, look, shown, since>>
        /\ \A q \in {"pkey_send", "pkey_recv"} : pc'[q] = pc[q] /\ pkey'[q] = pkey[q]
    BY <1>5, Named, SMTT(60) DEF SignStart, Start, Goto, Return, RunsOK, PcOK, messageVars, Writers, Generators
  <2>2. QED BY <2>1, MessagesFrame
<1>6. ASSUME Sign PROVE MessagesInv'
  <2>1. /\ UNCHANGED <<area, typed, look, shown, since>>
        /\ \A q \in {"pkey_send", "pkey_recv"} : pc'[q] = pc[q] /\ pkey'[q] = pkey[q]
    BY <1>6, Named, SMTT(60) DEF Sign, Start, Goto, Return, RunsOK, PcOK, messageVars, Writers, Generators
  <2>2. QED BY <2>1, MessagesFrame
<1>7. ASSUME VerifyStart PROVE MessagesInv'
  <2>1. /\ UNCHANGED <<area, typed, look, shown, since>>
        /\ \E l : Goto("pkey_verify", l)
        /\ \A q \in Programs \ {"pkey_verify"} : pkey'[q] = pkey[q]
    BY <1>7 DEF VerifyStart, Loads, Return, RunsOK, messageVars
  <2>2. \A q \in {"pkey_send", "pkey_recv"} : pc'[q] = pc[q] /\ pkey'[q] = pkey[q]
    BY <2>1, Named, Others DEF RunsOK
  <2>3. QED BY <2>1, <2>2, MessagesFrame
<1>8. ASSUME PkeyVerify PROVE MessagesInv'
  <2>1. /\ UNCHANGED <<area, typed, look, shown, since>>
        /\ \E l : Goto("pkey_verify", l)
        /\ \A q \in Programs \ {"pkey_verify"} : pkey'[q] = pkey[q]
    BY <1>8 DEF PkeyVerify, Verdict, Return, RunsOK, messageVars
  <2>2. \A q \in {"pkey_send", "pkey_recv"} : pc'[q] = pc[q] /\ pkey'[q] = pkey[q]
    BY <2>1, Named, Others DEF RunsOK
  <2>3. QED BY <2>1, <2>2, MessagesFrame
<1>9. ASSUME VerifyX509Start PROVE MessagesInv'
  <2>1. /\ UNCHANGED <<area, typed, look, shown, since>>
        /\ \E l : Goto("verify_x509", l)
        /\ \A q \in Programs \ {"verify_x509"} : pkey'[q] = pkey[q]
    BY <1>9 DEF VerifyX509Start, Loads, Return, RunsOK, messageVars
  <2>2. \A q \in {"pkey_send", "pkey_recv"} : pc'[q] = pc[q] /\ pkey'[q] = pkey[q]
    BY <2>1, Named, Others DEF RunsOK
  <2>3. QED BY <2>1, <2>2, MessagesFrame
<1>10. ASSUME VerifyX509 PROVE MessagesInv'
  <2>1. /\ UNCHANGED <<area, typed, look, shown, since>>
        /\ \E l : Goto("verify_x509", l)
        /\ \A q \in Programs \ {"verify_x509"} : pkey'[q] = pkey[q]
    BY <1>10 DEF VerifyX509, Verdict, Return, RunsOK, messageVars
  <2>2. \A q \in {"pkey_send", "pkey_recv"} : pc'[q] = pc[q] /\ pkey'[q] = pkey[q]
    BY <2>1, Named, Others DEF RunsOK
  <2>3. QED BY <2>1, <2>2, MessagesFrame
<1>11. ASSUME ReadKeyFile PROVE MessagesInv'
  <2>1. /\ UNCHANGED <<area, typed, look, shown, since>>
        /\ \A q \in {"pkey_send", "pkey_recv"} : pc'[q] = pc[q] /\ pkey'[q] = pkey[q]
    BY <1>11, Named, SMTT(60) DEF ReadKeyFile, Start, Goto, Return, RunsOK, PcOK, messageVars, Writers, Generators
  <2>2. QED BY <2>1, MessagesFrame
<1>12. ASSUME SendStart PROVE MessagesInv'
  <2>1. /\ UNCHANGED <<typed, look, shown, since>> /\ area' = Append(area, Torn)
        /\ pc'["pkey_recv"] = pc["pkey_recv"] /\ pkey'["pkey_recv"] = pkey["pkey_recv"]
        /\ pc'["pkey_send"] \notin {"encrypt", "copy"}
    BY <1>12, Named DEF SendStart, Start, Goto, Return, RunsOK, PcOK
  <2>2. /\ Len(area') = Len(area) + 1 /\ area'[Len(area) + 1] = Torn
        /\ \A i \in 1 .. Len(area) : area'[i] = area[i]
    BY <2>1 DEF MessagesOK
  <2>3. /\ area'[Len(area')].text \in {0, -1, typed'}
        /\ \A i \in 1 .. Len(area') : Proper(area'[i])
    BY <2>2 DEF MessagesInv, MessagesOK, Torn, Proper
  <2>4. QED BY <2>1, <2>3 DEF MessagesInv, NeverStale, Proper
<1>13. ASSUME TypeLine PROVE MessagesInv'
  <2>1. /\ UNCHANGED <<look, shown, since>> /\ Put(Blank) /\ typed' = typed + 1
        /\ pc'["pkey_recv"] = pc["pkey_recv"] /\ pkey'["pkey_recv"] = pkey["pkey_recv"]
        /\ area # <<>> /\ typed \in Nat
    BY <1>13, Named, KeyFilesAssumption DEF TypeLine, Goto, RunsOK, PcOK, MessagesOK
  <2>2. Blank.text = 0 /\ Proper(Blank) BY DEF Blank, Proper
  <2>3. /\ area'[Len(area')].text \in {0, -1, typed'}
        /\ \A i \in 1 .. Len(area') : Proper(area'[i])
    BY <2>1, <2>2 DEF MessagesInv, MessagesOK, Put, Proper
  <2>4. QED BY <2>1, <2>3 DEF MessagesInv, NeverStale, Proper
<1>14. ASSUME Encrypt PROVE MessagesInv'
  <2>1. /\ UNCHANGED <<typed, look, shown, since>>
        /\ pc'["pkey_recv"] = pc["pkey_recv"] /\ pkey'["pkey_recv"] = pkey["pkey_recv"]
        /\ area # <<>> /\ pc["pkey_send"] = "encrypt"
    BY <1>14, Named DEF Encrypt, Goto, Return, RunsOK, PcOK, MessagesOK
  <2>2. CASE Put(Torn)
    <3>1. Torn.text = -1 /\ Proper(Torn) BY DEF Torn, Proper
    <3>2. /\ area'[Len(area')].text \in {0, -1, typed'}
          /\ \A i \in 1 .. Len(area') : Proper(area'[i])
      BY <2>1, <2>2, <3>1 DEF MessagesInv, MessagesOK, Put, Proper
    <3>3. QED BY <2>1, <3>2 DEF MessagesInv, NeverStale, Proper
  <2>3. CASE UNCHANGED area
    BY <2>1, <2>3 DEF MessagesInv, NeverStale, Proper
  <2>4. QED BY <1>14, <2>2, <2>3 DEF Encrypt
<1>15. ASSUME CopyEnds PROVE MessagesInv'
  <2> DEFINE m == [key |-> pkey["pkey_send"], text |-> typed]
  <2>1. /\ UNCHANGED <<typed, look, shown, since>> /\ Put(m)
        /\ pc'["pkey_recv"] = pc["pkey_recv"] /\ pkey'["pkey_recv"] = pkey["pkey_recv"]
        /\ pc'["pkey_send"] = "line" /\ area # <<>> /\ pc["pkey_send"] = "copy"
    BY <1>15, Named DEF CopyEnds, Goto, Return, RunsOK, PcOK, MessagesOK
  <2>2. m.text = typed /\ Proper(m) BY <2>1 DEF MessagesInv, Proper
  <2>3. /\ area'[Len(area')].text \in {0, -1, typed'}
        /\ \A i \in 1 .. Len(area') : Proper(area'[i])
    <3> HIDE DEF m
    <3> QED BY <2>1, <2>2 DEF MessagesInv, MessagesOK, Put, Proper
  <2>4. QED BY <2>1, <2>3 DEF MessagesInv, NeverStale, Proper
<1>16. ASSUME SendExit PROVE MessagesInv'
  BY <1>16, MessagesFrame, Named DEF SendExit, Goto, Return, RunsOK, PcOK
<1>17. ASSUME RecvStart PROVE MessagesInv'
  <2>1. /\ UNCHANGED <<area, typed, look, shown, since>>
        /\ pc'["pkey_send"] = pc["pkey_send"]
        /\ pc'["pkey_recv"] # "copying"
        /\ pc'["pkey_recv"] # "idle" => pkey'["pkey_recv"] # None
    BY <1>17, Named DEF RecvStart, Goto, Return, RunsOK, PcOK
  <2>2. QED BY <2>1 DEF MessagesInv, NeverStale, Proper
<1>18. ASSUME ReadBegins PROVE MessagesInv'
  <2>1. /\ UNCHANGED <<area, typed, pkey>> /\ shown' = 0
        /\ pc'["pkey_send"] = pc["pkey_send"] /\ pc["pkey_recv"] # "idle"
        /\ look' = area[seg] /\ since' = IF seg = Len(area) THEN typed ELSE 0
        /\ seg \in 1 .. Len(area)
    BY <1>18, Named DEF ReadBegins, Goto, RunsOK, PcOK, MessagesOK
  <2>2. Proper(look') BY <2>1 DEF MessagesInv
  <2>3. look'.text > 0 => since' <= look'.text
    <3>1. area[seg] \in Messages /\ area # <<>> BY <2>1 DEF MessagesOK
    <3>2. QED BY <2>1, <3>1 DEF MessagesInv, Messages, MessagesOK
  <2>4. QED BY <2>1, <2>2, <2>3 DEF MessagesInv, NeverStale, Proper
<1>19. ASSUME ReadEnds PROVE MessagesInv'
  <2>1. /\ UNCHANGED <<area, typed, look, since, pkey>>
        /\ pc["pkey_recv"] = "copying" /\ pc'["pkey_recv"] = "prompt"
        /\ pc'["pkey_send"] = pc["pkey_send"]
        /\ shown' = 0 \/ (look.key = pkey["pkey_recv"] /\ shown' = look.text)
    BY <1>19, Named DEF ReadEnds, Goto, RunsOK, PcOK
  <2>2. NeverStale' BY <2>1 DEF MessagesInv, NeverStale, Proper
  <2>3. QED BY <2>1, <2>2 DEF MessagesInv, Proper
<1>20. ASSUME RecvLeaves PROVE MessagesInv'
  <2>1. /\ UNCHANGED <<typed, look, shown, since, pkey>>
        /\ pc'["pkey_send"] = pc["pkey_send"] /\ pc'["pkey_recv"] = "idle"
        /\ area' = [area EXCEPT ![seg] = Torn] /\ seg \in 1 .. Len(area)
    BY <1>20, Named DEF RecvLeaves, Goto, Return, RunsOK, PcOK, MessagesOK
  <2>2. Torn.text = -1 /\ Proper(Torn) BY DEF Torn, Proper
  <2>3. /\ area' # <<>> => area'[Len(area')].text \in {0, -1, typed'}
        /\ \A i \in 1 .. Len(area') : Proper(area'[i])
    BY <2>1, <2>2 DEF MessagesInv, MessagesOK, Proper
  <2>4. QED BY <2>1, <2>3 DEF MessagesInv, NeverStale, Proper
<1>21. ASSUME NEW p \in Programs, Killed(p) PROVE MessagesInv'
  <2>1. \A q \in Programs : pc'[q] = "idle" \/ pc'[q] = pc[q]
    BY <1>21 DEF Killed, Return, Goto, RunsOK, PcOK
  <2>2. QED BY <1>21, <2>1, Named, MessagesFrame DEF Killed, messageVars
<1>22. ASSUME Edit PROVE MessagesInv'
  BY <1>22, MessagesFrame DEF Edit, runVars, messageVars
<1>23. ASSUME Bundle PROVE MessagesInv'
  BY <1>23, MessagesFrame DEF Bundle, runVars, messageVars
<1>24. ASSUME UNCHANGED vars PROVE MessagesInv'
  BY <1>24, MessagesFrame DEF vars, messageVars, runVars
<1>25. QED BY <1>1, <1>2, <1>3, <1>4, <1>5, <1>6, <1>7, <1>8, <1>9, <1>10, <1>11, <1>12, <1>13, <1>14, <1>15, <1>16, <1>17, <1>18, <1>19, <1>20, <1>21, <1>22, <1>23, <1>24 DEF Next

-----------------------------------------------------------------------------
LEMMA InitOK == Init => TypeOK /\ KeysInv /\ CutOnlyByFault /\ SteadyInv /\ MessagesInv
<1> SUFFICES ASSUME Init PROVE TypeOK /\ KeysInv /\ CutOnlyByFault /\ SteadyInv /\ MessagesInv
  OBVIOUS
<1> USE KeyFilesAssumption DEF Init
<1>1. FilesOK BY DEF FilesOK
<1>2. PcOK BY Named DEF PcOK
<1>3. RunsOK
  <2>1. \A p \in Writers : at[p] \in 1 .. Len(Plan(p))
    BY PlanLengths DEF Programs
  <2>2. QED BY <1>2, <2>1 DEF RunsOK, None
<1>4. MessagesOK
  <2>1. area \in Seq(Messages) /\ Len(area) = 0 /\ look \in Messages
    BY DEF Messages, Blank, None
  <2>2. pc["pkey_send"] = "idle" /\ pc["pkey_recv"] = "idle" BY Named
  <2>3. name \in BOOLEAN /\ ~name OBVIOUS
  <2>4. /\ typed \in 0 .. MaxTexts /\ seg \in 0 .. Len(area)
        /\ shown \in Int /\ since \in Nat
    BY <2>1
  <2>5. QED BY <2>1, <2>2, <2>3, <2>4 DEF MessagesOK
<1>5. KeysInv BY Named DEF KeysInv, SavedAll, X509
<1>6. CutOnlyByFault BY DEF CutOnlyByFault
<1>7. SteadyInv BY Named DEF SteadyInv, SteadyVerdict, Busy, Writers, Generators
<1>8. MessagesInv BY Named DEF MessagesInv, NeverStale, Proper, Blank
<1>9. QED BY <1>1, <1>3, <1>4, <1>5, <1>6, <1>7, <1>8 DEF TypeOK

LEMMA TypeStep == TypeOK /\ [Next]_vars => TypeOK'
BY FilesStep, RunsStep, MessagesStep DEF TypeOK

(* Every variable keeps the values the code gives it, and the sender and   *)
(* the receiver never run without a segment (TypeOK).                      *)
THEOREM TypeCorrect == Spec => []TypeOK
<1>1. Init => TypeOK BY InitOK
<1>2. QED BY <1>1, TypeStep, PTL DEF Spec

(* generate_x509's exit code 0 means that the certificate and both halves  *)
(* of its key are in their files, however many earlier runs were cut short *)
(* (generate_x509.cpp l.26-41, SavedAll).                                  *)
THEOREM SavedIsAll == Spec => []SavedAll
<1>1. Init => KeysInv BY InitOK
<1>2. TypeOK /\ KeysInv /\ [Next]_vars => KeysInv' BY KeysStep
<1>3. KeysInv => SavedAll BY DEF KeysInv
<1>4. QED BY <1>1, <1>2, <1>3, TypeCorrect, PTL DEF Spec

(* Nothing that fails before the opening leaves a file cut                 *)
(* (CutOnlyByFault).                                                       *)
THEOREM WholeUnlessKilled == Spec => []CutOnlyByFault
<1>1. Init => CutOnlyByFault BY InitOK
<1>2. TypeOK /\ CutOnlyByFault /\ [Next]_vars => CutOnlyByFault' BY CutStep
<1>3. QED BY <1>1, <1>2, TypeCorrect, PTL DEF Spec

(* A verifier's answer is true of files nobody wrote meanwhile, whatever   *)
(* they hold (pkey_verfiy, verify_x509.cpp; SteadyVerdict).                *)
THEOREM VerdictHolds == Spec => []SteadyVerdict
<1>1. Init => SteadyInv BY InitOK
<1>2. TypeOK /\ SteadyInv /\ [Next]_vars => SteadyInv' BY SteadyStep
<1>3. SteadyInv => SteadyVerdict BY DEF SteadyInv
<1>4. QED BY <1>1, <1>2, <1>3, TypeCorrect, PTL DEF Spec

(* No message is shown after the sender blanked it, nor one made of two    *)
(* (pkey_send_message.cpp l.54, NeverStale).                               *)
THEOREM ShownIsCurrent == Spec => []NeverStale
<1>1. Init => MessagesInv BY InitOK
<1>2. TypeOK /\ MessagesInv /\ [Next]_vars => MessagesInv' BY MessagesInvStep
<1>3. MessagesInv => NeverStale BY DEF MessagesInv
<1>4. QED BY <1>1, <1>2, <1>3, TypeCorrect, PTL DEF Spec
=============================================================================
