------------------------------ MODULE KeyFiles ------------------------------
(***************************************************************************)
(* The programs of YH-120 to YH-123 that meet in files, and the two of     *)
(* YH-121 that also meet in a shared message: evp_generate_rsakey and      *)
(* generate_x509 write key files and a certificate, pkey_sign and          *)
(* pkey_verify a signature, verify_x509 and evp_readkey_file look at what  *)
(* was written, pkey_send_message and pkey_recv_message use one half of    *)
(* the key each.  Users start them when they like, several at a time, and  *)
(* each can be killed between any two of its calls.                        *)
(*                                                                         *)
(* A file is the sequence of the PEM blocks (or the signature) in it; one  *)
(* that is missing and one that was cut have nothing to read, <<>>.  Both  *)
(* halves of a key, and its certificate, are known by the key's number.    *)
(***************************************************************************)
EXTENDS Integers, Sequences

CONSTANTS
    MaxStarts,    \* programs started
    MaxEdits,     \* versions of the document; 0 is no document, or an empty one
    MaxTexts      \* messages typed into pkey_send_message

ASSUME KeyFilesAssumption ==
    MaxStarts \in Nat /\ MaxEdits \in Nat /\ MaxTexts \in Nat

Generators == {"generate_rsakey", "generate_x509"}
Writers == Generators \cup {"pkey_sign"}
Verifiers == {"pkey_verify", "verify_x509"}
Programs == Writers \cup Verifiers \cup {"evp_readkey_file", "pkey_send", "pkey_recv"}

KeyFiles == {"x509", "private", "public"}
Files == KeyFiles \cup {"signature"}

(* What each writer writes, in this order.                                 *)
Plan(p) == CASE p = "generate_rsakey" -> <<"private", "public">>
             [] p = "generate_x509"   -> <<"x509", "private", "public">>
             [] OTHER                 -> <<"signature">>

(* Only generate_x509's main looks at what the save functions return.      *)
ChecksSave(p) == p = "generate_x509"

None == 0         \* NULL: no key
Blank == [key |-> None, text |-> 0]   \* memset of the shared message
Torn == [key |-> None, text |-> -1]   \* anything else that is no message

VARIABLES
    file,       \* what is in each file
    document,   \* version of the document
    keys,       \* keys generated so far
    starts,
    pc,         \* of each program
    pkey,       \* its key
    md,         \* its digest of the document
    at,         \* index of the file it writes, in its plan
    result,     \* what its last run said: none, ok, bad, failed
    area,       \* the shared messages of the segments created so far
    name,       \* "MySharedMemory" names the last of them
    typed,      \* messages typed
    seg,        \* the segment pkey_recv_message has mapped
    look,       \* what its memcpy found at its start
    shown,      \* the message it printed last
    alone,      \* history: the last generator, if no other program wrote
                \* key files since its start
    steady,     \* history: verifiers since whose start nobody wrote
    cut,        \* history: files never written, or whose last writer was
                \* killed, failed (noticed or not) or lost its data at the close
    since       \* history: messages typed when the last memcpy began, if from
                \* the sender's segment

fileVars == <<file, document, keys, alone, steady, cut>>
runVars == <<starts, pc, pkey, md, at, result>>
messageVars == <<area, name, typed, seg, look, shown, since>>
vars == <<fileVars, runVars, messageVars>>

Init == /\ file = [f \in Files |-> <<>>]
        /\ document = 0 /\ keys = 0 /\ starts = 0
        /\ pc = [p \in Programs |-> "idle"]
        /\ pkey = [p \in Programs |-> None]
        /\ md = [p \in Programs |-> 0]
        /\ at = [p \in Programs |-> 1]
        /\ result = [p \in Programs |-> "none"]
        /\ area = <<>> /\ name = FALSE /\ typed = 0
        /\ seg = 0 /\ look = Blank /\ shown = 0
        /\ alone = "nobody" /\ steady = {} /\ cut = Files /\ since = 0

Goto(p, label) == pc' = [pc EXCEPT ![p] = label]
Return(p, rc) == Goto(p, "idle") /\ result' = [result EXCEPT ![p] = rc]

Start(p) == /\ pc[p] = "idle"
            /\ starts < MaxStarts
            /\ starts' = starts + 1

(* load_key: the first block of the file.                                  *)
Load(f) == IF file[f] = <<>> THEN None ELSE Head(file[f]).key

(* YH-122's, which reads a public key twice and keeps the second.          *)
LoadTwice(f) == IF Len(file[f]) < 2 THEN None ELSE file[f][2].key

-----------------------------------------------------------------------------
(* generators, and the files they and pkey_sign write                      *)

Busy(g) == pc[g] # "idle"

KeyMade(g) ==
    /\ keys' = keys + 1
    /\ pkey' = [pkey EXCEPT ![g] = keys']
    /\ at' = [at EXCEPT ![g] = 1]
    /\ Goto(g, "open")
    /\ result' = [result EXCEPT ![g] = "none"]
    /\ alone' = IF \E h \in Generators \ {g} : Busy(h) THEN "nobody" ELSE g
    /\ steady' = {}

NotMade(g) ==       \* the key or the certificate; no file was touched
    Return(g, "failed") /\ UNCHANGED <<keys, pkey, at, alone, steady>>

Generate(g) ==
    /\ g \in Generators /\ Start(g)
    /\ KeyMade(g) \/ NotMade(g)
    /\ UNCHANGED <<file, document, cut, md, messageVars>>

Target(p) == Plan(p)[at[p]]

AfterSaveUnchecked(p, rc) ==   \* mutant of AfterSave: as evp_generate_rsakey
    IF at[p] = Len(Plan(p)) THEN Return(p, "ok") /\ UNCHANGED at
    ELSE at' = [at EXCEPT ![p] = @ + 1] /\ Goto(p, "open") /\ UNCHANGED result

AfterSave(p, rc) ==
    LET failed == ChecksSave(p) /\ rc # 1
        last == at[p] = Len(Plan(p))
    IN  \/ failed /\ Return(p, "failed") /\ UNCHANGED at
        \/ ~failed /\ last /\ Return(p, "ok") /\ UNCHANGED at
        \/ /\ ~failed /\ ~last
           /\ at' = [at EXCEPT ![p] = @ + 1]
           /\ Goto(p, "open")
           /\ UNCHANGED result

OpenFile(p) ==      \* BIO_new_file(, "w") cuts the file, or fails
    /\ p \in Writers /\ pc[p] = "open"
    /\ \/ /\ file' = [file EXCEPT ![Target(p)] = <<>>]
          /\ Goto(p, "write")
          /\ UNCHANGED <<at, result>>
       \/ UNCHANGED file /\ AfterSave(p, 0)
    /\ UNCHANGED <<document, keys, alone, steady, cut, starts, pkey, md, messageVars>>

(* The write itself can fail, and leaves the file as the opening cut it.   *)
(* What was written lies in the stream's buffer until it is closed, and    *)
(* nobody looks at the result of that: a full disk is not noticed.         *)
WriteFile(p) ==
    /\ p \in Writers /\ pc[p] = "write"
    /\ \/ /\ file' = [file EXCEPT ![Target(p)] = <<[key |-> pkey[p], md |-> md[p]]>>]
          /\ cut' = cut \ {Target(p)}
          /\ AfterSave(p, 1)
       \/ /\ UNCHANGED file
          /\ cut' = cut \cup {Target(p)}
          /\ \E rc \in 0 .. 1 : AfterSave(p, rc)
    /\ UNCHANGED <<document, keys, alone, steady, starts, pkey, md, messageVars>>

-----------------------------------------------------------------------------
(* pkey_sign and pkey_verify                                               *)

SignOpensFirst ==   \* mutant of SignStart: the file is opened for writing first
    /\ Start("pkey_sign")
    /\ file' = [file EXCEPT !["signature"] = <<>>]
    /\ \/ Load("private") = None /\ Return("pkey_sign", "failed") /\ UNCHANGED pkey
       \/ /\ Load("private") # None
          /\ pkey' = [pkey EXCEPT !["pkey_sign"] = Load("private")]
          /\ Goto("pkey_sign", "digest")
          /\ UNCHANGED result
    /\ steady' = {}
    /\ UNCHANGED <<document, keys, alone, cut, md, at, messageVars>>

SignStart ==
    /\ Start("pkey_sign")
    /\ \/ Load("private") = None /\ Return("pkey_sign", "failed") /\ UNCHANGED pkey
       \/ /\ Load("private") # None
          /\ pkey' = [pkey EXCEPT !["pkey_sign"] = Load("private")]
          /\ Goto("pkey_sign", "digest")
          /\ UNCHANGED result
    /\ steady' = {}
    /\ UNCHANGED <<file, document, keys, alone, cut, md, at, messageVars>>

Sign ==             \* EVP_PKEY_sign, into a buffer
    /\ pc["pkey_sign"] = "sign"
    /\ \/ Goto("pkey_sign", "open") /\ UNCHANGED result
       \/ Return("pkey_sign", "failed")
    /\ UNCHANGED <<fileVars, starts, pkey, md, at, messageVars>>

Loads(v, key) ==    \* a verifier's first look at a file
    /\ Start(v)
    /\ steady' = IF \E p \in Writers : Busy(p) THEN steady \ {v} ELSE steady \cup {v}
    /\ IF key = None
          THEN Return(v, "failed") /\ UNCHANGED pkey
          ELSE /\ pkey' = [pkey EXCEPT ![v] = key]
               /\ Goto(v, IF v = "pkey_verify" THEN "digest" ELSE "compare")
               /\ result' = [result EXCEPT ![v] = "none"]
    /\ UNCHANGED <<file, document, keys, alone, cut, md, at, messageVars>>

VerifyStart == Loads("pkey_verify", LoadTwice("public"))

DigestOfNothing(p) ==   \* mutant of LoadToMd: the read loop is not entered
    /\ pc[p] = "digest"
    /\ md' = [md EXCEPT ![p] = 0]
    /\ Goto(p, IF p = "pkey_sign" THEN "sign" ELSE "compare")
    /\ UNCHANGED <<fileVars, starts, pkey, at, result, messageVars>>

LoadToMd(p) ==      \* a document that is missing has the digest of an empty one
    /\ pc[p] = "digest"
    /\ md' = [md EXCEPT ![p] = document]
    /\ Goto(p, IF p = "pkey_sign" THEN "sign" ELSE "compare")
    /\ UNCHANGED <<fileVars, starts, pkey, at, result, messageVars>>

Verdict(v, match) == Return(v, IF match THEN "ok" ELSE "bad")

PkeyVerify ==
    /\ pc["pkey_verify"] = "compare"
    /\ \/ Verdict("pkey_verify",
             file["signature"] = <<[key |-> pkey["pkey_verify"], md |-> md["pkey_verify"]]>>)
       \/ Return("pkey_verify", "failed")      \* a library call failed
    /\ UNCHANGED <<fileVars, starts, pkey, md, at, messageVars>>

-----------------------------------------------------------------------------
(* verify_x509 and evp_readkey_file                                        *)

VerifyX509Start == Loads("verify_x509", Load("x509"))

VerifyX509 ==
    /\ pc["verify_x509"] = "compare"
    /\ IF Load("public") = None THEN Return("verify_x509", "failed")
       ELSE Verdict("verify_x509", pkey["verify_x509"] = Load("public"))
    /\ UNCHANGED <<fileVars, starts, pkey, md, at, messageVars>>

ReadKeyFile ==
    /\ Start("evp_readkey_file")
    /\ \E f \in {"private", "public"} :
          Return("evp_readkey_file", IF Load(f) = None THEN "failed" ELSE "ok")
    /\ UNCHANGED <<fileVars, pkey, md, at, messageVars>>

-----------------------------------------------------------------------------
(* pkey_send_message and pkey_recv_message                                 *)

Put(m) == area' = [area EXCEPT ![Len(area)] = m]

SendStart ==        \* exit() does not run remover: the name stays
    /\ Start("pkey_send")
    /\ area' = Append(area, Torn) /\ name' = TRUE
    /\ IF Load("public") = None
          THEN Return("pkey_send", "failed") /\ UNCHANGED pkey
          ELSE /\ pkey' = [pkey EXCEPT !["pkey_send"] = Load("public")]
               /\ Goto("pkey_send", "line")
               /\ UNCHANGED result
    /\ UNCHANGED <<fileVars, md, at, typed, seg, look, shown, since>>

TypeLineKeepsOld == \* mutant of TypeLine: the shared message is not blanked
    /\ pc["pkey_send"] = "line"
    /\ typed < MaxTexts
    /\ typed' = typed + 1
    /\ Goto("pkey_send", "encrypt")
    /\ UNCHANGED <<fileVars, starts, pkey, md, at, result, area, name, seg, look,
                   shown, since>>

TypeLine ==
    /\ pc["pkey_send"] = "line"
    /\ typed < MaxTexts
    /\ typed' = typed + 1
    /\ Put(Blank)
    /\ Goto("pkey_send", "encrypt")
    /\ UNCHANGED <<fileVars, starts, pkey, md, at, result, name, seg, look, shown,
                   since>>

(* A negative result (a text longer than the key takes) is a large         *)
(* msg_len: print_hash reads on until the process dies.                    *)
Encrypt ==
    /\ pc["pkey_send"] = "encrypt"
    /\ \/ Put(Torn) /\ Goto("pkey_send", "copy") /\ UNCHANGED result  \* memcpy begins
       \/ UNCHANGED <<area, result>> /\ Goto("pkey_send", "line")     \* 0
       \/ UNCHANGED area /\ Return("pkey_send", "failed")
    /\ UNCHANGED <<fileVars, starts, pkey, md, at, name, typed, seg, look, shown,
                   since>>

CopyEnds ==
    /\ pc["pkey_send"] = "copy"
    /\ Put([key |-> pkey["pkey_send"], text |-> typed])
    /\ Goto("pkey_send", "line")
    /\ UNCHANGED <<fileVars, starts, pkey, md, at, result, name, typed, seg, look,
                   shown, since>>

SendExit ==
    /\ pc["pkey_send"] = "line"
    /\ name' = FALSE
    /\ Return("pkey_send", "ok")
    /\ UNCHANGED <<fileVars, starts, pkey, md, at, area, typed, seg, look, shown,
                   since>>

RecvStart ==        \* one receiver for each segment
    /\ Start("pkey_recv")
    /\ name /\ seg < Len(area)
    /\ seg' = Len(area)
    /\ IF Load("private") = None
          THEN Return("pkey_recv", "failed") /\ UNCHANGED pkey
          ELSE /\ pkey' = [pkey EXCEPT !["pkey_recv"] = Load("private")]
               /\ Goto("pkey_recv", "prompt")
               /\ UNCHANGED result
    /\ UNCHANGED <<fileVars, md, at, area, name, typed, look, shown, since>>

ReadBegins ==
    /\ pc["pkey_recv"] = "prompt"
    /\ look' = area[seg]
    /\ since' = IF seg = Len(area) THEN typed ELSE 0
    /\ shown' = 0
    /\ Goto("pkey_recv", "copying")
    /\ UNCHANGED <<fileVars, starts, pkey, md, at, result, area, name, typed, seg>>

ReadEnds ==         \* a copy of two messages' parts is no message to pkey_decrypt
    /\ pc["pkey_recv"] = "copying"
    /\ shown' = IF look = area[seg] /\ look.key = pkey["pkey_recv"] THEN look.text ELSE 0
    /\ Goto("pkey_recv", "prompt")
    /\ UNCHANGED <<fileVars, starts, pkey, md, at, result, area, name, typed, seg,
                   look, since>>

RecvLeaves ==       \* deallocates the block: the segment's own data are in it now
    /\ pc["pkey_recv"] = "prompt"
    /\ area' = [area EXCEPT ![seg] = Torn]
    /\ Return("pkey_recv", "ok")
    /\ UNCHANGED <<fileVars, starts, pkey, md, at, name, typed, seg, look, shown,
                   since>>

-----------------------------------------------------------------------------
(* the users                                                               *)

Killed(p) ==
    /\ pc[p] # "idle"
    /\ Return(p, "failed")
    /\ cut' = IF pc[p] = "write" THEN cut \cup {Target(p)} ELSE cut
    /\ UNCHANGED <<file, document, keys, alone, steady, starts, pkey, md, at, messageVars>>

Edit ==             \* the document is written or deleted
    /\ document' \in 0 .. MaxEdits /\ document' # document
    /\ steady' = {}
    /\ UNCHANGED <<file, keys, alone, cut, runVars, messageVars>>

Bundle ==           \* a file with two public keys
    /\ Len(file["public"]) = 1
    /\ \E k \in 1 .. keys :
          file' = [file EXCEPT !["public"] = Append(@, [key |-> k, md |-> 0])]
    /\ alone' = "nobody" /\ steady' = {}
    /\ UNCHANGED <<document, keys, cut, runVars, messageVars>>

-----------------------------------------------------------------------------
Next == \/ \E g \in Generators : Generate(g)
        \/ \E p \in Writers : OpenFile(p) \/ WriteFile(p)
        \/ \E p \in {"pkey_sign", "pkey_verify"} : LoadToMd(p)
        \/ SignStart \/ Sign \/ VerifyStart \/ PkeyVerify
        \/ VerifyX509Start \/ VerifyX509 \/ ReadKeyFile
        \/ SendStart \/ TypeLine \/ Encrypt \/ CopyEnds \/ SendExit
        \/ RecvStart \/ ReadBegins \/ ReadEnds \/ RecvLeaves
        \/ \E p \in Programs : Killed(p)
        \/ Edit \/ Bundle

Spec == Init /\ [][Next]_vars

-----------------------------------------------------------------------------
Contents == [key : Nat, md : 0 .. MaxEdits]
Messages == [key : Nat, text : Int]

Labels(p) == CASE p \in Generators  -> {"idle", "open", "write"}
               [] p = "pkey_sign"   -> {"idle", "digest", "sign", "open", "write"}
               [] p = "pkey_verify" -> {"idle", "digest", "compare"}
               [] p = "verify_x509" -> {"idle", "compare"}
               [] p = "pkey_send"   -> {"idle", "line", "encrypt", "copy"}
               [] p = "pkey_recv"   -> {"idle", "prompt", "copying"}
               [] OTHER             -> {"idle"}

FilesOK == /\ file \in [Files -> Seq(Contents)]
           /\ document \in 0 .. MaxEdits
           /\ keys \in Nat
           /\ alone \in Generators \cup {"nobody"}
           /\ steady \subseteq Verifiers
           /\ cut \subseteq Files

PcOK == /\ pc \in [Programs -> {"idle", "open", "write", "digest", "sign", "compare",
                               "line", "encrypt", "copy", "prompt", "copying"}]
        /\ \A p \in Programs : pc[p] \in Labels(p)

RunsOK == /\ starts \in 0 .. MaxStarts
          /\ PcOK
          /\ pkey \in [Programs -> Nat]
          /\ md \in [Programs -> 0 .. MaxEdits]
          /\ at \in [Programs -> Nat] /\ \A p \in Writers : at[p] \in 1 .. Len(Plan(p))
          /\ result \in [Programs -> {"none", "ok", "bad", "failed"}]

MessagesOK == /\ area \in Seq(Messages)
              /\ name \in BOOLEAN /\ (name => area # <<>>)
              /\ typed \in 0 .. MaxTexts
              /\ seg \in 0 .. Len(area)
              /\ look \in Messages
              /\ shown \in Int /\ since \in Nat
              /\ pc["pkey_send"] # "idle" => area # <<>>
              /\ pc["pkey_recv"] # "idle" => seg # 0

TypeOK == FilesOK /\ RunsOK /\ MessagesOK

(* When generate_x509, with the files to itself, has ended well, the       *)
(* certificate and both halves are those of its key, whatever was left by  *)
(* earlier runs that were killed or failed (generate_x509.cpp l.26-41);    *)
(* except a file whose data were lost when it was closed.                  *)
SavedAll ==
    (alone = "generate_x509" /\ pc[alone] = "idle" /\ result[alone] = "ok")
    => \A f \in KeyFiles \ cut :
          file[f] = <<[key |-> pkey["generate_x509"], md |-> 0]>>

(* Nothing that fails before a file is opened for writing (no key or no    *)
(* document to load, no digest, no signature, no key generated, no file to *)
(* be opened) leaves a file cut that was whole, whatever the other writers *)
(* did meanwhile: pkey_sign opens its file when the signature is there     *)
(* (l.592), and save_pkey and save_x509_certificate theirs when there is   *)
(* something to save.  What fails after the opening leaves it cut: a kill, *)
(* a failed write, although generate_x509 notices it, and lost data.       *)
CutOnlyByFault ==
    \A f \in Files \ cut :
        file[f] = <<>> => \E p \in Writers : pc[p] = "write" /\ Target(p) = f

Match(v) ==
    IF v = "verify_x509"
       THEN Load("x509") # None /\ Load("x509") = Load("public")
       ELSE \E i \in DOMAIN file["public"] :
               file["signature"] = <<[key |-> file["public"][i].key, md |-> document]>>

(* What a verifier says is true of the files as they are, when nobody      *)
(* wrote since it was started: although it reads them one after the other, *)
(* and whatever was cut before (pkey_verfiy l.634-703, verify_x509.cpp     *)
(* l.15-32).  pkey_verify's "not match" is not claimed to be true.         *)
SteadyVerdict ==
    \A v \in steady :
        /\ result[v] = "ok" => Match(v)
        /\ (result[v] = "bad" /\ v = "verify_x509") => ~Match(v)

(* pkey_recv_message prints no message that was replaced before it looked, *)
(* and none put together from two: the sender blanks the old one before it *)
(* encrypts the next (pkey_send_message.cpp l.54, pkey_recv l.47-48).      *)
NeverStale == shown # 0 => shown >= since
=============================================================================
