---------------------------- MODULE FileRegister ----------------------------
(***************************************************************************)
(* What the file coordinator promises, without lanes, tickets or permits:  *)
(* every write is an atomic compare-and-replace of one file, every edit an *)
(* atomic read-modify-replace, and a call that fails changes nothing.  The *)
(* promise covers files that only the coordinator's tools have changed; a  *)
(* file another program (bash, an editor) has touched is "tampered", and   *)
(* for it only the kind of value a file can hold is promised.              *)
(***************************************************************************)
EXTENDS FileContents

CONSTANTS
    Threads, Paths,
    NoRequest,  \* no write or edit is under way in a thread
    None        \* no revision is expected

VARIABLES
    file,      \* file[p]: what is on disk
    tampered,  \* paths changed by something else than the coordinator
    request    \* request[t]: the write or edit t has asked for

registerVars == <<file, tampered, request>>

WriteRequest == [op : {"write"}, path : Paths, expected : Disk \cup {None}, new : Contents]
EditRequest == [op : {"edit"}, path : Paths, edits : Seq(ReplaceEdit)]

RegisterInit ==
    /\ file \in [Paths -> Disk]
    /\ tampered = {}
    /\ request = [t \in Threads |-> NoRequest]

Submit(t) ==
    /\ request[t] = NoRequest
    /\ request'[t] \in WriteRequest \cup EditRequest
    /\ request' = [request EXCEPT ![t] = request'[t]]
    /\ UNCHANGED <<file, tampered>>

\* What a successful call leaves in a file only the coordinator changes.
Effect(r, before) ==
    IF r.op = "write" THEN r.new ELSE ApplyEdits(before, r.edits)

Permitted(r, before) ==
    IF r.op = "write" THEN before = r.expected
    ELSE before # Absent /\ EditOutcome(before, r.edits) = "ok"

Succeed(t) ==
    LET r == request[t] IN
    /\ r # NoRequest
    /\ \/ /\ r.path \notin tampered
          /\ Permitted(r, file[r.path])
          /\ file' = [file EXCEPT ![r.path] = Effect(r, @)]
       \/ /\ r.path \in tampered
          /\ \E c \in Contents : file' = [file EXCEPT ![r.path] = c]
    /\ request' = [request EXCEPT ![t] = NoRequest]
    /\ UNCHANGED tampered

Fail(t) ==
    /\ request[t] # NoRequest
    /\ request' = [request EXCEPT ![t] = NoRequest]
    /\ UNCHANGED <<file, tampered>>

Tamper(p) ==
    /\ \E c \in Disk : file' = [file EXCEPT ![p] = c]
    /\ tampered' = tampered \cup {p}
    /\ UNCHANGED request

RegisterNext ==
    \/ \E t \in Threads : Submit(t) \/ Succeed(t) \/ Fail(t)
    \/ \E p \in Paths : Tamper(p)

RegisterSpec == RegisterInit /\ [][RegisterNext]_registerVars

=============================================================================
