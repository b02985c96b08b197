--------------------------- MODULE EvidenceStore ---------------------------
(***************************************************************************)
(* LocalContentAddressedStore of evidence_store.py, as the attempts of the *)
(* submission service use it: an attempt stores the payload of its event   *)
(* and then logs the event, and an attempt that timed out goes on beside   *)
(* the one that retries it.                                                *)
(*                                                                         *)
(* A payload is written to a temporary file, which is then renamed.  Both  *)
(* names are of the payload, so attempts for one event share them.  A file *)
(* that is renamed while another attempt has it open is still written to:  *)
(* an inode has the name of the attempt that created it.                   *)
(***************************************************************************)
EXTENDS Naturals, Sequences, FiniteSets

CONSTANTS Events,     \* events, each with a payload of its own
          Attempts,   \* runs of commit_fn
          EventOf,    \* the event of each
          None

(* What a file can be: cut short, as written, or changed by hand.          *)
Contents == {"torn", "whole", "edited", "forged"}

ASSUME StoreAssumption ==
    /\ EventOf \in [Attempts -> Events]
    /\ \A e \in Events : \E a \in Attempts : EventOf[a] = e
    /\ None \notin Attempts \cup Contents

VARIABLES
    attempt,    \* what each attempt is at
    tmp, path,  \* event -> the inode of its .tmp file, of its file
    content,    \* inode -> "torn", "whole"; "edited", "forged" by hand
    log,        \* the events query_event_history() returns
    crashed,    \* has the machine stopped?
    \* history
    shared,     \* events whose temporary file two attempts had open
    cut,        \* events an attempt was writing the payload of, and never finished
    emptied,    \* events whose file was emptied by a power failure
    altered     \* events whose file was changed by hand

svars == <<attempt, tmp, path, content, log, crashed, shared, cut, emptied, altered>>

NotStarted == [at |-> "idle", inode |-> None, undisturbed |-> TRUE]

StoreInit ==
    /\ attempt = [a \in Attempts |-> NotStarted]
    /\ tmp = [e \in Events |-> None]
    /\ path = [e \in Events |-> None]
    /\ content = [a \in Attempts |-> None]
    /\ log = {} /\ crashed = FALSE
    /\ shared = {} /\ cut = {} /\ emptied = {} /\ altered = {}

At(a, step) == attempt[a].at = step
GoTo(a, step) == attempt' = [attempt EXCEPT ![a].at = step]

(* What a reader of the event's file gets.                                 *)
Evidence(e) == IF path[e] = None THEN None ELSE content[path[e]]

-----------------------------------------------------------------------------
(* commit_fn: put_json, then log_security_event.                           *)

(* Mutation of StartAttempt: the event is logged first.                    *)
LogFirst(a) ==
    /\ At(a, "idle") /\ ~crashed
    /\ GoTo(a, "put")
    /\ log' = log \cup {EventOf[a]}
    /\ UNCHANGED <<tmp, path, content, crashed, shared, cut, emptied, altered>>

StartAttempt(a) ==
    /\ At(a, "idle") /\ ~crashed
    /\ GoTo(a, "put")
    /\ UNCHANGED <<tmp, path, content, log, crashed, shared, cut, emptied, altered>>

IsFile(a) ==
    /\ At(a, "put")
    /\ GoTo(a, IF path[EventOf[a]] # None THEN "log" ELSE "open")
    /\ UNCHANGED <<tmp, path, content, log, crashed, shared, cut, emptied, altered>>

(* Attempts that write to the inode now, apart from a.                     *)
Beside(a, inode) == {b \in Attempts \ {a} : At(b, "write") /\ attempt[b].inode = inode}

(* Mutation of OpenTemporary: the payload is written to its file directly. *)
OpenFile(a) ==
    LET e == EventOf[a]
    IN  /\ At(a, "open")
        /\ path' = [path EXCEPT ![e] = a]
        /\ content' = [content EXCEPT ![a] = "torn"]
        /\ attempt' = [attempt EXCEPT ![a].at = "write", ![a].inode = a]
        /\ tmp' = [tmp EXCEPT ![e] = a]
        /\ UNCHANGED <<log, crashed, shared, cut, emptied, altered>>

(* write_bytes: the file is truncated when it is opened ...                *)
OpenTemporary(a) ==
    LET e == EventOf[a]
        inode == IF tmp[e] = None THEN a ELSE tmp[e]
    IN  /\ At(a, "open")
        /\ tmp' = [tmp EXCEPT ![e] = inode]
        /\ content' = [content EXCEPT ![inode] = "torn"]
        /\ attempt' = [b \in Attempts |->
               IF b = a THEN [attempt[a] EXCEPT !.at = "write", !.inode = inode]
               ELSE IF b \in Beside(a, inode) THEN [attempt[b] EXCEPT !.undisturbed = FALSE]
               ELSE attempt[b]]
        /\ shared' = IF tmp[e] # None /\ \E b \in Attempts \ {a} :
                            EventOf[b] = e /\ attempt[b].at \in {"write", "replace"}
                     THEN shared \cup {e} ELSE shared
        /\ UNCHANGED <<path, log, crashed, cut, emptied, altered>>

(* ... and has everything at the end, unless it was truncated in between.  *)
WriteTemporary(a) ==
    LET f == attempt[a].inode
    IN  /\ At(a, "write")
        /\ \E c \in IF attempt[a].undisturbed \/ content[f] = "whole" THEN {"whole"}
                    ELSE {"torn", "whole"} :
              content' = [content EXCEPT ![f] = c]
        /\ GoTo(a, "replace")
        /\ UNCHANGED <<tmp, path, log, crashed, shared, cut, emptied, altered>>

(* The second rename of one temporary file raises FileNotFoundError.       *)
Replace(a) ==
    LET e == EventOf[a]
    IN  /\ At(a, "replace")
        /\ IF tmp[e] = None
           THEN GoTo(a, "raised") /\ UNCHANGED <<tmp, path>>
           ELSE /\ path' = [path EXCEPT ![e] = tmp[e]]
                /\ tmp' = [tmp EXCEPT ![e] = None]
                /\ GoTo(a, "log")
        /\ UNCHANGED <<content, log, crashed, shared, cut, emptied, altered>>

LogEvent(a) ==
    /\ At(a, "log")
    /\ log' = log \cup {EventOf[a]}
    /\ GoTo(a, "done")
    /\ UNCHANGED <<tmp, path, content, crashed, shared, cut, emptied, altered>>

-----------------------------------------------------------------------------
(* Faults, and changes by hand.                                            *)

Writing == {a \in Attempts : At(a, "write")}

(* The disk is full: write_bytes raises.                                   *)
WriteFails(a) ==
    /\ At(a, "write")
    /\ GoTo(a, "raised")
    /\ cut' = cut \cup {EventOf[a]}
    /\ UNCHANGED <<tmp, path, content, log, crashed, shared, emptied, altered>>

(* A file system keeps names and contents apart: after a power failure a   *)
(* renamed file may be empty (nothing calls fsync).  The ledger is what    *)
(* it was; MockLedger has what a crash does to it.                         *)
Crash ==
    /\ ~crashed /\ crashed' = TRUE
    /\ \E empty \in SUBSET Events :
          /\ \A e \in empty : path[e] # None /\ content[path[e]] = "whole"
          /\ content' = [f \in Attempts |-> IF \E e \in empty : path[e] = f THEN "torn"
                                            ELSE content[f]]
          /\ emptied' = emptied \cup empty
    /\ attempt' = [a \in Attempts |-> IF attempt[a].at \in {"idle", "done", "raised"} THEN attempt[a]
                                      ELSE [attempt[a] EXCEPT !.at = "raised"]]
    /\ cut' = cut \cup {EventOf[a] : a \in Writing}
    /\ UNCHANGED <<tmp, path, log, shared, altered>>

Restart ==
    /\ crashed /\ \E a \in Attempts : At(a, "idle")
    /\ crashed' = FALSE
    /\ UNCHANGED <<attempt, tmp, path, content, log, shared, cut, emptied, altered>>

(* Somebody changes a payload, and may compute its own digest anew.        *)
Alter ==
    /\ \E e \in Events, c \in {"edited", "forged"} :
          /\ Evidence(e) = "whole" /\ \A a \in Writing : attempt[a].inode # path[e]
          /\ content' = [content EXCEPT ![path[e]] = c]
          /\ altered' = altered \cup {e}
    /\ UNCHANGED <<attempt, tmp, path, log, crashed, shared, cut, emptied>>

StoreStep(a) ==
    \/ StartAttempt(a) \/ IsFile(a) \/ OpenTemporary(a) \/ WriteTemporary(a)
    \/ Replace(a) \/ LogEvent(a) \/ WriteFails(a)

-----------------------------------------------------------------------------
(* Properties.                                                             *)

(* A logged event's evidence is in the store and whole, whatever attempts  *)
(* raise, are repeated or cut short.  The exceptions are files emptied by  *)
(* a power failure, and those two attempts had open at the same time: they *)
(* can be torn until both have written, and for good if one never does.    *)
(* Code: put, evidence_store.py:67-75, called before log_security_event.   *)
EvidenceIsWhole ==
    \A e \in log \ (altered \cup emptied) :
        (e \in shared => e \notin cut /\ \A a \in Writing : EventOf[a] # e)
            => Evidence(e) = "whole"
=============================================================================
