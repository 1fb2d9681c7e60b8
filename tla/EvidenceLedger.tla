--------------------------- MODULE EvidenceLedger ---------------------------
(***************************************************************************)
(* The evidence ledger of one scenario run (ledger/store.py): a JSONL file *)
(* whose first line is the run manifest and whose later lines are rows,    *)
(* each naming the digest of the line before it, and a sidecar that names  *)
(* the digest of the last line.  Handles append under an advisory lock,    *)
(* readers take no lock, a process can crash between any two writes, and   *)
(* the file can be damaged behind everyone's back.                         *)
(*                                                                         *)
(* A line is its body and the digest it names.  A digest stands for what   *)
(* it was computed over, so it is the sequence of bodies up to its line; a *)
(* row_id is the number of that line and needs no field of its own.        *)
(***************************************************************************)
EXTENDS Naturals, Sequences, SequencesExt

CONSTANTS
    Handles,     \* store handles, one per process
    Outsiders,   \* those that ignore the lock and append to an open ledger
    Manifests,   \* row-zero manifests a run may be opened with
    Rows,        \* what a row may record
    MaxLines,    \* bound: lines of the file
    MaxCrash,    \* bound: crashes, and failed anchor writes
    MaxDamage,   \* bound: edits and truncations from outside
    Remaining    \* the lengths a truncation may leave

ASSUME BoundsAssumption ==
    MaxLines \in Nat \ {0} /\ MaxCrash \in Nat /\ MaxDamage \in Nat
ASSUME HandlesAssumption == Outsiders \subseteq Handles
ASSUME RemainingAssumption == Remaining \subseteq Nat

VARIABLES
    lines,       \* the ledger file; <<>> when missing or empty
    ended,       \* the last line decodes and ends in a newline
    anchor,      \* the .anchor file: a digest, <<>> when missing
    lock,        \* the handle that holds the advisory lock
    pc,          \* what each handle does next
    writing,     \* the line each handle writes: the digest it verified last,
                 \* and the row it was given
    pending,     \* the lines a reader has read, until it reads the anchor
    acked,       \* history: digests of the rows whose append returned
    seen,        \* history: what readers accepted
    outside,     \* history: an outsider has opened the ledger
    crashes, damages

file == <<lines, ended, anchor>>
handle == <<lock, pc, writing>>
history == <<acked, seen, outside, crashes, damages>>
vars == <<lines, ended, anchor, lock, pc, writing, pending, acked,
          seen, outside, crashes, damages>>

Body == Manifests \cup Rows
Line == [prev : Seq(Body), body : Body]
Digest(l) == Append(l.prev, l.body)
-----------------------------------------------------------------------------
(* Reading *)

\* _verify_chain: every line names the line before it.
Chained(ls) ==
    /\ ls[1].prev = <<>> /\ ls[1].body \in Manifests
    /\ \A i \in 2 .. Len(ls) : ls[i].prev = Digest(ls[i - 1])

\* _read_verified, for the lines and the anchor it read.
Verified_NoAnchor(ls, a) == ls # <<>> /\ Chained(ls)
Verified(ls, a) == ls # <<>> /\ Chained(ls) /\ a = Digest(Last(ls))

Readable == ended /\ Verified(lines, anchor)
Bodies(ls) == [i \in DOMAIN ls |-> ls[i].body]
-----------------------------------------------------------------------------
Init ==
    /\ lines = <<>> /\ ended = TRUE /\ anchor = <<>>
    /\ lock = {} /\ pc = [h \in Handles |-> "closed"]
    /\ writing = [h \in Handles |-> {}]
    /\ pending = {} /\ acked = {} /\ seen = {} /\ outside = FALSE
    /\ crashes = 0 /\ damages = 0

Locked(h) == h \in Outsiders \/ lock = {}
TakeLock(h) == lock' = IF h \in Outsiders THEN lock ELSE {h}

\* open() of a ledger with bytes: the same manifest, and the whole file holds.
OpenExisting(h, m) ==
    /\ pc[h] = "closed" /\ Locked(h)
    /\ Readable /\ lines[1].body = m
    /\ TakeLock(h)
    /\ pc' = [pc EXCEPT ![h] = "open"]
    /\ outside' = (outside \/ h \in Outsiders)
    /\ UNCHANGED <<file, writing, pending, acked, seen, crashes, damages>>

\* open() of a missing or empty ledger: row zero is about to be written.
OpenNew(h, m) ==
    /\ pc[h] = "closed" /\ h \notin Outsiders /\ lock = {}
    /\ lines = <<>>
    /\ lock' = {h}
    /\ pc' = [pc EXCEPT ![h] = "init"]
    /\ writing' = [writing EXCEPT ![h] = {[prev |-> <<>>, body |-> m]}]
    /\ UNCHANGED <<file, pending, history>>

\* _atomic_initialize: replace the file by the manifest line ...
InitManifest(h) ==
    /\ pc[h] = "init"
    /\ \E l \in writing[h] : lines' = <<l>>
    /\ ended' = TRUE
    /\ pc' = [pc EXCEPT ![h] = "init anchor"]
    /\ UNCHANGED <<anchor, lock, writing, pending, history>>

\* ... then write its anchor; open() verifies the result.
InitAnchor(h) ==
    /\ pc[h] = "init anchor"
    /\ \E l \in writing[h] : anchor' = Digest(l)
    /\ IF ended /\ Verified(lines, anchor')
       THEN pc' = [pc EXCEPT ![h] = "open"] /\ lock' = lock
       ELSE pc' = [pc EXCEPT ![h] = "closed"] /\ lock' = lock \ {h}
    /\ writing' = [writing EXCEPT ![h] = {}]
    /\ UNCHANGED <<lines, ended, pending, history>>

\* append(): verify all existing bytes, and remember the last line's digest.
AppendBegins(h, r) ==
    /\ pc[h] = "open" /\ Readable /\ Len(lines) < MaxLines
    /\ writing' = [writing EXCEPT ![h] =
                      {[prev |-> Digest(Last(lines)), body |-> r]}]
    /\ pc' = [pc EXCEPT ![h] = "write"]
    /\ UNCHANGED <<file, lock, pending, history>>

\* append(): the row goes to the end of the file, whatever is there now.
WriteLine(h) ==
    /\ pc[h] = "write"
    /\ \E l \in writing[h] :
          lines' = IF ended THEN Append(lines, l) ELSE lines
    /\ pc' = [pc EXCEPT ![h] = "anchor"]
    /\ UNCHANGED <<ended, anchor, lock, writing, pending, history>>

\* append(): the terminal anchor follows, and append returns.
WriteAnchor(h) ==
    /\ pc[h] = "anchor"
    /\ \E l \in writing[h] :
          /\ anchor' = Digest(l)
          /\ acked' = acked \cup {Digest(l)}
    /\ pc' = [pc EXCEPT ![h] = "open"]
    /\ writing' = [writing EXCEPT ![h] = {}]
    /\ UNCHANGED <<lines, ended, lock, pending, seen, outside, crashes,
                   damages>>

Close_KeepsLock(h) ==
    /\ pc[h] = "open"
    /\ pc' = [pc EXCEPT ![h] = "closed"]
    /\ UNCHANGED <<file, lock, writing, pending, history>>

Close(h) ==
    /\ pc[h] = "open"
    /\ pc' = [pc EXCEPT ![h] = "closed"]
    /\ lock' = lock \ {h}
    /\ UNCHANGED <<file, writing, pending, history>>
-----------------------------------------------------------------------------
(* read_ledger: the lines, then the anchor, without the lock *)

ReadLines ==
    /\ pending = {} /\ ended /\ lines # <<>> /\ Chained(lines)
    /\ pending' = {lines}
    /\ UNCHANGED <<file, handle, history>>

ReadAnchor ==
    /\ \E ls \in pending :
          seen' = IF Verified(ls, anchor) THEN seen \cup {Bodies(ls)} ELSE seen
    /\ pending' = {}
    /\ UNCHANGED <<file, handle, acked, outside, crashes, damages>>
-----------------------------------------------------------------------------
(* Failures *)

\* The process dies.  While it writes a row, part of the line may be left.
Crash(h) ==
    /\ pc[h] # "closed" /\ crashes < MaxCrash
    /\ \/ UNCHANGED <<lines, ended>>
       \/ /\ pc[h] = "write" /\ ended
          /\ \E l \in writing[h] : lines' = Append(lines, l)
          /\ ended' = FALSE
    /\ pc' = [pc EXCEPT ![h] = "closed"]
    /\ writing' = [writing EXCEPT ![h] = {}]
    /\ lock' = lock \ {h}
    /\ crashes' = crashes + 1
    /\ UNCHANGED <<anchor, pending, acked, seen, outside, damages>>

\* The anchor cannot be written: append raises, and the handle stays open.
AnchorFails(h) ==
    /\ pc[h] = "anchor" /\ crashes < MaxCrash
    /\ pc' = [pc EXCEPT ![h] = "open"]
    /\ writing' = [writing EXCEPT ![h] = {}]
    /\ crashes' = crashes + 1
    /\ UNCHANGED <<file, lock, pending, acked, seen, outside, damages>>

\* One line changes, and nothing is recomputed.
EditLine(i, b) ==
    /\ damages < MaxDamage /\ i \in DOMAIN lines /\ b # lines[i].body
    /\ lines' = [lines EXCEPT ![i].body = b]
    /\ damages' = damages + 1
    /\ UNCHANGED <<ended, anchor, handle, pending, acked, seen, outside,
                   crashes>>

\* The end of the file is lost.
Truncate(n) ==
    /\ damages < MaxDamage /\ n \in Remaining /\ n < Len(lines)
    /\ lines' = SubSeq(lines, 1, n)
    /\ ended' = TRUE
    /\ damages' = damages + 1
    /\ UNCHANGED <<anchor, handle, pending, acked, seen, outside,
                   crashes>>
-----------------------------------------------------------------------------
Next ==
    \/ \E h \in Handles :
          \/ \E m \in Manifests : OpenExisting(h, m) \/ OpenNew(h, m)
          \/ \E r \in Rows : AppendBegins(h, r)
          \/ InitManifest(h) \/ InitAnchor(h)
          \/ WriteLine(h) \/ WriteAnchor(h) \/ Close(h)
          \/ Crash(h) \/ AnchorFails(h)
    \/ ReadLines \/ ReadAnchor
    \/ \E i \in 1 .. MaxLines, b \in Body : EditLine(i, b)
    \/ \E n \in 0 .. MaxLines : Truncate(n)

Spec == Init /\ [][Next]_vars
-----------------------------------------------------------------------------
(* Properties *)

\* Every variable has its type, and the handles that honour the lock hold it
\* from open() to close(), one at a time.
TypeOK ==
    /\ lines \in Seq(Line) /\ ended \in BOOLEAN /\ anchor \in Seq(Body)
    /\ lock \in SUBSET (Handles \ Outsiders) /\ \A g, h \in lock : g = h
    /\ pc \in [Handles -> {"closed", "init", "init anchor", "open", "write",
                           "anchor"}]
    /\ \A h \in Handles \ Outsiders : h \in lock <=> pc[h] # "closed"
    /\ writing \in [Handles -> SUBSET Line]
    /\ pending \in SUBSET Seq(Line)
    /\ acked \in SUBSET Seq(Body) /\ seen \in SUBSET Seq(Body)
    /\ outside \in BOOLEAN
    /\ crashes \in 0 .. MaxCrash /\ damages \in 0 .. MaxDamage

\* A row whose append returned is in every ledger that reads without an error,
\* at its place and after the rows it followed: an edit or a truncation of
\* prior lines, a crash, or a writer outside the lock is detected, never served.
AckedRowsAreServed ==
    Readable /\ (damages = 0 \/ ~outside) =>
        \A s \in acked : IsPrefix(s, Bodies(lines))

\* What one reader accepted and what another accepts never disagree, although
\* a reader reads the lines and the anchor at two moments.
ReadersAgree ==
    damages = 0 \/ ~outside =>
        \A s, t \in seen \cup (IF Readable THEN {Bodies(lines)} ELSE {}) :
            IsPrefix(s, t) \/ IsPrefix(t, s)
=============================================================================
