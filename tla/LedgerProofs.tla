---------------------------- MODULE LedgerProofs ----------------------------
(***************************************************************************)
(* Proofs about EvidenceLedger for every set of handles, manifests and     *)
(* rows, and about GrantLedger, the ledger of provider calls, for every    *)
(* set of runs and threads, all ceilings and all bounds.                   *)
(***************************************************************************)
EXTENDS EvidenceLedger, GrantLedger, FiniteSetTheorems, WellFoundedInduction, TLAPS

LEMMA LineFields ==
    /\ \A l \in Line : l.prev \in Seq(Body) /\ l.body \in Body
    /\ \A p \in Seq(Body), b \in Body : [prev |-> p, body |-> b] \in Line
    /\ \A l \in Line, b \in Body : [l EXCEPT !.body = b] \in Line
BY DEF Line

(* The digest a chained line has is the sequence of all bodies up to it.   *)
LEMMA ChainDigests ==
    ASSUME NEW ls \in Seq(Line), ls # <<>>, Chained(ls)
    PROVE  \A i \in 1 .. Len(ls) : Digest(ls[i]) = [j \in 1 .. i |-> ls[j].body]
<1> DEFINE Upto(i) == [j \in 1 .. i |-> ls[j].body]
           Bad == {i \in 1 .. Len(ls) : Digest(ls[i]) # Upto(i)}
<1>1. Len(ls) \in Nat /\ Len(ls) > 0 /\ DOMAIN ls = 1 .. Len(ls)
  OBVIOUS
<1>2. ASSUME Bad # {} PROVE FALSE
  <2>1. Bad \subseteq Nat
    BY <1>1
  <2>2. PICK k \in Bad : \A m \in Bad : ~ (<<m, k>> \in OpToRel(<, Nat))
    BY <1>2, <2>1, NatLessThanWellFounded, WFMin
  <2>3. k \in 1 .. Len(ls) /\ ls[k] \in Line /\ Digest(ls[k]) # Upto(k)
    <3>1. k \in 1 .. Len(ls) /\ Digest(ls[k]) # Upto(k)
      BY <2>2
    <3> QED BY <1>1, <3>1
  <2>4. CASE k = 1
    <3>1. Digest(ls[1]) = <<ls[1].body>>
      BY <2>3, <2>4 DEF Chained, Digest
    <3>2. Upto(1) = <<ls[1].body>>
      OBVIOUS
    <3> QED BY <2>3, <2>4, <3>1, <3>2
  <2>5. CASE k # 1
    <3>1. k - 1 \in 1 .. Len(ls) /\ k - 1 < k /\ k \in 2 .. Len(ls)
      BY <1>1, <2>3, <2>5
    <3>2. <<k - 1, k>> \in OpToRel(<, Nat)
      BY <2>3, <3>1 DEF OpToRel
    <3>3. Digest(ls[k - 1]) = Upto(k - 1)
      BY <2>2, <3>1, <3>2
    <3>4. Digest(ls[k]) = Append(Upto(k - 1), ls[k].body)
      BY <3>1, <3>3 DEF Chained, Digest
    <3>5. Append(Upto(k - 1), ls[k].body) = Upto(k)
      BY <2>3, <3>1
    <3> QED BY <2>3, <3>4, <3>5
  <2> QED BY <2>4, <2>5
<1> QED BY <1>2

LEMMA ChainDigest ==
    ASSUME NEW ls \in Seq(Line), ls # <<>>, Chained(ls)
    PROVE  Digest(Last(ls)) = Bodies(ls)
<1>1. Len(ls) \in 1 .. Len(ls) /\ DOMAIN ls = 1 .. Len(ls)
  <2>1. Len(ls) \in Nat /\ Len(ls) > 0
    OBVIOUS
  <2> QED BY <2>1
<1>2. Digest(ls[Len(ls)]) = [j \in 1 .. Len(ls) |-> ls[j].body]
  BY <1>1, ChainDigests
<1> QED BY <1>1, <1>2 DEF Last, Bodies

LEMMA BodiesType ==
    ASSUME NEW ls \in Seq(Line)
    PROVE  Bodies(ls) \in Seq(Body)
<1>1. DOMAIN ls = 1 .. Len(ls) /\ Len(ls) \in Nat
  OBVIOUS
<1>2. \A i \in 1 .. Len(ls) : ls[i] \in Line /\ ls[i].body \in Body
  BY <1>1, LineFields
<1> QED BY <1>1, <1>2 DEF Bodies

LEMMA DigestType ==
    ASSUME NEW l \in Line
    PROVE  Digest(l) \in Seq(Body) /\ Digest(l) # <<>>
BY DEF Digest, Line

LEMMA LastType ==
    ASSUME NEW ls \in Seq(Line), ls # <<>>
    PROVE  Last(ls) \in Line
BY DEF Last
-----------------------------------------------------------------------------
(* Type correctness *)

LEMMA TypeOKInit == Init => TypeOK
<1> SUFFICES ASSUME Init PROVE TypeOK
  OBVIOUS
<1>1. lines \in Seq(Line) /\ anchor \in Seq(Body)
  BY DEF Init
<1>2. /\ lock \in SUBSET (Handles \ Outsiders) /\ \A g, h \in lock : g = h
      /\ \A h \in Handles \ Outsiders : h \in lock <=> pc[h] # "closed"
      /\ pc \in [Handles -> {"closed", "init", "init anchor", "open", "write",
                             "anchor"}]
      /\ writing \in [Handles -> SUBSET Line]
  BY DEF Init
<1>3. /\ pending \in SUBSET Seq(Line) /\ ended \in BOOLEAN /\ outside \in BOOLEAN
      /\ acked \in SUBSET Seq(Body) /\ seen \in SUBSET Seq(Body)
  BY DEF Init
<1>4. crashes \in 0 .. MaxCrash /\ damages \in 0 .. MaxDamage
  <2>1. crashes = 0 /\ damages = 0
    BY DEF Init
  <2> QED BY <2>1, BoundsAssumption
<1> QED BY <1>1, <1>2, <1>3, <1>4 DEF TypeOK

LEMMA TypeOKStep == TypeOK /\ [Next]_vars => TypeOK'
<1> SUFFICES ASSUME TypeOK, [Next]_vars
             PROVE  TypeOK'
  OBVIOUS
<1> USE DEF file, handle, history
<1>l. lines \in Seq(Line) /\ writing \in [Handles -> SUBSET Line]
  BY DEF TypeOK
<1>c. /\ crashes \in 0 .. MaxCrash /\ MaxCrash \in Nat
      /\ damages \in 0 .. MaxDamage /\ MaxDamage \in Nat
  BY BoundsAssumption DEF TypeOK
<1>h. /\ lock \in SUBSET (Handles \ Outsiders) /\ \A g, k \in lock : g = k
      /\ \A k \in Handles \ Outsiders : k \in lock <=> pc[k] # "closed"
      /\ pc \in [Handles -> {"closed", "init", "init anchor", "open", "write",
                             "anchor"}]
      /\ writing \in [Handles -> SUBSET Line]
  BY DEF TypeOK
<1>s. /\ acked \in SUBSET Seq(Body) /\ seen \in SUBSET Seq(Body)
      /\ anchor \in Seq(Body) /\ pending \in SUBSET Seq(Line)
  BY DEF TypeOK
<1>1. ASSUME NEW h \in Handles, NEW m \in Manifests, OpenExisting(h, m)
      PROVE  TypeOK'
  BY <1>1 DEF TypeOK, OpenExisting, Locked, TakeLock
<1>2. ASSUME NEW h \in Handles, NEW m \in Manifests, OpenNew(h, m)
      PROVE  TypeOK'
  <2>1. [prev |-> <<>>, body |-> m] \in Line
    <3>1. <<>> \in Seq(Body) /\ m \in Body
      BY DEF Body
    <3> QED BY <3>1, LineFields
  <2> QED BY <1>2, <2>1 DEF TypeOK, OpenNew
<1>3. ASSUME NEW h \in Handles, NEW r \in Rows, AppendBegins(h, r)
      PROVE  TypeOK'
  <2>1. Last(lines) \in Line
    BY <1>l, <1>3, LastType DEF AppendBegins, Readable, Verified
  <2>2. [prev |-> Digest(Last(lines)), body |-> r] \in Line
    <3>1. Digest(Last(lines)) \in Seq(Body) /\ r \in Body
      BY <2>1, DigestType DEF Body
    <3> QED BY <3>1, LineFields
  <2> QED BY <1>3, <2>2 DEF TypeOK, AppendBegins
<1>4. ASSUME NEW h \in Handles, InitManifest(h) PROVE TypeOK'
  <2>1. lines' \in Seq(Line)
    <3>1. PICK l \in writing[h] : lines' = <<l>>
      BY <1>4 DEF InitManifest
    <3> QED BY <1>l, <3>1
  <2> QED BY <1>4, <2>1 DEF TypeOK, InitManifest
<1>5. ASSUME NEW h \in Handles, InitAnchor(h) PROVE TypeOK'
  <2>1. anchor' \in Seq(Body)
    BY <1>l, <1>5, DigestType DEF InitAnchor
  <2> QED BY <1>5, <2>1 DEF TypeOK, InitAnchor
<1>6. ASSUME NEW h \in Handles, WriteLine(h) PROVE TypeOK'
  <2>1. lines' \in Seq(Line)
    <3>1. PICK l \in writing[h] : lines' = IF ended THEN Append(lines, l) ELSE lines
      BY <1>6 DEF WriteLine
    <3> QED BY <1>l, <3>1
  <2> QED BY <1>6, <2>1 DEF TypeOK, WriteLine
<1>7. ASSUME NEW h \in Handles, WriteAnchor(h) PROVE TypeOK'
  <2>1. anchor' \in Seq(Body) /\ acked' \in SUBSET Seq(Body)
    BY <1>l, <1>s, <1>7, DigestType DEF WriteAnchor
  <2> QED BY <1>7, <2>1 DEF TypeOK, WriteAnchor
<1>8. ASSUME NEW h \in Handles, Close(h) PROVE TypeOK'
  BY <1>8 DEF TypeOK, Close
<1>9. ASSUME NEW h \in Handles, Crash(h) PROVE TypeOK'
  <2>1. lines' \in Seq(Line) /\ ended' \in BOOLEAN
    <3>1. CASE UNCHANGED <<lines, ended>>
      BY <3>1 DEF TypeOK
    <3>2. CASE ended' = FALSE /\ \E l \in writing[h] : lines' = Append(lines, l)
      <4>1. PICK l \in writing[h] : lines' = Append(lines, l)
        BY <3>2
      <4>2. lines' \in Seq(Line)
        BY <1>l, <4>1
      <4> QED BY <3>2, <4>2
    <3>3. \/ UNCHANGED <<lines, ended>>
          \/ ended' = FALSE /\ \E l \in writing[h] : lines' = Append(lines, l)
      BY <1>9 DEF Crash
    <3> QED BY <3>1, <3>2, <3>3
  <2>2. crashes' \in 0 .. MaxCrash
    BY <1>c, <1>9 DEF Crash
  <2>3. /\ pc' \in [Handles -> {"closed", "init", "init anchor", "open", "write",
                                "anchor"}]
        /\ writing' \in [Handles -> SUBSET Line]
        /\ lock' \in SUBSET (Handles \ Outsiders) /\ \A g, k \in lock' : g = k
        /\ \A k \in Handles \ Outsiders : k \in lock' <=> pc'[k] # "closed"
    BY <1>h, <1>9 DEF Crash
  <2> QED BY <1>9, <2>1, <2>2, <2>3 DEF TypeOK, Crash
<1>10. ASSUME NEW h \in Handles, AnchorFails(h) PROVE TypeOK'
  <2>1. crashes' \in 0 .. MaxCrash
    BY <1>c, <1>10 DEF AnchorFails
  <2>2. /\ pc' \in [Handles -> {"closed", "init", "init anchor", "open", "write",
                                "anchor"}]
        /\ \A k \in Handles \ Outsiders : k \in lock' <=> pc'[k] # "closed"
        /\ writing' \in [Handles -> SUBSET Line]
    BY <1>h, <1>10 DEF AnchorFails
  <2> QED BY <1>10, <2>1, <2>2 DEF TypeOK, AnchorFails
<1>11. CASE ReadLines
  BY <1>11 DEF TypeOK, ReadLines
<1>12. CASE ReadAnchor
  <2>1. seen' \in SUBSET Seq(Body)
    BY <1>s, <1>12, BodiesType DEF ReadAnchor
  <2> QED BY <1>12, <2>1 DEF TypeOK, ReadAnchor
<1>13. ASSUME NEW i \in 1 .. MaxLines, NEW b \in Body, EditLine(i, b)
       PROVE  TypeOK'
  <2>1. lines[i] \in Line /\ [lines[i] EXCEPT !.body = b] \in Line
    <3>1. lines[i] \in Line
      BY <1>l, <1>13 DEF EditLine
    <3> QED BY <3>1, LineFields
  <2>2. lines' \in Seq(Line)
    BY <1>l, <1>13, <2>1 DEF EditLine
  <2>3. damages' \in 0 .. MaxDamage
    BY <1>c, <1>13 DEF EditLine
  <2> QED BY <1>13, <2>2, <2>3 DEF TypeOK, EditLine
<1>14. ASSUME NEW n \in 0 .. MaxLines, Truncate(n) PROVE TypeOK'
  <2>1. lines' \in Seq(Line)
    <3>1. n \in Nat /\ n < Len(lines) /\ lines' = SubSeq(lines, 1, n)
      BY <1>c, <1>14 DEF Truncate
    <3> QED BY <1>l, <3>1
  <2>2. damages' \in 0 .. MaxDamage
    BY <1>c, <1>14 DEF Truncate
  <2> QED BY <1>14, <2>1, <2>2 DEF TypeOK, Truncate
<1>15. CASE UNCHANGED vars
  BY <1>15 DEF TypeOK, vars
<1> QED
  BY <1>1, <1>2, <1>3, <1>4, <1>5, <1>6, <1>7, <1>8, <1>9, <1>10, <1>11, <1>12,
     <1>13, <1>14, <1>15 DEF Next

(* The ledger, its anchor, the lock and the handles keep their types, and  *)
(* the lock has one holder, whatever crashes and damage occur.             *)
THEOREM TypeCorrect == Spec => []TypeOK
<1>1. Init => TypeOK
  BY TypeOKInit
<1>2. TypeOK /\ [Next]_vars => TypeOK'
  BY TypeOKStep
<1> QED BY <1>1, <1>2, PTL DEF Spec
-----------------------------------------------------------------------------
(* What a ledger that is never cut to nothing keeps                        *)

(* A ledger is begun by one writer under the lock: until it has an anchor  *)
(* no other handle is inside it, and nothing was acknowledged or accepted. *)
Founded ==
    /\ lines = <<>> =>
          anchor = <<>> /\ \A h \in Handles : pc[h] \in {"closed", "init"}
    /\ \A h \in Handles : pc[h] = "init" => lines = <<>>
    /\ \A h \in Handles : pc[h] \in {"init", "init anchor"} =>
          anchor = <<>> /\ h \notin Outsiders
    /\ anchor = <<>> =>
          /\ acked = {} /\ seen = {}
          /\ \A h \in Handles : pc[h] \in {"closed", "init", "init anchor"}

OneLineEach == \A h \in Handles : \A k, l \in writing[h] : k = l

OutsidersAway == \A h \in Outsiders : pc[h] = "closed"

\* The anchor is the digest of a history every promise is a prefix of.
AnchorKeepsPromises == \A s \in acked \cup seen : IsPrefix(s, anchor)

\* A row under way names the anchor it will replace.
WritesExtendAnchor ==
    \A h \in Handles :
        pc[h] \in {"write", "anchor"} => \A l \in writing[h] : l.prev = anchor

(* While every writer takes the lock, the anchor carries the history: what *)
(* an edit or a truncation does to the lines no longer matches it.         *)
Guarded == OutsidersAway /\ AnchorKeepsPromises /\ WritesExtendAnchor

\* What readers hold and what they accepted are beginnings of the file.
ReadersFollow ==
    /\ \A ls \in pending : IsPrefix(ls, lines)
    /\ \A s \in seen : IsPrefix(s, Bodies(lines))

\* The file has the line of every append that returned or is about to.
RowsAreKept ==
    /\ \A h \in Handles : pc[h] = "anchor" =>
          \A l \in writing[h] : \E i \in DOMAIN lines : lines[i] = l
    /\ \A s \in acked : \E i \in DOMAIN lines : Digest(lines[i]) = s

(* While nothing damages the file it only grows, whoever writes it, and    *)
(* once a line is cut short it never reads again.                          *)
Undamaged == ReadersFollow /\ (ended => RowsAreKept)

LedgerInv ==
    /\ Founded /\ OneLineEach
    /\ ~outside => Guarded
    /\ damages = 0 => Undamaged

LEMMA LongerThanNothing ==
    ASSUME NEW ls \in Seq(Line), NEW l \in Line
    PROVE  Append(ls, l) # <<>>
<1>1. Len(Append(ls, l)) = Len(ls) + 1 /\ Len(ls) \in Nat
  OBVIOUS
<1>2. Len(<<>>) = 0
  OBVIOUS
<1> QED BY <1>1, <1>2

LEMMA PrefixReflexive ==
    ASSUME NEW S, NEW s \in Seq(S)
    PROVE  IsPrefix(s, s)
BY DEF IsPrefix

LEMMA PrefixOfLonger ==
    ASSUME NEW S, NEW s \in Seq(S), NEW t \in Seq(S), NEW b \in S,
           IsPrefix(s, t)
    PROVE  IsPrefix(s, Append(t, b))
BY DEF IsPrefix

(* Two prefixes of one history never disagree.                             *)
LEMMA PrefixesComparable ==
    ASSUME NEW s \in Seq(Body), NEW t \in Seq(Body), NEW u \in Seq(Body),
           IsPrefix(s, u), IsPrefix(t, u)
    PROVE  IsPrefix(s, t) \/ IsPrefix(t, s)
<1>1. /\ Len(s) \in Nat /\ Len(t) \in Nat
      /\ \A i \in 1 .. Len(s) : s[i] = u[i]
      /\ \A i \in 1 .. Len(t) : t[i] = u[i]
  BY DEF IsPrefix
<1>2. CASE Len(s) <= Len(t)
  <2>1. s = SubSeq(t, 1, Len(s))
    BY <1>1, <1>2
  <2> QED BY <1>2, <2>1 DEF IsPrefix
<1>3. CASE Len(t) <= Len(s)
  <2>1. t = SubSeq(s, 1, Len(t))
    BY <1>1, <1>3
  <2> QED BY <1>3, <2>1 DEF IsPrefix
<1> QED BY <1>1, <1>2, <1>3

LEMMA BodiesOfLonger ==
    ASSUME NEW ls \in Seq(Line), NEW l \in Line
    PROVE  Bodies(Append(ls, l)) = Append(Bodies(ls), l.body) /\ l.body \in Body
<1>1. Bodies(ls) \in Seq(Body) /\ l.body \in Body /\ Len(Bodies(ls)) = Len(ls)
  BY BodiesType, LineFields DEF Bodies
<1>2. Append(ls, l) \in Seq(Line) /\ DOMAIN Append(ls, l) = 1 .. Len(ls) + 1
  OBVIOUS
<1>3. Bodies(Append(ls, l)) = [i \in 1 .. Len(ls) + 1 |-> Append(ls, l)[i].body]
  BY <1>2 DEF Bodies
<1>4. \A i \in 1 .. Len(ls) + 1 :
          Append(ls, l)[i].body = Append(Bodies(ls), l.body)[i]
  BY <1>1 DEF Bodies
<1>5. DOMAIN Append(Bodies(ls), l.body) = 1 .. Len(ls) + 1
  BY <1>1
<1>6. Append(Bodies(ls), l.body) = [i \in 1 .. Len(ls) + 1 |->
                                       Append(Bodies(ls), l.body)[i]]
  BY <1>1, <1>5
<1> QED BY <1>1, <1>3, <1>4, <1>6

LEMMA BodiesOfPrefix ==
    ASSUME NEW ls \in Seq(Line), NEW ms \in Seq(Line), IsPrefix(ls, ms)
    PROVE  IsPrefix(Bodies(ls), Bodies(ms))
<1>1. /\ Bodies(ls) \in Seq(Body) /\ Len(Bodies(ls)) = Len(ls)
      /\ Bodies(ms) \in Seq(Body) /\ Len(Bodies(ms)) = Len(ms)
  BY BodiesType DEF Bodies
<1>2. Len(ls) <= Len(ms) /\ \A i \in 1 .. Len(ls) : ls[i] = ms[i]
  BY DEF IsPrefix
<1>3. \A i \in 1 .. Len(ls) : Bodies(ls)[i] = Bodies(ms)[i]
  BY <1>2 DEF Bodies
<1> QED BY <1>1, <1>2, <1>3 DEF IsPrefix

(* The anchor of a ledger that verifies names the bodies of its lines.     *)
LEMMA VerifiedBodies ==
    ASSUME NEW ls \in Seq(Line), Verified(ls, anchor)
    PROVE  anchor = Bodies(ls)
BY ChainDigest DEF Verified

(* Where nobody ignores the lock, one handle is inside the ledger.         *)
LEMMA OneAtWork ==
    ASSUME TypeOK, OutsidersAway,
           NEW g \in Handles, NEW h \in Handles,
           pc[g] # "closed", pc[h] # "closed"
    PROVE  g = h
BY DEF TypeOK, OutsidersAway

(* The handle that begins a ledger is inside it alone, outsiders or not.   *)
LEMMA FounderIsAlone ==
    ASSUME TypeOK, Founded, NEW h \in Handles, NEW g \in Handles,
           pc[h] \in {"init", "init anchor"}, g # h
    PROVE  pc[g] = "closed"
<1>1. pc[g] \in {"closed", "init", "init anchor"} /\ h \notin Outsiders
  BY DEF Founded
<1>2. pc[g] # "closed" => g \notin Outsiders
  BY <1>1 DEF Founded
<1> QED BY <1>1, <1>2 DEF TypeOK

LEMMA LedgerInvInit == Init => LedgerInv
<1> SUFFICES ASSUME Init PROVE LedgerInv
  OBVIOUS
<1>1. Founded /\ OneLineEach /\ Guarded
  BY HandlesAssumption
     DEF Init, Founded, OneLineEach, Guarded, OutsidersAway,
         AnchorKeepsPromises, WritesExtendAnchor
<1>2. Undamaged
  BY DEF Init, Undamaged, ReadersFollow, RowsAreKept
<1> QED BY <1>1, <1>2 DEF LedgerInv

(* A line of a chained file names a beginning of what the file holds.      *)
LEMMA ChainedLineServes ==
    ASSUME NEW ls \in Seq(Line), ls # <<>>, Chained(ls), NEW i \in DOMAIN ls
    PROVE  IsPrefix(Digest(ls[i]), Bodies(ls))
<1>1. i \in 1 .. Len(ls) /\ Len(ls) \in Nat
  OBVIOUS
<1>2. Digest(ls[i]) = [j \in 1 .. i |-> ls[j].body]
  BY <1>1, ChainDigests
<1>3. Bodies(ls) \in Seq(Body) /\ Len(Bodies(ls)) = Len(ls)
      /\ \A j \in 1 .. Len(ls) : Bodies(ls)[j] = ls[j].body
  BY BodiesType DEF Bodies
<1>4. \A j \in 1 .. i : ls[j].body \in Body
  BY <1>1, LineFields
<1>5. Digest(ls[i]) \in Seq(Body) /\ Len(Digest(ls[i])) = i
  BY <1>1, <1>2, <1>4
<1> QED BY <1>1, <1>2, <1>3, <1>5 DEF IsPrefix

LEMMA FoundedStep ==
    ASSUME TypeOK, Founded, OneLineEach, [Next]_vars, 0 \notin Remaining
    PROVE  Founded' /\ OneLineEach'
<1> USE DEF file, handle, history
<1>p. /\ pc \in [Handles -> {"closed", "init", "init anchor", "open", "write",
                             "anchor"}]
      /\ writing \in [Handles -> SUBSET Line]
  BY DEF TypeOK
<1>s. anchor \in Seq(Body) /\ lines \in Seq(Line) /\ pending \in SUBSET Seq(Line)
  BY DEF TypeOK
<1>1. ASSUME NEW h \in Handles, NEW m \in Manifests, OpenExisting(h, m)
      PROVE  Founded' /\ OneLineEach'
  <2>1. lines # <<>> /\ anchor # <<>>
    BY <1>1, <1>s, LastType, DigestType DEF OpenExisting, Readable, Verified
  <2> QED BY <1>1, <1>p, <2>1 DEF OpenExisting, Founded, OneLineEach
<1>2. ASSUME NEW h \in Handles, NEW m \in Manifests, OpenNew(h, m)
      PROVE  Founded' /\ OneLineEach'
  BY <1>2, <1>p DEF OpenNew, Founded, OneLineEach
<1>3. ASSUME NEW h \in Handles, NEW r \in Rows, AppendBegins(h, r)
      PROVE  Founded' /\ OneLineEach'
  <2>1. lines # <<>> /\ anchor # <<>>
    BY <1>3, <1>s, LastType, DigestType DEF AppendBegins, Readable, Verified
  <2> QED BY <1>3, <1>p, <2>1 DEF AppendBegins, Founded, OneLineEach
<1>4. ASSUME NEW h \in Handles, InitManifest(h) PROVE Founded' /\ OneLineEach'
  <2>1. lines = <<>> /\ anchor = <<>> /\ pc[h] = "init" /\ h \notin Outsiders
    BY <1>4 DEF InitManifest, Founded
  <2>2. PICK l \in writing[h] : lines' = <<l>>
    BY <1>4 DEF InitManifest
  <2>3. lines' # <<>>
    BY <2>2
  <2>4. \A g \in Handles : g # h => pc[g] = "closed"
    BY <2>1, FounderIsAlone
  <2> QED BY <1>4, <1>p, <2>1, <2>3, <2>4 DEF InitManifest, Founded, OneLineEach
<1>5. ASSUME NEW h \in Handles, InitAnchor(h) PROVE Founded' /\ OneLineEach'
  <2>1. pc[h] = "init anchor" /\ lines # <<>>
    BY <1>5 DEF InitAnchor, Founded
  <2>2. \A g \in Handles : g # h => pc[g] = "closed"
    BY <2>1, FounderIsAlone
  <2>3. anchor' # <<>>
    BY <1>5, <1>p, DigestType DEF InitAnchor
  <2>4. \A g \in Handles : pc'[g] \in {"open", "closed"}
    BY <1>5, <1>p, <2>2 DEF InitAnchor
  <2> QED BY <1>5, <1>p, <2>1, <2>3, <2>4 DEF InitAnchor, Founded, OneLineEach
<1>6. ASSUME NEW h \in Handles, WriteLine(h) PROVE Founded' /\ OneLineEach'
  <2>1. lines # <<>> /\ anchor # <<>> /\ pc[h] = "write"
    BY <1>6 DEF WriteLine, Founded
  <2>2. PICK l \in writing[h] : lines' = IF ended THEN Append(lines, l) ELSE lines
    BY <1>6 DEF WriteLine
  <2>3. lines' # <<>>
    <3>1. CASE ended
      BY <3>1, <1>p, <1>s, <2>2, LongerThanNothing
    <3>2. CASE ~ended
      BY <3>2, <2>1, <2>2
    <3> QED BY <3>1, <3>2
  <2> QED BY <1>6, <1>p, <2>1, <2>3 DEF WriteLine, Founded, OneLineEach
<1>7. ASSUME NEW h \in Handles, WriteAnchor(h) PROVE Founded' /\ OneLineEach'
  <2>1. lines # <<>> /\ pc[h] = "anchor"
    BY <1>7 DEF WriteAnchor, Founded
  <2>2. anchor' # <<>>
    BY <1>7, <1>p, DigestType DEF WriteAnchor
  <2>3. \A g \in Handles : pc[g] \notin {"init", "init anchor"}
    BY <1>7, <2>1, FounderIsAlone
  <2> QED BY <1>7, <1>p, <2>1, <2>2, <2>3 DEF WriteAnchor, Founded, OneLineEach
<1>8. ASSUME NEW h \in Handles, Close(h) PROVE Founded' /\ OneLineEach'
  BY <1>8, <1>p DEF Close, Founded, OneLineEach
<1>9. ASSUME NEW h \in Handles, Crash(h) PROVE Founded' /\ OneLineEach'
  <2>1. /\ lines # <<>> => lines' # <<>>
        /\ lines = <<>> => pc[h] = "init"
        /\ pc[h] = "init" => UNCHANGED lines
    <3>1. CASE UNCHANGED lines
      BY <1>9, <3>1 DEF Founded, Crash
    <3>2. CASE pc[h] = "write" /\ \E l \in writing[h] : lines' = Append(lines, l)
      <4>1. PICK l \in writing[h] : lines' = Append(lines, l)
        BY <3>2
      <4> QED BY <1>p, <1>s, <3>2, <4>1, LongerThanNothing DEF Founded
    <3> QED BY <1>9, <3>1, <3>2 DEF Crash
  <2>2. /\ pc' = [pc EXCEPT ![h] = "closed"]
        /\ writing' = [writing EXCEPT ![h] = {}]
        /\ UNCHANGED <<anchor, acked, seen>>
    BY <1>9 DEF Crash
  <2>3. \A g \in Handles : pc'[g] = "init" => g # h /\ pc[g] = "init"
    BY <1>p, <2>2
  <2>4. \A g \in Handles : pc[g] = "init" => lines' = <<>>
    <3> SUFFICES ASSUME NEW g \in Handles, pc[g] = "init" PROVE lines' = <<>>
      OBVIOUS
    <3>1. g = h
      BY <1>9, FounderIsAlone DEF Crash
    <3> QED BY <2>1, <3>1 DEF Founded
  <2> QED BY <1>p, <2>1, <2>2, <2>3, <2>4 DEF Founded, OneLineEach
<1>10. ASSUME NEW h \in Handles, AnchorFails(h) PROVE Founded' /\ OneLineEach'
  <2>1. lines # <<>> /\ anchor # <<>> /\ pc[h] = "anchor"
    BY <1>10 DEF AnchorFails, Founded
  <2> QED BY <1>10, <1>p, <2>1 DEF AnchorFails, Founded, OneLineEach
<1>11. CASE ReadLines
  BY <1>11 DEF ReadLines, Founded, OneLineEach
<1>12. CASE ReadAnchor
  <2>1. PICK ls \in pending :
            seen' = IF Verified(ls, anchor) THEN seen \cup {Bodies(ls)} ELSE seen
    BY <1>12 DEF ReadAnchor
  <2>2. anchor = <<>> => ~Verified(ls, anchor)
    BY <1>s, LastType, DigestType DEF Verified
  <2> QED BY <1>12, <2>1, <2>2 DEF ReadAnchor, Founded, OneLineEach
<1>13. ASSUME NEW i \in 1 .. MaxLines, NEW b \in Body, EditLine(i, b)
       PROVE  Founded' /\ OneLineEach'
  <2>1. i \in DOMAIN lines /\ lines' = [lines EXCEPT ![i].body = b]
    BY <1>13 DEF EditLine
  <2>2. lines # <<>> /\ lines' # <<>>
    BY <1>s, <2>1
  <2>3. \A g \in Handles : pc[g] # "init"
    BY <2>2 DEF Founded
  <2> QED BY <1>13, <2>2, <2>3 DEF EditLine, Founded, OneLineEach
<1>14. ASSUME NEW n \in 0 .. MaxLines, Truncate(n) PROVE Founded' /\ OneLineEach'
  <2>1. n > 0 /\ n \in Nat /\ n < Len(lines) /\ lines' = SubSeq(lines, 1, n)
    BY <1>14, RemainingAssumption DEF Truncate
  <2>2. lines # <<>> /\ lines' # <<>>
    BY <1>s, <2>1
  <2>3. \A g \in Handles : pc[g] # "init"
    BY <2>2 DEF Founded
  <2> QED BY <1>14, <2>2, <2>3 DEF Truncate, Founded, OneLineEach
<1>15. CASE UNCHANGED vars
  BY <1>15 DEF vars, Founded, OneLineEach
<1> QED
  BY <1>1, <1>2, <1>3, <1>4, <1>5, <1>6, <1>7, <1>8, <1>9, <1>10, <1>11, <1>12,
     <1>13, <1>14, <1>15 DEF Next

LEMMA GuardedStep ==
    ASSUME TypeOK, Founded, Guarded, [Next]_vars, ~outside'
    PROVE  Guarded'
<1> USE DEF Guarded, file, handle, history
<1>p. /\ pc \in [Handles -> {"closed", "init", "init anchor", "open", "write",
                             "anchor"}]
      /\ writing \in [Handles -> SUBSET Line]
  BY DEF TypeOK
<1>s. /\ acked \in SUBSET Seq(Body) /\ seen \in SUBSET Seq(Body)
      /\ anchor \in Seq(Body) /\ lines \in Seq(Line)
      /\ pending \in SUBSET Seq(Line)
  BY DEF TypeOK
<1>a. \A g \in Handles : pc[g] # "closed" => g \notin Outsiders
  BY DEF OutsidersAway
<1>b. \A g \in Outsiders : g \in Handles
  BY HandlesAssumption
<1>1. ASSUME NEW h \in Handles, NEW m \in Manifests, OpenExisting(h, m)
      PROVE  Guarded'
  BY <1>1, <1>p, <1>b
     DEF OpenExisting, OutsidersAway, AnchorKeepsPromises, WritesExtendAnchor
<1>2. ASSUME NEW h \in Handles, NEW m \in Manifests, OpenNew(h, m)
      PROVE  Guarded'
  BY <1>2, <1>p, <1>b
     DEF OpenNew, OutsidersAway, AnchorKeepsPromises, WritesExtendAnchor
<1>3. ASSUME NEW h \in Handles, NEW r \in Rows, AppendBegins(h, r)
      PROVE  Guarded'
  <2>1. pc[h] = "open" /\ anchor = Digest(Last(lines))
    BY <1>3 DEF AppendBegins, Readable, Verified
  <2>2. /\ pc' = [pc EXCEPT ![h] = "write"]
        /\ writing' = [writing EXCEPT ![h] = {[prev |-> anchor, body |-> r]}]
        /\ UNCHANGED <<anchor, acked, seen>>
    BY <1>3, <2>1 DEF AppendBegins
  <2>3. WritesExtendAnchor'
    <3> SUFFICES ASSUME NEW g \in Handles, pc'[g] \in {"write", "anchor"},
                        NEW l \in writing'[g]
                 PROVE  l.prev = anchor
      BY <2>2 DEF WritesExtendAnchor
    <3>1. CASE g = h
      <4>1. writing'[h] = {[prev |-> anchor, body |-> r]}
        BY <1>p, <2>2
      <4>2. l = [prev |-> anchor, body |-> r]
        BY <3>1, <4>1
      <4> QED BY <4>2
    <3>2. CASE g # h
      BY <3>2, <1>p, <2>2 DEF WritesExtendAnchor
    <3> QED BY <3>1, <3>2
  <2>4. OutsidersAway'
    BY <1>p, <1>a, <1>b, <2>1, <2>2 DEF OutsidersAway
  <2> QED BY <2>2, <2>3, <2>4 DEF AnchorKeepsPromises
<1>4. ASSUME NEW h \in Handles, InitManifest(h) PROVE Guarded'
  <2>1. pc[h] = "init"
    BY <1>4 DEF InitManifest
  <2> QED BY <1>4, <1>p, <1>a, <1>b, <2>1
      DEF InitManifest, OutsidersAway, AnchorKeepsPromises, WritesExtendAnchor
<1>5. ASSUME NEW h \in Handles, InitAnchor(h) PROVE Guarded'
  <2>1. /\ pc[h] = "init anchor" /\ h \notin Outsiders
        /\ acked = {} /\ seen = {}
    BY <1>5 DEF InitAnchor, Founded
  <2>2. \A g \in Handles : g # h => pc[g] = "closed"
    BY <2>1, FounderIsAlone
  <2>3. /\ \A g \in Handles : pc'[g] \in {"open", "closed"}
        /\ \A g \in Handles : g # h => pc'[g] = "closed"
        /\ UNCHANGED <<acked, seen>>
    BY <1>5, <1>p, <2>2 DEF InitAnchor
  <2> QED BY <1>b, <2>1, <2>3
      DEF OutsidersAway, AnchorKeepsPromises, WritesExtendAnchor
<1>6. ASSUME NEW h \in Handles, WriteLine(h) PROVE Guarded'
  <2>1. pc[h] = "write"
    BY <1>6 DEF WriteLine
  <2> QED BY <1>6, <1>p, <1>a, <1>b, <2>1
      DEF WriteLine, OutsidersAway, AnchorKeepsPromises, WritesExtendAnchor
<1>7. ASSUME NEW h \in Handles, WriteAnchor(h) PROVE Guarded'
  <2>1. PICK l \in writing[h] : anchor' = Digest(l) /\ acked' = acked \cup {Digest(l)}
    BY <1>7 DEF WriteAnchor
  <2>2. l \in Line /\ l.prev = anchor /\ l.body \in Body
    BY <1>7, <1>p, <2>1, LineFields DEF WriteAnchor, WritesExtendAnchor
  <2>3. anchor' = Append(anchor, l.body) /\ anchor' \in Seq(Body)
    BY <1>s, <2>1, <2>2, DigestType DEF Digest
  <2>4. pc[h] = "anchor" /\ UNCHANGED seen
    BY <1>7 DEF WriteAnchor
  <2>5. \A g \in Handles : g # h => pc[g] = "closed"
    BY <2>4, OneAtWork
  <2>6. /\ \A g \in Handles : pc'[g] \in {"open", "closed"}
        /\ \A g \in Handles : g # h => pc'[g] = "closed"
    BY <1>7, <1>p, <2>5 DEF WriteAnchor
  <2>7. AnchorKeepsPromises'
    <3> SUFFICES ASSUME NEW s \in acked' \cup seen'
                 PROVE  IsPrefix(s, anchor')
      BY DEF AnchorKeepsPromises
    <3>1. CASE s = anchor'
      BY <3>1, <2>3, PrefixReflexive
    <3>2. CASE s # anchor'
      <4>1. s \in acked \cup seen /\ s \in Seq(Body) /\ IsPrefix(s, anchor)
        BY <3>2, <2>1, <2>4, <1>s DEF AnchorKeepsPromises
      <4> QED BY <4>1, <2>2, <2>3, <1>s, PrefixOfLonger
    <3> QED BY <3>1, <3>2
  <2> QED BY <1>a, <1>b, <2>4, <2>6, <2>7 DEF OutsidersAway, WritesExtendAnchor
<1>8. ASSUME NEW h \in Handles, Close(h) PROVE Guarded'
  BY <1>8, <1>p, <1>b
     DEF Close, OutsidersAway, AnchorKeepsPromises, WritesExtendAnchor
<1>9. ASSUME NEW h \in Handles, Crash(h) PROVE Guarded'
  BY <1>9, <1>p, <1>b
     DEF Crash, OutsidersAway, AnchorKeepsPromises, WritesExtendAnchor
<1>10. ASSUME NEW h \in Handles, AnchorFails(h) PROVE Guarded'
  <2>1. pc[h] = "anchor"
    BY <1>10 DEF AnchorFails
  <2> QED BY <1>10, <1>p, <1>a, <1>b, <2>1
      DEF AnchorFails, OutsidersAway, AnchorKeepsPromises, WritesExtendAnchor
<1>11. CASE ReadLines
  BY <1>11 DEF ReadLines, OutsidersAway, AnchorKeepsPromises, WritesExtendAnchor
<1>12. CASE ReadAnchor
  <2>1. PICK ls \in pending :
            seen' = IF Verified(ls, anchor) THEN seen \cup {Bodies(ls)} ELSE seen
    BY <1>12 DEF ReadAnchor
  <2>2. UNCHANGED <<anchor, pc, writing, acked>>
    BY <1>12 DEF ReadAnchor
  <2>3. seen' \subseteq seen \cup {anchor}
    BY <1>s, <2>1, VerifiedBodies
  <2>4. IsPrefix(anchor, anchor)
    BY <1>s, PrefixReflexive
  <2> QED BY <2>2, <2>3, <2>4
      DEF OutsidersAway, AnchorKeepsPromises, WritesExtendAnchor
<1>13. ASSUME NEW i \in 1 .. MaxLines, NEW b \in Body, EditLine(i, b)
       PROVE  Guarded'
  BY <1>13 DEF EditLine, OutsidersAway, AnchorKeepsPromises, WritesExtendAnchor
<1>14. ASSUME NEW n \in 0 .. MaxLines, Truncate(n) PROVE Guarded'
  BY <1>14 DEF Truncate, OutsidersAway, AnchorKeepsPromises, WritesExtendAnchor
<1>15. CASE UNCHANGED vars
  BY <1>15 DEF vars, OutsidersAway, AnchorKeepsPromises, WritesExtendAnchor
<1> QED
  BY <1>1, <1>2, <1>3, <1>4, <1>5, <1>6, <1>7, <1>8, <1>9, <1>10, <1>11, <1>12,
     <1>13, <1>14, <1>15 DEF Next

(* What was read of a file is a beginning of it after it grew.             *)
LEMMA ReadersFollowGrowth ==
    ASSUME TypeOK, ReadersFollow, UNCHANGED <<pending, seen>>,
           UNCHANGED lines \/ \E l \in Line : lines' = Append(lines, l)
    PROVE  ReadersFollow'
<1>1. /\ lines \in Seq(Line) /\ pending \in SUBSET Seq(Line)
      /\ seen \in SUBSET Seq(Body)
  BY DEF TypeOK
<1>2. CASE UNCHANGED lines
  BY <1>2 DEF ReadersFollow, Bodies
<1>3. ASSUME NEW l \in Line, lines' = Append(lines, l)
      PROVE  ReadersFollow'
  <2>1. \A ls \in pending : IsPrefix(ls, lines')
    BY <1>1, <1>3, PrefixOfLonger DEF ReadersFollow
  <2>2. Bodies(lines') = Append(Bodies(lines), l.body) /\ l.body \in Body
    BY <1>1, <1>3, BodiesOfLonger
  <2>3. \A s \in seen : IsPrefix(s, Bodies(lines'))
    <3> SUFFICES ASSUME NEW s \in seen PROVE IsPrefix(s, Bodies(lines'))
      OBVIOUS
    <3>1. s \in Seq(Body) /\ IsPrefix(s, Bodies(lines))
      BY <1>1 DEF ReadersFollow
    <3>2. Bodies(lines) \in Seq(Body)
      BY <1>1, BodiesType
    <3> QED BY <2>2, <3>1, <3>2, PrefixOfLonger
  <2>4. Bodies(lines)' = Bodies(lines')
    BY DEF Bodies
  <2> QED BY <2>1, <2>3, <2>4 DEF ReadersFollow
<1> QED BY <1>2, <1>3

LEMMA HarmIsCounted == TypeOK => damages \in Nat /\ outside \in BOOLEAN
<1>1. MaxDamage \in Nat
  BY BoundsAssumption
<1>2. TypeOK => damages \in 0 .. MaxDamage /\ outside \in BOOLEAN
  BY DEF TypeOK
<1> QED BY <1>1, <1>2

LEMMA UndamagedStep ==
    ASSUME TypeOK, Founded, OneLineEach, Undamaged, [Next]_vars, damages' = 0
    PROVE  Undamaged'
<1> USE DEF Undamaged, file, handle, history
<1>p. /\ pc \in [Handles -> {"closed", "init", "init anchor", "open", "write",
                             "anchor"}]
      /\ writing \in [Handles -> SUBSET Line]
  BY DEF TypeOK
<1>s. /\ acked \in SUBSET Seq(Body) /\ seen \in SUBSET Seq(Body)
      /\ lines \in Seq(Line) /\ pending \in SUBSET Seq(Line)
      /\ ended \in BOOLEAN /\ damages \in Nat
  BY HarmIsCounted DEF TypeOK
<1>r. UNCHANGED <<lines, pending, seen>> => ReadersFollow'
  BY ReadersFollowGrowth
<1>1. ASSUME NEW h \in Handles, NEW m \in Manifests, OpenExisting(h, m)
      PROVE  Undamaged'
  BY <1>1, <1>p, <1>r DEF OpenExisting, RowsAreKept
<1>2. ASSUME NEW h \in Handles, NEW m \in Manifests, OpenNew(h, m)
      PROVE  Undamaged'
  BY <1>2, <1>p, <1>r DEF OpenNew, RowsAreKept
<1>3. ASSUME NEW h \in Handles, NEW r \in Rows, AppendBegins(h, r)
      PROVE  Undamaged'
  BY <1>3, <1>p, <1>r DEF AppendBegins, RowsAreKept
<1>4. ASSUME NEW h \in Handles, InitManifest(h) PROVE Undamaged'
  <2>1. lines = <<>> /\ anchor = <<>> /\ pc[h] = "init" /\ acked = {}
    BY <1>4 DEF InitManifest, Founded
  <2>2. PICK l \in writing[h] : lines' = <<l>>
    BY <1>4 DEF InitManifest
  <2>3. l \in Line /\ lines' = Append(lines, l)
    <3>1. Append(<<>>, l) = <<l>>
      OBVIOUS
    <3> QED BY <1>p, <2>1, <2>2, <3>1
  <2>4. ReadersFollow'
    BY <1>4, <2>3, ReadersFollowGrowth DEF InitManifest
  <2>5. \A g \in Handles : g # h => pc[g] = "closed"
    BY <2>1, FounderIsAlone
  <2>6. RowsAreKept'
    BY <1>4, <1>p, <2>1, <2>5 DEF InitManifest, RowsAreKept
  <2> QED BY <2>4, <2>6
<1>5. ASSUME NEW h \in Handles, InitAnchor(h) PROVE Undamaged'
  <2>1. pc' \in [Handles -> {"closed", "init", "init anchor", "open", "write",
                             "anchor"}]
        /\ \A g \in Handles : pc'[g] = "anchor" => pc[g] = "anchor" /\ g # h
    BY <1>5, <1>p DEF InitAnchor
  <2> QED BY <1>5, <1>p, <1>r, <2>1 DEF InitAnchor, RowsAreKept
<1>6. ASSUME NEW h \in Handles, WriteLine(h) PROVE Undamaged'
  <2>1. PICK l \in writing[h] : lines' = IF ended THEN Append(lines, l) ELSE lines
    BY <1>6 DEF WriteLine
  <2>2. l \in Line /\ \A k \in writing[h] : k = l
    BY <1>p, <2>1 DEF OneLineEach
  <2>3. /\ pc' = [pc EXCEPT ![h] = "anchor"]
        /\ UNCHANGED <<ended, writing, pending, seen, acked>>
    BY <1>6 DEF WriteLine
  <2>4. ReadersFollow'
    BY <2>1, <2>2, <2>3, ReadersFollowGrowth
  <2>5. ASSUME ended PROVE RowsAreKept'
    <3>1. lines' = Append(lines, l) /\ RowsAreKept
      BY <2>1, <2>5
    <3>2. /\ DOMAIN lines = 1 .. Len(lines) /\ Len(lines) \in Nat
          /\ DOMAIN lines' = 1 .. Len(lines) + 1
          /\ lines'[Len(lines) + 1] = l
          /\ \A i \in 1 .. Len(lines) : lines'[i] = lines[i]
      BY <1>s, <2>2, <3>1
    <3>3. DOMAIN lines \subseteq DOMAIN lines' /\ Len(lines) + 1 \in DOMAIN lines'
      BY <3>2
    <3>4. ASSUME NEW g \in Handles, pc'[g] = "anchor", NEW k \in writing[g]
          PROVE  \E i \in DOMAIN lines' : lines'[i] = k
      <4>1. CASE g = h
        BY <2>2, <3>2, <3>3, <3>4, <4>1
      <4>2. CASE g # h
        <5>1. pc[g] = "anchor"
          BY <1>p, <2>3, <3>4, <4>2
        <5>2. PICK i \in DOMAIN lines : lines[i] = k
          BY <3>1, <3>4, <5>1 DEF RowsAreKept
        <5> QED BY <3>2, <3>3, <5>2
      <4> QED BY <4>1, <4>2
    <3>5. ASSUME NEW s \in acked
          PROVE  \E i \in DOMAIN lines' : Digest(lines'[i]) = s
      <4>1. PICK i \in DOMAIN lines : Digest(lines[i]) = s
        BY <3>1 DEF RowsAreKept
      <4> QED BY <3>2, <3>3, <4>1
    <3> QED BY <2>3, <3>4, <3>5 DEF RowsAreKept, Digest
  <2> QED BY <2>3, <2>4, <2>5
<1>7. ASSUME NEW h \in Handles, WriteAnchor(h) PROVE Undamaged'
  <2>1. PICK l \in writing[h] : acked' = acked \cup {Digest(l)}
    BY <1>7 DEF WriteAnchor
  <2>2. /\ pc[h] = "anchor" /\ pc' = [pc EXCEPT ![h] = "open"]
        /\ writing' = [writing EXCEPT ![h] = {}]
        /\ UNCHANGED <<lines, ended, pending, seen>>
    BY <1>7 DEF WriteAnchor
  <2>3. ASSUME ended PROVE RowsAreKept'
    <3>1. PICK i \in DOMAIN lines : lines[i] = l
      BY <2>1, <2>2, <2>3 DEF RowsAreKept
    <3>2. \A s \in acked' : \E j \in DOMAIN lines : Digest(lines[j]) = s
      BY <2>1, <2>3, <3>1 DEF RowsAreKept
    <3>3. \A g \in Handles : pc'[g] = "anchor" =>
              pc[g] = "anchor" /\ writing'[g] = writing[g]
      BY <1>p, <2>2
    <3> QED BY <2>2, <2>3, <3>2, <3>3 DEF RowsAreKept, Digest
  <2> QED BY <1>r, <2>2, <2>3
<1>8. ASSUME NEW h \in Handles, Close(h) PROVE Undamaged'
  BY <1>8, <1>p, <1>r DEF Close, RowsAreKept
<1>9. ASSUME NEW h \in Handles, Crash(h) PROVE Undamaged'
  <2>1. /\ pc' = [pc EXCEPT ![h] = "closed"]
        /\ writing' = [writing EXCEPT ![h] = {}]
        /\ UNCHANGED <<pending, seen, acked>>
    BY <1>9 DEF Crash
  <2>2. \/ UNCHANGED <<lines, ended>>
        \/ ended' = FALSE /\ \E l \in Line : lines' = Append(lines, l)
    BY <1>9, <1>p DEF Crash
  <2>3. ReadersFollow'
    BY <2>1, <2>2, ReadersFollowGrowth
  <2>4. ASSUME ended', RowsAreKept, UNCHANGED lines PROVE RowsAreKept'
    <3>1. \A g \in Handles : pc'[g] = "anchor" =>
              pc[g] = "anchor" /\ writing'[g] = writing[g]
      BY <1>p, <2>1
    <3> QED BY <2>1, <2>4, <3>1 DEF RowsAreKept, Digest
  <2> QED BY <2>2, <2>3, <2>4
<1>10. ASSUME NEW h \in Handles, AnchorFails(h) PROVE Undamaged'
  BY <1>10, <1>p, <1>r DEF AnchorFails, RowsAreKept
<1>11. CASE ReadLines
  <2>1. pending' = {lines} /\ UNCHANGED <<lines, seen, ended, pc, writing, acked>>
    BY <1>11 DEF ReadLines
  <2>2. ReadersFollow'
    BY <1>s, <2>1, PrefixReflexive DEF ReadersFollow, Bodies
  <2> QED BY <2>1, <2>2 DEF RowsAreKept, Digest
<1>12. CASE ReadAnchor
  <2>1. PICK ls \in pending :
            seen' = IF Verified(ls, anchor) THEN seen \cup {Bodies(ls)} ELSE seen
    BY <1>12 DEF ReadAnchor
  <2>2. pending' = {} /\ UNCHANGED <<lines, ended, pc, writing, acked>>
    BY <1>12 DEF ReadAnchor
  <2>3. IsPrefix(Bodies(ls), Bodies(lines))
    BY <1>s, <2>1, BodiesOfPrefix DEF ReadersFollow
  <2>4. ReadersFollow'
    <3>1. \A s \in seen' : IsPrefix(s, Bodies(lines))
      BY <2>1, <2>3 DEF ReadersFollow
    <3> QED BY <2>2, <3>1 DEF ReadersFollow, Bodies
  <2> QED BY <2>2, <2>4 DEF RowsAreKept, Digest
<1>13. ASSUME NEW i \in 1 .. MaxLines, NEW b \in Body, EditLine(i, b)
       PROVE  FALSE
  BY <1>13, <1>s DEF EditLine
<1>14. ASSUME NEW n \in 0 .. MaxLines, Truncate(n) PROVE FALSE
  BY <1>14, <1>s DEF Truncate
<1>15. CASE UNCHANGED vars
  BY <1>15, <1>r DEF vars, RowsAreKept, Digest
<1> QED
  BY <1>1, <1>2, <1>3, <1>4, <1>5, <1>6, <1>7, <1>8, <1>9, <1>10, <1>11, <1>12,
     <1>13, <1>14, <1>15 DEF Next

(* Outside and damage only accumulate.                                     *)
LEMMA HarmAccumulates ==
    ASSUME TypeOK, [Next]_vars
    PROVE  /\ ~outside' => ~outside
           /\ damages' = 0 => damages = 0
<1> USE DEF file, handle, history
<1>1. damages \in Nat /\ outside \in BOOLEAN
  BY HarmIsCounted
<1>2. ASSUME NEW h \in Handles
      PROVE  /\ \/ \E m \in Manifests : OpenNew(h, m)
                \/ \E r \in Rows : AppendBegins(h, r)
                \/ InitManifest(h) \/ InitAnchor(h)
                \/ WriteLine(h) \/ WriteAnchor(h) \/ Close(h)
                \/ Crash(h) \/ AnchorFails(h)
                => UNCHANGED <<outside, damages>>
             /\ \A m \in Manifests : OpenExisting(h, m) =>
                    UNCHANGED damages /\ (outside => outside')
  BY DEF OpenNew, AppendBegins, InitManifest, InitAnchor, WriteLine, WriteAnchor,
         Close, Crash, AnchorFails, OpenExisting
<1>3. ReadLines \/ ReadAnchor \/ UNCHANGED vars => UNCHANGED <<outside, damages>>
  BY DEF ReadLines, ReadAnchor, vars
<1>4. \A i \in 1 .. MaxLines, b \in Body : EditLine(i, b) =>
          UNCHANGED outside /\ damages' = damages + 1
  BY DEF EditLine
<1>5. \A n \in 0 .. MaxLines : Truncate(n) =>
          UNCHANGED outside /\ damages' = damages + 1
  BY DEF Truncate
<1> QED BY <1>1, <1>2, <1>3, <1>4, <1>5 DEF Next

LEMMA LedgerInvStep ==
    ASSUME 0 \notin Remaining
    PROVE  TypeOK /\ LedgerInv /\ [Next]_vars => LedgerInv'
<1> SUFFICES ASSUME TypeOK, LedgerInv, [Next]_vars
             PROVE  LedgerInv'
  OBVIOUS
<1>1. Founded' /\ OneLineEach'
  BY FoundedStep DEF LedgerInv
<1>2. ~outside' => Guarded'
  BY HarmAccumulates, GuardedStep DEF LedgerInv
<1>3. damages' = 0 => Undamaged'
  BY HarmAccumulates, UndamagedStep DEF LedgerInv
<1> QED BY <1>1, <1>2, <1>3 DEF LedgerInv

(* Where the file is never cut to nothing, any number of crashes, failed   *)
(* writes and, while every writer takes the lock, edits and truncations,   *)
(* or any number of writers that ignore the lock while nothing damages the *)
(* file, leave an acknowledged row in every ledger that still reads        *)
(* without an error.                                                       *)
THEOREM AcknowledgedRowsAreServed ==
    ASSUME 0 \notin Remaining
    PROVE  Spec => []AckedRowsAreServed
<1>1. Init => TypeOK /\ LedgerInv
  BY TypeOKInit, LedgerInvInit
<1>2. TypeOK /\ LedgerInv /\ [Next]_vars => TypeOK' /\ LedgerInv'
  BY TypeOKStep, LedgerInvStep
<1>3. TypeOK /\ LedgerInv => AckedRowsAreServed
  <2> SUFFICES ASSUME TypeOK, LedgerInv, Readable, damages = 0 \/ ~outside,
                      NEW s \in acked
               PROVE  IsPrefix(s, Bodies(lines))
    BY DEF AckedRowsAreServed
  <2>1. lines \in Seq(Line) /\ lines # <<>> /\ Chained(lines) /\ ended
    BY DEF TypeOK, Readable, Verified
  <2>2. CASE ~outside
    <3>1. anchor = Bodies(lines)
      BY <2>1, VerifiedBodies DEF Readable
    <3> QED BY <2>2, <3>1 DEF LedgerInv, Guarded, AnchorKeepsPromises
  <2>3. CASE damages = 0
    <3>1. PICK i \in DOMAIN lines : Digest(lines[i]) = s
      BY <2>1, <2>3 DEF LedgerInv, Undamaged, RowsAreKept
    <3> QED BY <2>1, <3>1, ChainedLineServes
  <2> QED BY <2>2, <2>3
<1> QED BY <1>1, <1>2, <1>3, PTL DEF Spec

(* In the same circumstances what two readers accept, at any two moments,  *)
(* is one history or a beginning of it.                                    *)
THEOREM ReadersNeverDisagree ==
    ASSUME 0 \notin Remaining
    PROVE  Spec => []ReadersAgree
<1>1. Init => TypeOK /\ LedgerInv
  BY TypeOKInit, LedgerInvInit
<1>2. TypeOK /\ LedgerInv /\ [Next]_vars => TypeOK' /\ LedgerInv'
  BY TypeOKStep, LedgerInvStep
<1>3. TypeOK /\ LedgerInv => ReadersAgree
  <2> SUFFICES ASSUME TypeOK, LedgerInv, damages = 0 \/ ~outside,
                      NEW s \in seen \cup (IF Readable THEN {Bodies(lines)} ELSE {}),
                      NEW t \in seen \cup (IF Readable THEN {Bodies(lines)} ELSE {})
               PROVE  IsPrefix(s, t) \/ IsPrefix(t, s)
    BY DEF ReadersAgree
  <2>1. /\ anchor \in Seq(Body) /\ seen \in SUBSET Seq(Body) /\ lines \in Seq(Line)
        /\ Bodies(lines) \in Seq(Body)
    BY BodiesType DEF TypeOK
  <2>2. s \in Seq(Body) /\ t \in Seq(Body)
    BY <2>1
  <2>3. CASE ~outside
    <3>1. Readable => anchor = Bodies(lines) /\ IsPrefix(anchor, anchor)
      BY <2>1, VerifiedBodies, PrefixReflexive DEF Readable
    <3>2. IsPrefix(s, anchor) /\ IsPrefix(t, anchor)
      BY <2>3, <3>1 DEF LedgerInv, Guarded, AnchorKeepsPromises
    <3> QED BY <2>1, <2>2, <3>2, PrefixesComparable
  <2>4. CASE damages = 0
    <3>1. IsPrefix(Bodies(lines), Bodies(lines))
      BY <2>1, PrefixReflexive
    <3>2. IsPrefix(s, Bodies(lines)) /\ IsPrefix(t, Bodies(lines))
      BY <2>4, <3>1 DEF LedgerInv, Undamaged, ReadersFollow
    <3> QED BY <2>1, <2>2, <3>2, PrefixesComparable
  <2> QED BY <2>3, <2>4
<1> QED BY <1>1, <1>2, <1>3, PTL DEF Spec
-----------------------------------------------------------------------------
Busy(r, t) == thread[r][t].at # "idle"

(* Call numbers of a run that were started, that no thread has in hand and *)
(* that no row settles: the run has lost them.                             *)
Lost(r) == {i \in started[r] \ Completed(r) :
              \A t \in Threads : Busy(r, t) => thread[r][t].id # i}

(* Call numbers under which the provider was called for a grant.           *)
MadeUnder(r, g) ==
    {i \in CallId : \/ \E row \in SettledRows(r) : row.id = i /\ row.grant = g
                    \/ \E t \in Threads : /\ thread[r][t].at = "called"
                                          /\ thread[r][t].id = i
                                          /\ thread[r][t].grant = g}

RunInv(r) ==
    /\ process[r] # "up" => \A t \in Threads : ~Busy(r, t)
    /\ nextCall[r] <= handed + 1
    /\ current[r] # NoGrant => current[r] \in defined[r]
    /\ \A row \in SettledRows(r) : row.grant \in defined[r]
    /\ \A t \in Threads : Busy(r, t) =>
         /\ thread[r][t].id < nextCall[r]
         /\ thread[r][t].id \in reserved[r] /\ thread[r][t].grant \in defined[r]
         /\ thread[r][t].at # "reserved" => thread[r][t].id \in started[r]

(* A directory that one process only has used.                             *)
FirstUseInv(r) ==
    /\ process[r] = "none" =>
         reserved[r] = {} /\ settled[r] = <<>> /\ calls[r] = <<>>
    /\ \A i \in reserved[r] : i < nextCall[r]
    /\ \A t \in Threads : Busy(r, t) => thread[r][t].id \notin Completed(r)
    /\ \A i, j \in 1 .. Len(settled[r]) :
         settled[r][i].id = settled[r][j].id => i = j
    /\ Len(calls[r]) = Len(settled[r])
    /\ \A i \in 1 .. Len(settled[r]) : calls[r][i] = settled[r][i].id

NothingLostInv(r) ==
    Lost(r) = {} => \A g \in Grant : invoked[r][g] = Cardinality(MadeUnder(r, g))

GrantIInv ==
    /\ GrantTypeOK
    /\ \A r \in Runs : RunInv(r)
    /\ \A r \in Runs \ reopened : FirstUseInv(r) /\ NothingLostInv(r)
-----------------------------------------------------------------------------
(* A step of one run leaves every other run as it is. *)

Same(q) ==
    /\ process'[q] = process[q] /\ current'[q] = current[q]
    /\ nextCall'[q] = nextCall[q] /\ calls'[q] = calls[q]
    /\ thread'[q] = thread[q] /\ defined'[q] = defined[q]
    /\ reserved'[q] = reserved[q] /\ started'[q] = started[q]
    /\ settled'[q] = settled[q] /\ invoked'[q] = invoked[q]

LEMMA SameIsKept ==
    ASSUME NEW q, Same(q)
    PROVE  /\ SettledRows(q)' = SettledRows(q) /\ Completed(q)' = Completed(q)
           /\ FirstUseInv(q) => FirstUseInv(q)'
           /\ NothingLostInv(q) => NothingLostInv(q)'
           /\ RunInv(q) /\ handed \in Int /\ handed' \in Int /\ nextCall[q] \in Int
              /\ handed <= handed' => RunInv(q)'
<1>1. SettledRows(q)' = SettledRows(q) /\ Completed(q)' = Completed(q)
  BY DEF Same, SettledRows, Completed
<1>2. FirstUseInv(q) => FirstUseInv(q)'
  BY <1>1 DEF Same, FirstUseInv, Busy
<1>3. NothingLostInv(q) => NothingLostInv(q)'
  <2>1. Lost(q)' = Lost(q)
    BY <1>1 DEF Same, Lost, Busy
  <2>2. \A g : MadeUnder(q, g)' = MadeUnder(q, g)
    BY <1>1 DEF Same, MadeUnder
  <2> QED BY <2>1, <2>2 DEF NothingLostInv, Same
<1>4. RunInv(q) /\ handed \in Int /\ handed' \in Int /\ nextCall[q] \in Int
      /\ handed <= handed' => RunInv(q)'
  BY <1>1 DEF Same, RunInv, Busy
<1> QED BY <1>1, <1>2, <1>3, <1>4

OneRun(r) == \A q \in Runs \ {r} : Same(q)

LEMMA GrantIInvOneRun ==
    ASSUME GrantIInv, NEW r \in Runs, OneRun(r), GrantTypeOK', RunInv(r)',
           handed <= handed', reopened \subseteq reopened',
           r \notin reopened' => FirstUseInv(r)' /\ NothingLostInv(r)'
    PROVE  GrantIInv'
<1>1. handed \in Int /\ handed' \in Int /\ \A q \in Runs : nextCall[q] \in Int
  BY DEF GrantIInv, GrantTypeOK
<1>2. ASSUME NEW q \in Runs PROVE RunInv(q)'
  <2>1. CASE q = r
    BY <2>1
  <2>2. CASE q # r
    BY <1>1, <2>2, SameIsKept DEF GrantIInv, OneRun
  <2> QED BY <2>1, <2>2
<1>3. ASSUME NEW q \in Runs \ reopened'
      PROVE  FirstUseInv(q)' /\ NothingLostInv(q)'
  <2>1. CASE q = r
    BY <1>3, <2>1
  <2>2. CASE q # r
    <3>1. FirstUseInv(q) /\ NothingLostInv(q)
      BY DEF GrantIInv
    <3> QED BY <2>2, <3>1, SameIsKept DEF OneRun
  <2> QED BY <2>1, <2>2
<1> QED BY <1>2, <1>3 DEF GrantIInv

LEMMA GrantIInvInit == GrantInit => GrantIInv
<1> SUFFICES ASSUME GrantInit PROVE GrantIInv
  OBVIOUS
<1>0. MaxDispatch \in Nat /\ MaxCalls \in Seq(Nat) /\ Len(MaxCalls) \in Nat
  BY BoundAssumption, GrantsAssumption
<1>1. \A r \in Runs : SettledRows(r) = {} /\ Completed(r) = {}
  BY DEF GrantInit, SettledRows, Completed
<1>2. \A r \in Runs : \A t \in Threads : ~Busy(r, t) /\ thread[r][t].at = "idle"
  BY DEF GrantInit, Busy, Idle
<1>3. GrantTypeOK
  <2>1. thread \in [Runs -> [Threads -> [at : Place, id : CallId \cup {0},
                                         grant : Grant \cup {NoGrant}]]]
    BY DEF GrantInit, Idle, Place
  <2>2. invoked \in [Runs -> [Grant -> Nat]] /\ nextCall \in [Runs -> 1 .. MaxDispatch + 1]
    BY <1>0 DEF GrantInit
  <2>3. /\ process \in [Runs -> {"none", "up", "gone"}]
        /\ current \in [Runs -> Grant \cup {NoGrant}]
        /\ calls \in [Runs -> Seq(CallId)] /\ settled \in [Runs -> Seq(Row)]
        /\ torn \in [Runs -> BOOLEAN] /\ summary \in [Runs -> SUBSET Seq(CallId)]
        /\ defined \in [Runs -> SUBSET Grant]
        /\ reserved \in [Runs -> SUBSET CallId] /\ started \in [Runs -> SUBSET CallId]
    BY DEF GrantInit
  <2>4. reopened \subseteq Runs /\ handed \in 0 .. MaxDispatch
    BY <1>0 DEF GrantInit
  <2>5. \A r \in Runs :
          /\ Completed(r) \subseteq started[r] /\ started[r] \subseteq reserved[r]
          /\ \A t, u \in Threads :
              (/\ t # u /\ thread[r][t].at # "idle" /\ thread[r][u].at # "idle")
              => thread[r][t].id # thread[r][u].id
    BY <1>1, <1>2 DEF GrantInit
  <2> QED BY <2>1, <2>2, <2>3, <2>4, <2>5 DEF GrantTypeOK
<1>4. \A r \in Runs : RunInv(r) /\ FirstUseInv(r)
  BY <1>0, <1>1, <1>2 DEF GrantInit, RunInv, FirstUseInv, NoGrant
<1>5. ASSUME NEW r \in Runs PROVE NothingLostInv(r)
  <2>1. \A g : MadeUnder(r, g) = {}
    BY <1>1, <1>2 DEF MadeUnder
  <2> QED BY <2>1, FS_EmptySet DEF NothingLostInv, GrantInit
<1> QED BY <1>3, <1>4, <1>5 DEF GrantIInv
-----------------------------------------------------------------------------
(* The steps outside a dispatch. *)

LEMMA Types ==
    ASSUME GrantTypeOK
    PROVE  /\ MaxDispatch \in Nat /\ handed \in Int /\ CallId \subseteq Int
           /\ \A r \in Runs : nextCall[r] \in Int /\ nextCall[r] >= 1
           /\ \A r \in Runs, t \in Threads : thread[r][t].id \in Int
           /\ \A r \in Runs : /\ settled[r] \in Seq(Row) /\ calls[r] \in Seq(CallId)
                              /\ Len(settled[r]) \in Nat
                              /\ DOMAIN settled[r] = 1 .. Len(settled[r])
<1>1. \A r \in Runs : settled[r] \in Seq(Row) /\ calls[r] \in Seq(CallId)
  BY DEF GrantTypeOK
<1>2. MaxDispatch \in Nat /\ handed \in Int /\ CallId \subseteq Int
  BY BoundAssumption DEF GrantTypeOK, CallId
<1>3. \A r \in Runs : nextCall[r] \in Int /\ nextCall[r] >= 1
  BY <1>2 DEF GrantTypeOK
<1>4. \A r \in Runs, t \in Threads : thread[r][t].id \in Int
  <2> SUFFICES ASSUME NEW r \in Runs, NEW t \in Threads PROVE thread[r][t].id \in Int
    OBVIOUS
  <2>1. thread[r][t] \in [at : Place, id : CallId \cup {0}, grant : Grant \cup {NoGrant}]
    BY DEF GrantTypeOK
  <2>2. thread[r][t].id \in CallId \cup {0}
    BY <2>1
  <2> QED BY <1>2, <2>2 DEF CallId
<1> QED BY <1>1, <1>2, <1>3, <1>4

(* What RunInv, FirstUseInv and NothingLostInv say where the threads, the  *)
(* files and the history of a run stay as they are.                        *)
LEMMA QuietRun ==
    ASSUME NEW r, thread'[r] = thread[r], reserved'[r] = reserved[r],
           started'[r] = started[r], settled'[r] = settled[r],
           invoked'[r] = invoked[r]
    PROVE  /\ SettledRows(r)' = SettledRows(r) /\ Completed(r)' = Completed(r)
           /\ \A t \in Threads : Busy(r, t)' <=> Busy(r, t)
           /\ NothingLostInv(r) => NothingLostInv(r)'
<1>1. SettledRows(r)' = SettledRows(r) /\ Completed(r)' = Completed(r)
  BY DEF SettledRows, Completed
<1>2. \A t \in Threads : Busy(r, t)' <=> Busy(r, t)
  BY DEF Busy
<1>3. Lost(r)' = Lost(r)
  BY <1>1, <1>2 DEF Lost
<1>4. \A g : MadeUnder(r, g)' = MadeUnder(r, g)
  BY <1>1 DEF MadeUnder
<1> QED BY <1>1, <1>2, <1>3, <1>4 DEF NothingLostInv

LEMMA OpenStep ==
    ASSUME GrantIInv, NEW r \in Runs, Open(r)
    PROVE  GrantIInv'
<1> USE DEF files
<1>0. GrantTypeOK /\ RunInv(r) /\ (r \notin reopened => FirstUseInv(r) /\ NothingLostInv(r))
  BY DEF GrantIInv
<1>1. OneRun(r)
  BY <1>0 DEF Open, OneRun, Same, GrantTypeOK
<1>2. GrantTypeOK'
  <2>1. 1 \in 1 .. MaxDispatch + 1
    BY <1>0, Types
  <2>2. \A q \in Runs : Completed(q)' = Completed(q)
    BY DEF Open, Completed, SettledRows
  <2> QED BY <1>0, <2>1, <2>2 DEF Open, GrantTypeOK, NoGrant
<1>3. RunInv(r)' /\ handed <= handed' /\ reopened \subseteq reopened'
  <2>1. process'[r] = "up" /\ nextCall'[r] = 1 /\ current'[r] = NoGrant
    BY <1>0 DEF Open, GrantTypeOK
  <2>2. handed' = handed /\ handed \in Nat
    BY <1>0, BoundAssumption DEF Open, GrantTypeOK
  <2> QED BY <1>0, <2>1, <2>2, QuietRun DEF Open, RunInv
<1>4. ASSUME r \notin reopened' PROVE FirstUseInv(r)' /\ NothingLostInv(r)'
  <2>1. process[r] = "none" /\ r \notin reopened
    BY <1>0, <1>4 DEF Open, GrantTypeOK
  <2>2. /\ reserved'[r] = {} /\ settled'[r] = <<>> /\ calls'[r] = <<>>
    BY <1>0, <2>1 DEF Open, FirstUseInv, GrantTypeOK
  <2>3. Completed(r)' = {}
    BY <2>2 DEF Completed, SettledRows
  <2>4. FirstUseInv(r)'
    BY <2>2, <2>3 DEF FirstUseInv
  <2> QED BY <1>0, <2>1, <2>4, QuietRun DEF Open
<1> QED BY <1>1, <1>2, <1>3, <1>4, GrantIInvOneRun

LEMMA DefinesStep ==
    ASSUME GrantIInv, NEW r \in Runs, NEW g \in Grant, NEW D \in SUBSET Grant,
           g \in D, process[r] = "up",
           current' = [current EXCEPT ![r] = g],
           defined' = [defined EXCEPT ![r] = @ \cup D],
           UNCHANGED <<process, nextCall, calls, thread, reserved, started,
                       settled, torn, summary, counts>>
    PROVE  GrantIInv'
<1> USE DEF counts
<1>0. GrantTypeOK /\ RunInv(r) /\ (r \notin reopened => FirstUseInv(r) /\ NothingLostInv(r))
  BY DEF GrantIInv
<1>1. OneRun(r)
  BY <1>0 DEF OneRun, Same, GrantTypeOK
<1>2. \A q \in Runs : Completed(q)' = Completed(q)
  BY DEF Completed, SettledRows
<1>3. GrantTypeOK'
  BY <1>0, <1>2 DEF GrantTypeOK
<1>4. RunInv(r)' /\ handed <= handed' /\ reopened \subseteq reopened'
  <2>1. current'[r] = g /\ defined'[r] = defined[r] \cup D
    BY <1>0 DEF GrantTypeOK
  <2> QED BY <1>0, <2>1, QuietRun, Types DEF RunInv
<1>5. ASSUME r \notin reopened' PROVE FirstUseInv(r)' /\ NothingLostInv(r)'
  BY <1>0, <1>2, <1>5, QuietRun DEF FirstUseInv
<1> QED BY <1>1, <1>3, <1>4, <1>5, GrantIInvOneRun

LEMMA IssueStep ==
    ASSUME GrantIInv, NEW r \in Runs, Issue(r)
    PROVE  GrantIInv'
<1>1. 1 \in Grant
  BY GrantsAssumption DEF Grant
<1> QED BY <1>1, DefinesStep DEF Issue

LEMMA ExpandStep ==
    ASSUME GrantIInv, NEW r \in Runs, NEW g \in Grant, Expand(r, g)
    PROVE  GrantIInv'
<1>1. {current[r], g} \in SUBSET Grant
  BY DEF Expand, GrantIInv, GrantTypeOK
<1> QED BY <1>1, DefinesStep DEF Expand

LEMMA RefuseStep ==
    ASSUME GrantIInv, NEW r \in Runs, NEW t \in Threads, Refuse(r, t)
    PROVE  GrantIInv'
<1> USE DEF files
<1>0. GrantTypeOK /\ RunInv(r) /\ (r \notin reopened => FirstUseInv(r) /\ NothingLostInv(r))
  BY DEF GrantIInv
<1>n. /\ nextCall'[r] = nextCall[r] + 1 /\ handed' = handed + 1
      /\ nextCall[r] <= handed + 1 /\ handed < MaxDispatch
  BY <1>0 DEF Refuse, Dispatches, GrantTypeOK, RunInv
<1>1. OneRun(r)
  BY <1>0 DEF Refuse, Dispatches, OneRun, Same, GrantTypeOK
<1>2. \A q \in Runs : Completed(q)' = Completed(q)
  BY DEF Refuse, Completed, SettledRows
<1>3. GrantTypeOK'
  <2>1. nextCall' \in [Runs -> 1 .. MaxDispatch + 1] /\ handed' \in 0 .. MaxDispatch
    <3>1. nextCall[r] + 1 \in 1 .. MaxDispatch + 1 /\ handed + 1 \in 0 .. MaxDispatch
      BY <1>0, <1>n, BoundAssumption DEF GrantTypeOK
    <3> QED BY <1>0, <3>1 DEF Refuse, Dispatches, GrantTypeOK
  <2> QED BY <1>0, <1>2, <2>1 DEF Refuse, GrantTypeOK
<1>4. RunInv(r)' /\ handed <= handed' /\ reopened \subseteq reopened'
  BY <1>0, <1>n, QuietRun, Types DEF RunInv, Refuse
<1>5. ASSUME r \notin reopened' PROVE FirstUseInv(r)' /\ NothingLostInv(r)'
  <2>1. \A i \in reserved'[r] : i < nextCall'[r]
    <3>1. \A i \in reserved[r] : i \in Int
      BY <1>0, Types DEF GrantTypeOK
    <3> QED BY <1>0, <1>5, <1>n, <3>1, Types DEF FirstUseInv, Refuse
  <2> QED BY <1>0, <1>2, <1>5, <2>1, QuietRun DEF FirstUseInv, Refuse
<1> QED BY <1>1, <1>3, <1>4, <1>5, GrantIInvOneRun

LEMMA SummaryStep ==
    ASSUME GrantIInv, NEW r \in Runs, WriteSummary(r)
    PROVE  GrantIInv'
<1> USE DEF memory, counts
<1>0. GrantTypeOK /\ RunInv(r) /\ (r \notin reopened => FirstUseInv(r) /\ NothingLostInv(r))
  BY DEF GrantIInv
<1>1. \A q \in Runs : Same(q)
  BY DEF WriteSummary, Same
<1>2. \A q \in Runs : Completed(q)' = Completed(q)
  BY <1>1, SameIsKept
<1>3. GrantTypeOK'
  BY <1>0, <1>2 DEF WriteSummary, GrantTypeOK
<1>4. handed <= handed' /\ reopened' = reopened
  BY <1>0, Types DEF WriteSummary
<1> QED BY <1>0, <1>1, <1>3, <1>4, SameIsKept, Types, GrantIInvOneRun
        DEF OneRun, WriteSummary
-----------------------------------------------------------------------------
(* The steps of a dispatch. *)

ThreadType == [at : Place, id : CallId \cup {0}, grant : Grant \cup {NoGrant}]

(* The thread that moves, and the others of its run.                       *)
LEMMA ThreadMoves ==
    ASSUME GrantTypeOK, NEW r \in Runs, NEW t \in Threads, NEW v \in ThreadType,
           thread' = [thread EXCEPT ![r][t] = v]
    PROVE  /\ thread'[r][t] = v
           /\ \A u \in Threads : u # t => thread'[r][u] = thread[r][u]
           /\ \A q \in Runs : q # r => thread'[q] = thread[q]
           /\ thread' \in [Runs -> [Threads -> ThreadType]]
BY DEF GrantTypeOK, ThreadType

(* Threads of a run never hold the same call number.                       *)
DistinctIds(r) ==
    \A t, u \in Threads :
        (/\ t # u /\ thread[r][t].at # "idle" /\ thread[r][u].at # "idle")
        => thread[r][t].id # thread[r][u].id

LEMMA ReserveStep ==
    ASSUME GrantIInv, NEW r \in Runs, NEW t \in Threads, Reserve(r, t)
    PROVE  GrantIInv'
<1> DEFINE n == nextCall[r]
           v == [at |-> "reserved", id |-> n, grant |-> current[r]]
<1>0. GrantTypeOK /\ RunInv(r) /\ (r \notin reopened => FirstUseInv(r) /\ NothingLostInv(r))
  BY DEF GrantIInv
<1>n. /\ nextCall'[r] = n + 1 /\ handed' = handed + 1 /\ n \in CallId
      /\ n <= handed + 1 /\ handed < MaxDispatch /\ current[r] \in Grant
      /\ nextCall' \in [Runs -> 1 .. MaxDispatch + 1] /\ handed' \in 0 .. MaxDispatch
  <2>1. n <= handed + 1 /\ handed < MaxDispatch /\ n \in 1 .. MaxDispatch + 1
        /\ handed \in 0 .. MaxDispatch /\ MaxDispatch \in Nat
    BY <1>0, BoundAssumption DEF Reserve, Dispatches, GrantTypeOK, RunInv
  <2>2. n \in CallId /\ n + 1 \in 1 .. MaxDispatch + 1 /\ handed + 1 \in 0 .. MaxDispatch
    BY <2>1 DEF CallId
  <2>3. current[r] \in Grant
    BY <1>0 DEF Reserve, Dispatches, GrantTypeOK, NoGrant
  <2> QED BY <1>0, <2>1, <2>2, <2>3 DEF Reserve, Dispatches, GrantTypeOK
<1>v. v \in ThreadType /\ thread' = [thread EXCEPT ![r][t] = v]
  BY <1>n DEF ThreadType, Place, Reserve
<1>t. /\ thread'[r][t] = v /\ thread[r][t].at = "idle"
      /\ \A u \in Threads : u # t => thread'[r][u] = thread[r][u]
      /\ \A q \in Runs : q # r => thread'[q] = thread[q]
      /\ thread' \in [Runs -> [Threads -> ThreadType]]
  <2>1. thread[r][t].at = "idle"
    BY DEF Reserve, Dispatches
  <2> HIDE DEF v
  <2> QED BY <1>0, <1>v, <2>1, ThreadMoves
<1>r. /\ reserved'[r] = reserved[r] \cup {n}
      /\ \A q \in Runs : reserved[q] \subseteq reserved'[q]
      /\ reserved' \in [Runs -> SUBSET CallId]
  BY <1>0, <1>n DEF Reserve, GrantTypeOK
<1>1. OneRun(r)
  BY <1>0, <1>t DEF Reserve, Dispatches, OneRun, Same, GrantTypeOK
<1>2. \A q \in Runs : Completed(q)' = Completed(q) /\ SettledRows(q)' = SettledRows(q)
  BY DEF Reserve, Completed, SettledRows
<1>i. \A u \in Threads : Busy(r, u) => /\ thread[r][u].id < n /\ thread[r][u].id \in Int
                                        /\ thread[r][u].id # n
  BY <1>0, Types DEF RunInv
<1>3. GrantTypeOK'
  <2>1. \A q \in Runs : DistinctIds(q)'
    <3>1. DistinctIds(r)'
      <4>1. DistinctIds(r)
        BY <1>0 DEF DistinctIds, GrantTypeOK
      <4> QED BY <1>t, <1>i, <4>1 DEF DistinctIds, Busy
    <3>2. \A q \in Runs : q # r => DistinctIds(q)'
      BY <1>0, <1>t DEF DistinctIds, GrantTypeOK
    <3> QED BY <3>1, <3>2
  <2> QED BY <1>0, <1>n, <1>t, <1>r, <1>2, <2>1
          DEF Reserve, GrantTypeOK, DistinctIds, ThreadType
<1>4. RunInv(r)' /\ handed <= handed' /\ reopened \subseteq reopened'
  <2>1. \A u \in Threads : Busy(r, u)' => thread'[r][u].id < nextCall'[r]
    BY <1>t, <1>i, <1>n, <1>0, Types DEF Busy
  <2>2. \A u \in Threads : Busy(r, u)' =>
          /\ thread'[r][u].id \in reserved'[r] /\ thread'[r][u].grant \in defined'[r]
          /\ thread'[r][u].at # "reserved" => thread'[r][u].id \in started'[r]
    BY <1>0, <1>n, <1>t, <1>r DEF RunInv, Busy, Reserve, Dispatches
  <2>3. process'[r] = "up" /\ nextCall'[r] <= handed' + 1 /\ handed <= handed'
    BY <1>0, <1>n, Types DEF Reserve, Dispatches
  <2> QED BY <1>0, <1>2, <2>1, <2>2, <2>3 DEF RunInv, Reserve
<1>5. ASSUME r \notin reopened' PROVE FirstUseInv(r)' /\ NothingLostInv(r)'
  <2>0. FirstUseInv(r) /\ NothingLostInv(r)
    BY <1>0, <1>5 DEF Reserve
  <2>1. \A i \in reserved'[r] : i < nextCall'[r]
    <3>1. \A i \in reserved[r] : i \in Int
      BY <1>0, Types DEF GrantTypeOK
    <3> QED BY <1>0, <1>n, <1>r, <2>0, <3>1, Types DEF FirstUseInv
  <2>2. n \notin reserved[r] /\ n \notin started[r] /\ n \notin Completed(r)
    <3>1. n \notin reserved[r]
      BY <1>0, <2>0, Types DEF FirstUseInv
    <3> QED BY <1>0, <3>1 DEF GrantTypeOK
  <2>3. \A u \in Threads : Busy(r, u)' => thread'[r][u].id \notin Completed(r)'
    BY <1>t, <1>2, <2>0, <2>2 DEF FirstUseInv, Busy
  <2>4. FirstUseInv(r)'
    BY <1>2, <2>0, <2>1, <2>3 DEF FirstUseInv, Reserve, Dispatches
  <2>5. Lost(r)' = Lost(r)
    BY <1>2, <1>t, <2>2 DEF Lost, Busy, Reserve
  <2>6. \A g : MadeUnder(r, g)' = MadeUnder(r, g)
    BY <1>2, <1>t DEF MadeUnder
  <2> QED BY <2>0, <2>4, <2>5, <2>6 DEF NothingLostInv, Reserve
<1> QED BY <1>1, <1>3, <1>4, <1>5, GrantIInvOneRun

(* A thread that is in a dispatch goes on to its next place. *)
LEMMA ThreadAdvances ==
    ASSUME GrantTypeOK, NEW r \in Runs, NEW t \in Threads, NEW p \in Place,
           thread' = [thread EXCEPT ![r][t].at = p],
           thread[r][t].at # "idle", p # "idle"
    PROVE  /\ thread'[r][t].at = p /\ thread'[r][t].id = thread[r][t].id
           /\ thread'[r][t].grant = thread[r][t].grant
           /\ \A u \in Threads : u # t => thread'[r][u] = thread[r][u]
           /\ \A q \in Runs : q # r => thread'[q] = thread[q]
           /\ thread' \in [Runs -> [Threads -> ThreadType]]
           /\ \A q \in Runs : DistinctIds(q) /\ DistinctIds(q)'
           /\ \A u \in Threads : /\ Busy(r, u)' <=> Busy(r, u)
                                 /\ thread'[r][u].id = thread[r][u].id
                                 /\ thread'[r][u].grant = thread[r][u].grant
<1> DEFINE v == [thread[r][t] EXCEPT !.at = p]
<1>1. thread[r][t] \in ThreadType
  BY DEF GrantTypeOK, ThreadType
<1>2. v \in ThreadType /\ v.at = p /\ v.id = thread[r][t].id /\ v.grant = thread[r][t].grant
  BY <1>1 DEF ThreadType
<1>3. thread' = [thread EXCEPT ![r][t] = v]
  OBVIOUS
<1> HIDE DEF v
<1>4. /\ thread'[r][t] = v
      /\ \A u \in Threads : u # t => thread'[r][u] = thread[r][u]
      /\ \A q \in Runs : q # r => thread'[q] = thread[q]
      /\ thread' \in [Runs -> [Threads -> ThreadType]]
  <2>1. thread \in [Runs -> [Threads -> ThreadType]]
    BY DEF GrantTypeOK, ThreadType
  <2>2. thread' = [thread EXCEPT ![r] = [thread[r] EXCEPT ![t] = v]]
    BY <1>3
  <2>3. [thread[r] EXCEPT ![t] = v] \in [Threads -> ThreadType]
    BY <1>2, <2>1
  <2>4. thread'[r] = [thread[r] EXCEPT ![t] = v]
    BY <2>1, <2>2
  <2>5. /\ thread' \in [Runs -> [Threads -> ThreadType]]
        /\ \A q \in Runs : q # r => thread'[q] = thread[q]
    BY <2>1, <2>2, <2>3
  <2>6. thread'[r][t] = v /\ \A u \in Threads : u # t => thread'[r][u] = thread[r][u]
    BY <2>1, <2>4
  <2> QED BY <2>5, <2>6
<1>5. \A u \in Threads : /\ Busy(r, u)' <=> Busy(r, u)
                         /\ thread'[r][u].id = thread[r][u].id
                         /\ thread'[r][u].grant = thread[r][u].grant
  BY <1>2, <1>4 DEF Busy
<1>6. \A q \in Runs : DistinctIds(q)
  BY DEF DistinctIds, GrantTypeOK
<1>7. \A q \in Runs : DistinctIds(q)'
  <2>1. DistinctIds(r)'
    BY <1>5, <1>6 DEF DistinctIds, Busy
  <2> QED BY <1>4, <1>6, <2>1 DEF DistinctIds
<1> QED BY <1>2, <1>4, <1>5, <1>6, <1>7

LEMMA StartStep ==
    ASSUME GrantIInv, NEW r \in Runs, NEW t \in Threads, Start(r, t)
    PROVE  GrantIInv'
<1> USE DEF counts
<1>0. GrantTypeOK /\ RunInv(r) /\ (r \notin reopened => FirstUseInv(r) /\ NothingLostInv(r))
  BY DEF GrantIInv
<1>t. /\ thread'[r][t].at = "started" /\ thread[r][t].at = "reserved"
      /\ \A u \in Threads : u # t => thread'[r][u] = thread[r][u]
      /\ \A q \in Runs : q # r => thread'[q] = thread[q]
      /\ thread' \in [Runs -> [Threads -> ThreadType]]
      /\ \A q \in Runs : DistinctIds(q)'
      /\ \A u \in Threads : /\ Busy(r, u)' <=> Busy(r, u)
                            /\ thread'[r][u].id = thread[r][u].id
                            /\ thread'[r][u].grant = thread[r][u].grant
  <2>1. thread[r][t].at = "reserved" /\ "started" \in Place
        /\ thread' = [thread EXCEPT ![r][t].at = "started"]
    BY DEF Start, At, Moves, Place
  <2> QED BY <1>0, <2>1, ThreadAdvances
<1>i. Busy(r, t) /\ thread[r][t].id \in reserved[r]
  BY <1>0, <1>t DEF RunInv, Busy
<1>s. /\ started'[r] = started[r] \cup {thread[r][t].id}
      /\ started' \in [Runs -> SUBSET CallId]
      /\ \A q \in Runs : started[q] \subseteq started'[q] /\ started'[q] \subseteq reserved[q]
  BY <1>0, <1>i DEF Start, GrantTypeOK
<1>1. OneRun(r)
  BY <1>0, <1>t DEF Start, OneRun, Same, GrantTypeOK
<1>2. \A q \in Runs : Completed(q)' = Completed(q) /\ SettledRows(q)' = SettledRows(q)
  BY DEF Start, Completed, SettledRows
<1>3. GrantTypeOK'
  BY <1>0, <1>t, <1>s, <1>2 DEF Start, GrantTypeOK, DistinctIds, ThreadType
<1>4. RunInv(r)' /\ handed <= handed' /\ reopened \subseteq reopened'
  <2>1. \A u \in Threads : Busy(r, u)' =>
          /\ thread'[r][u].id < nextCall'[r]
          /\ thread'[r][u].id \in reserved'[r] /\ thread'[r][u].grant \in defined'[r]
          /\ thread'[r][u].at # "reserved" => thread'[r][u].id \in started'[r]
    BY <1>0, <1>t, <1>s DEF RunInv, Start
  <2> QED BY <1>0, <1>2, <2>1, Types DEF RunInv, Start, At
<1>5. ASSUME r \notin reopened' PROVE FirstUseInv(r)' /\ NothingLostInv(r)'
  <2>0. FirstUseInv(r) /\ NothingLostInv(r)
    BY <1>0, <1>5 DEF Start
  <2>1. FirstUseInv(r)'
    BY <1>2, <1>t, <2>0 DEF FirstUseInv, Start
  <2>2. Lost(r)' = Lost(r)
    BY <1>2, <1>t, <1>s, <1>i DEF Lost
  <2>3. \A g : MadeUnder(r, g)' = MadeUnder(r, g)
    BY <1>2, <1>t DEF MadeUnder
  <2> QED BY <2>0, <2>1, <2>2, <2>3 DEF NothingLostInv, Start
<1> QED BY <1>1, <1>3, <1>4, <1>5, GrantIInvOneRun

LEMMA InvokeStep ==
    ASSUME GrantIInv, NEW r \in Runs, NEW t \in Threads, Invoke(r, t)
    PROVE  GrantIInv'
<1> USE DEF files
<1>0. GrantTypeOK /\ RunInv(r) /\ (r \notin reopened => FirstUseInv(r) /\ NothingLostInv(r))
  BY DEF GrantIInv
<1>t. /\ thread'[r][t].at = "called" /\ thread[r][t].at = "started"
      /\ \A u \in Threads : u # t => thread'[r][u] = thread[r][u]
      /\ \A q \in Runs : q # r => thread'[q] = thread[q]
      /\ thread' \in [Runs -> [Threads -> ThreadType]]
      /\ \A q \in Runs : DistinctIds(q) /\ DistinctIds(q)'
      /\ \A u \in Threads : /\ Busy(r, u)' <=> Busy(r, u)
                            /\ thread'[r][u].id = thread[r][u].id
                            /\ thread'[r][u].grant = thread[r][u].grant
  <2>1. thread[r][t].at = "started" /\ "called" \in Place
        /\ thread' = [thread EXCEPT ![r][t].at = "called"]
    BY DEF Invoke, At, Moves, Place
  <2> QED BY <1>0, <2>1, ThreadAdvances
<1>i. PICK id \in CallId, gr \in Grant :
        id = thread[r][t].id /\ gr = thread[r][t].grant
  <2>1. Busy(r, t)
    BY <1>t DEF Busy
  <2> QED BY <1>0, <2>1 DEF RunInv, GrantTypeOK
<1>g. /\ invoked'[r][gr] = invoked[r][gr] + 1
      /\ \A g \in Grant : g # gr => invoked'[r][g] = invoked[r][g]
      /\ \A q \in Runs : q # r => invoked'[q] = invoked[q]
      /\ invoked' \in [Runs -> [Grant -> Nat]]
  <2>1. invoked' = [invoked EXCEPT ![r][gr] = @ + 1]
    BY <1>i DEF Invoke
  <2> QED BY <1>0, <1>i, <2>1 DEF GrantTypeOK
<1>1. OneRun(r)
  BY <1>0, <1>t, <1>g DEF Invoke, OneRun, Same
<1>2. \A q \in Runs : Completed(q)' = Completed(q) /\ SettledRows(q)' = SettledRows(q)
  BY DEF Invoke, Completed, SettledRows
<1>3. GrantTypeOK'
  BY <1>0, <1>t, <1>g, <1>2 DEF Invoke, GrantTypeOK, DistinctIds, ThreadType
<1>4. RunInv(r)' /\ handed <= handed' /\ reopened \subseteq reopened'
  <2>1. \A u \in Threads : Busy(r, u)' =>
          /\ thread'[r][u].id < nextCall'[r]
          /\ thread'[r][u].id \in reserved'[r] /\ thread'[r][u].grant \in defined'[r]
          /\ thread'[r][u].at # "reserved" => thread'[r][u].id \in started'[r]
    BY <1>0, <1>t, <1>i DEF RunInv, Invoke
  <2> QED BY <1>0, <1>2, <2>1, Types DEF RunInv, Invoke, At
<1>5. ASSUME r \notin reopened' PROVE FirstUseInv(r)' /\ NothingLostInv(r)'
  <2>0. FirstUseInv(r) /\ NothingLostInv(r)
    BY <1>0, <1>5 DEF Invoke
  <2>1. FirstUseInv(r)'
    BY <1>2, <1>t, <2>0 DEF FirstUseInv, Invoke
  <2>2. Lost(r)' = Lost(r)
    BY <1>2, <1>t DEF Lost, Invoke
  <2>3. /\ id \notin MadeUnder(r, gr) /\ MadeUnder(r, gr)' = MadeUnder(r, gr) \cup {id}
        /\ \A g : g # gr => MadeUnder(r, g)' = MadeUnder(r, g)
    <3>1. \A row \in SettledRows(r) : row.id # id
      BY <1>i, <1>t, <2>0 DEF FirstUseInv, Completed, Busy
    <3>2. \A u \in Threads : thread[r][u].at = "called" => thread[r][u].id # id
      BY <1>t, <1>i DEF DistinctIds
    <3>3. id \notin MadeUnder(r, gr)
      BY <3>1, <3>2 DEF MadeUnder
    <3>4. \A g : MadeUnder(r, g)' = IF g = gr THEN MadeUnder(r, g) \cup {id} ELSE MadeUnder(r, g)
      BY <1>2, <1>t, <1>i DEF MadeUnder
    <3> QED BY <3>3, <3>4
  <2>4. IsFiniteSet(MadeUnder(r, gr))
    <3>1. MadeUnder(r, gr) \in SUBSET CallId
      BY DEF MadeUnder
    <3>2. IsFiniteSet(CallId)
      BY BoundAssumption, FS_Interval DEF CallId
    <3> QED BY <3>1, <3>2, FS_Subset
  <2>5. Cardinality(MadeUnder(r, gr)') = Cardinality(MadeUnder(r, gr)) + 1
    BY <2>3, <2>4, FS_AddElement
  <2> QED BY <1>g, <1>i, <2>0, <2>1, <2>2, <2>3, <2>5 DEF NothingLostInv
<1> QED BY <1>1, <1>3, <1>4, <1>5, GrantIInvOneRun

(* A thread whose call came back leaves its dispatch. *)
LEMMA ThreadReturns ==
    ASSUME GrantIInv, NEW r \in Runs, NEW t \in Threads, At(r, t, "called"),
           thread' = [thread EXCEPT ![r][t] = Idle]
    PROVE  /\ ~Busy(r, t)' /\ thread'[r][t] = Idle
           /\ \A u \in Threads : u # t => thread'[r][u] = thread[r][u]
           /\ \A q \in Runs : q # r => thread'[q] = thread[q]
           /\ thread' \in [Runs -> [Threads -> ThreadType]]
           /\ \A q \in Runs : DistinctIds(q) /\ DistinctIds(q)'
           /\ \A u \in Threads : Busy(r, u)' <=> (Busy(r, u) /\ u # t)
           /\ \E id \in CallId, gr \in Grant :
                /\ id = thread[r][t].id /\ gr = thread[r][t].grant
                /\ id \in started[r] /\ id \in reserved[r] /\ gr \in defined[r]
                /\ \A u \in Threads : u # t /\ Busy(r, u) => thread[r][u].id # id
<1>0. GrantTypeOK /\ RunInv(r)
  BY DEF GrantIInv
<1>1. Idle \in ThreadType /\ Idle.at = "idle"
  BY DEF ThreadType, Idle, Place, NoGrant
<1>2. /\ thread'[r][t] = Idle
      /\ \A u \in Threads : u # t => thread'[r][u] = thread[r][u]
      /\ \A q \in Runs : q # r => thread'[q] = thread[q]
      /\ thread' \in [Runs -> [Threads -> ThreadType]]
  BY <1>0, <1>1, ThreadMoves
<1>3. \A u \in Threads : Busy(r, u)' <=> (Busy(r, u) /\ u # t)
  BY <1>1, <1>2 DEF Busy
<1>4. \A q \in Runs : DistinctIds(q)
  BY <1>0 DEF DistinctIds, GrantTypeOK
<1>5. \A q \in Runs : DistinctIds(q)'
  <2>1. DistinctIds(r)'
    BY <1>2, <1>3, <1>4 DEF DistinctIds, Busy
  <2> QED BY <1>2, <1>4, <2>1 DEF DistinctIds
<1>6. Busy(r, t) /\ thread[r][t].at = "called"
  BY DEF At, Busy
<1>7. /\ thread[r][t].id \in started[r] /\ thread[r][t].id \in reserved[r]
      /\ thread[r][t].grant \in defined[r]
  BY <1>0, <1>6 DEF RunInv
<1>8. thread[r][t].id \in CallId /\ thread[r][t].grant \in Grant
  BY <1>0, <1>7 DEF GrantTypeOK
<1>9. \A u \in Threads : u # t /\ Busy(r, u) => thread[r][u].id # thread[r][t].id
  BY <1>4, <1>6 DEF DistinctIds, Busy
<1> QED BY <1>2, <1>3, <1>4, <1>5, <1>7, <1>8, <1>9

LEMMA SettleFailsStep ==
    ASSUME GrantIInv, NEW r \in Runs, NEW t \in Threads, SettleFails(r, t)
    PROVE  GrantIInv'
<1> USE DEF files, counts
<1>0. GrantTypeOK /\ RunInv(r) /\ (r \notin reopened => FirstUseInv(r) /\ NothingLostInv(r))
  BY DEF GrantIInv
<1>t. /\ \A u \in Threads : u # t => thread'[r][u] = thread[r][u]
      /\ \A q \in Runs : q # r => thread'[q] = thread[q]
      /\ thread' \in [Runs -> [Threads -> ThreadType]]
      /\ \A q \in Runs : DistinctIds(q)'
      /\ \A u \in Threads : Busy(r, u)' <=> (Busy(r, u) /\ u # t)
  BY ThreadReturns DEF SettleFails
<1>1. OneRun(r)
  BY <1>t DEF SettleFails, OneRun, Same
<1>2. \A q \in Runs : Completed(q)' = Completed(q) /\ SettledRows(q)' = SettledRows(q)
  BY DEF SettleFails, Completed, SettledRows
<1>3. GrantTypeOK'
  BY <1>0, <1>t, <1>2 DEF SettleFails, GrantTypeOK, DistinctIds, ThreadType
<1>4. RunInv(r)' /\ handed <= handed' /\ reopened \subseteq reopened'
  <2>1. \A u \in Threads : Busy(r, u)' =>
          /\ thread'[r][u].id < nextCall'[r]
          /\ thread'[r][u].id \in reserved'[r] /\ thread'[r][u].grant \in defined'[r]
          /\ thread'[r][u].at # "reserved" => thread'[r][u].id \in started'[r]
    BY <1>0, <1>t DEF RunInv, SettleFails
  <2> QED BY <1>0, <1>2, <2>1, Types DEF RunInv, SettleFails, At
<1>5. ASSUME r \notin reopened' PROVE FirstUseInv(r)' /\ NothingLostInv(r)'
  <2>0. FirstUseInv(r)
    BY <1>0, <1>5 DEF SettleFails
  <2>1. FirstUseInv(r)'
    BY <1>2, <1>t, <2>0 DEF FirstUseInv, SettleFails
  <2>2. PICK id \in CallId, gr \in Grant :
            /\ id = thread[r][t].id /\ gr = thread[r][t].grant
            /\ id \in started[r] /\ id \in reserved[r] /\ gr \in defined[r]
            /\ \A u \in Threads : u # t /\ Busy(r, u) => thread[r][u].id # id
    BY ThreadReturns DEF SettleFails
  <2>3. id \notin Completed(r)
    BY <2>0, <2>2 DEF FirstUseInv, SettleFails, At, Busy
  <2>4. id \in Lost(r)'
    BY <1>2, <1>t, <2>2, <2>3 DEF Lost, SettleFails
  <2> QED BY <2>1, <2>4 DEF NothingLostInv
<1> QED BY <1>1, <1>3, <1>4, <1>5, GrantIInvOneRun

LEMMA EndsStep ==
    ASSUME GrantIInv, NEW r \in Runs, NEW tears \in BOOLEAN, Ends(r, tears)
    PROVE  GrantIInv'
<1> USE DEF counts
<1>0. GrantTypeOK /\ RunInv(r) /\ (r \notin reopened => FirstUseInv(r) /\ NothingLostInv(r))
  BY DEF GrantIInv
<1>t. /\ \A u \in Threads : thread'[r][u] = Idle /\ ~Busy(r, u)'
      /\ \A q \in Runs : q # r => thread'[q] = thread[q]
      /\ thread' \in [Runs -> [Threads -> ThreadType]]
  <2>1. [u \in Threads |-> Idle] \in [Threads -> ThreadType]
    BY DEF ThreadType, Idle, Place, NoGrant
  <2>2. thread' = [thread EXCEPT ![r] = [u \in Threads |-> Idle]]
    BY DEF Ends
  <2>3. thread \in [Runs -> [Threads -> ThreadType]]
    BY <1>0 DEF GrantTypeOK, ThreadType
  <2>4. \A u \in Threads : thread'[r][u] = Idle
    BY <2>2, <2>3
  <2>5. Idle.at = "idle"
    BY DEF Idle
  <2> QED BY <2>1, <2>2, <2>3, <2>4, <2>5 DEF Busy
<1>d. \A q \in Runs : DistinctIds(q)'
  <2>1. \A q \in Runs : DistinctIds(q)
    BY <1>0 DEF DistinctIds, GrantTypeOK
  <2>2. DistinctIds(r)'
    BY <1>t DEF DistinctIds, Busy
  <2> QED BY <1>t, <2>1, <2>2 DEF DistinctIds
<1>1. OneRun(r)
  BY <1>0, <1>t DEF Ends, OneRun, Same, GrantTypeOK
<1>2. \A q \in Runs : Completed(q)' = Completed(q) /\ SettledRows(q)' = SettledRows(q)
  BY DEF Ends, Completed, SettledRows
<1>3. GrantTypeOK'
  BY <1>0, <1>t, <1>d, <1>2 DEF Ends, GrantTypeOK, DistinctIds, ThreadType
<1>4. RunInv(r)' /\ handed <= handed' /\ reopened \subseteq reopened'
  BY <1>0, <1>t, <1>2, Types DEF RunInv, Ends
<1>5. ASSUME r \notin reopened' PROVE FirstUseInv(r)' /\ NothingLostInv(r)'
  <2>0. FirstUseInv(r) /\ NothingLostInv(r)
    BY <1>0, <1>5 DEF Ends
  <2>1. FirstUseInv(r)'
    <3>1. process'[r] = "gone"
      BY <1>0 DEF Ends, GrantTypeOK
    <3> QED BY <1>2, <1>t, <2>0, <3>1 DEF FirstUseInv, Ends
  <2>2. ASSUME Lost(r)' = {}
        PROVE  Lost(r) = {} /\ \A g : MadeUnder(r, g)' = MadeUnder(r, g)
    <3>1. started[r] \subseteq Completed(r)
      BY <1>2, <1>t, <2>2 DEF Lost, Ends
    <3>2. \A u \in Threads : thread[r][u].at # "called"
      BY <1>0, <2>0, <3>1 DEF RunInv, FirstUseInv, Busy
    <3>3. \A u \in Threads : thread'[r][u].at # "called"
      BY <1>t DEF Idle
    <3>4. \A g : MadeUnder(r, g)' = MadeUnder(r, g)
      BY <1>2, <3>2, <3>3 DEF MadeUnder
    <3> QED BY <3>1, <3>4 DEF Lost
  <2> QED BY <2>0, <2>1, <2>2 DEF NothingLostInv, Ends
<1> QED BY <1>1, <1>3, <1>4, <1>5, GrantIInvOneRun

LEMMA SettleStep ==
    ASSUME GrantIInv, NEW r \in Runs, NEW t \in Threads, Settle(r, t)
    PROVE  GrantIInv'
<1> USE DEF counts
<1>0. GrantTypeOK /\ RunInv(r) /\ (r \notin reopened => FirstUseInv(r) /\ NothingLostInv(r))
  BY DEF GrantIInv
<1>t. /\ thread'[r][t] = Idle
      /\ \A u \in Threads : u # t => thread'[r][u] = thread[r][u]
      /\ \A q \in Runs : q # r => thread'[q] = thread[q]
      /\ thread' \in [Runs -> [Threads -> ThreadType]]
      /\ \A q \in Runs : DistinctIds(q)'
      /\ \A u \in Threads : Busy(r, u)' <=> (Busy(r, u) /\ u # t)
      /\ thread[r][t].at = "called" /\ Busy(r, t)
  BY ThreadReturns DEF Settle, At, Busy
<1>i. PICK id \in CallId, gr \in Grant :
        /\ id = thread[r][t].id /\ gr = thread[r][t].grant
        /\ id \in started[r] /\ id \in reserved[r] /\ gr \in defined[r]
        /\ \A u \in Threads : u # t /\ Busy(r, u) => thread[r][u].id # id
  BY ThreadReturns DEF Settle
<1> DEFINE row == [id |-> id, grant |-> gr]
<1>r. row \in Row /\ row.id = id /\ row.grant = gr
  BY DEF Row
<1>a. /\ settled' = [settled EXCEPT ![r] = Append(@, row)]
      /\ calls' = [calls EXCEPT ![r] = Append(@, id)]
  BY <1>i DEF Settle, SettledRow
<1> HIDE DEF row
<1>s. /\ settled'[r] = Append(settled[r], row) /\ calls'[r] = Append(calls[r], id)
      /\ settled' \in [Runs -> Seq(Row)] /\ calls' \in [Runs -> Seq(CallId)]
      /\ \A q \in Runs : q # r => settled'[q] = settled[q] /\ calls'[q] = calls[q]
  BY <1>0, <1>a, <1>r DEF GrantTypeOK
<1>l. /\ settled[r] \in Seq(Row) /\ Len(settled[r]) \in Nat
      /\ DOMAIN settled[r] = 1 .. Len(settled[r])
      /\ Len(settled'[r]) = Len(settled[r]) + 1
      /\ DOMAIN settled'[r] = 1 .. Len(settled[r]) + 1
      /\ \A i \in 1 .. Len(settled[r]) : settled'[r][i] = settled[r][i]
      /\ settled'[r][Len(settled[r]) + 1] = row
  <2>1. settled[r] \in Seq(Row)
    BY <1>0 DEF GrantTypeOK
  <2> QED BY <1>s, <1>r, <2>1
<1>2. /\ SettledRows(r)' = SettledRows(r) \cup {row}
      /\ Completed(r)' = Completed(r) \cup {id}
      /\ \A q \in Runs : q # r => Completed(q)' = Completed(q)
  <2>1. SettledRows(r)' = SettledRows(r) \cup {row}
    BY <1>l DEF SettledRows
  <2> QED BY <1>s, <1>r, <2>1 DEF Completed, SettledRows
<1>1. OneRun(r)
  BY <1>t, <1>s DEF Settle, OneRun, Same
<1>3. GrantTypeOK'
  <2>1. \A q \in Runs : Completed(q)' \subseteq started[q]
    BY <1>0, <1>2, <1>i DEF GrantTypeOK
  <2> QED BY <1>0, <1>t, <1>s, <2>1 DEF Settle, GrantTypeOK, DistinctIds, ThreadType
<1>4. RunInv(r)' /\ handed <= handed' /\ reopened \subseteq reopened'
  <2>1. \A u \in Threads : Busy(r, u)' =>
          /\ thread'[r][u].id < nextCall'[r]
          /\ thread'[r][u].id \in reserved'[r] /\ thread'[r][u].grant \in defined'[r]
          /\ thread'[r][u].at # "reserved" => thread'[r][u].id \in started'[r]
    BY <1>0, <1>t DEF RunInv, Settle
  <2> QED BY <1>0, <1>2, <1>i, <1>r, <2>1, Types DEF RunInv, Settle, At
<1>5. ASSUME r \notin reopened' PROVE FirstUseInv(r)' /\ NothingLostInv(r)'
  <2>0. FirstUseInv(r) /\ NothingLostInv(r)
    BY <1>0, <1>5 DEF Settle
  <2>1. id \notin Completed(r)
    BY <1>i, <1>t, <2>0 DEF FirstUseInv
  <2>2. \A i \in 1 .. Len(settled[r]) : settled[r][i].id \in Completed(r)
    BY <1>l DEF Completed, SettledRows
  <2>3. \A i, j \in 1 .. Len(settled'[r]) :
          settled'[r][i].id = settled'[r][j].id => i = j
    <3> SUFFICES ASSUME NEW i \in 1 .. Len(settled[r]) + 1,
                        NEW j \in 1 .. Len(settled[r]) + 1,
                        settled'[r][i].id = settled'[r][j].id
                 PROVE  i = j
      BY <1>l
    <3>1. CASE i \in 1 .. Len(settled[r]) /\ j \in 1 .. Len(settled[r])
      BY <1>l, <2>0, <3>1 DEF FirstUseInv
    <3>2. CASE i \in 1 .. Len(settled[r]) /\ j = Len(settled[r]) + 1
      BY <1>l, <1>r, <2>1, <2>2, <3>2
    <3>3. CASE i = Len(settled[r]) + 1 /\ j \in 1 .. Len(settled[r])
      BY <1>l, <1>r, <2>1, <2>2, <3>3
    <3>4. CASE i = Len(settled[r]) + 1 /\ j = Len(settled[r]) + 1
      BY <3>4
    <3> QED BY <1>l, <3>1, <3>2, <3>3, <3>4
  <2>4. /\ Len(calls'[r]) = Len(settled'[r])
        /\ \A i \in 1 .. Len(settled'[r]) : calls'[r][i] = settled'[r][i].id
    <3>1. calls[r] \in Seq(CallId) /\ Len(calls[r]) = Len(settled[r])
          /\ \A i \in 1 .. Len(settled[r]) : calls[r][i] = settled[r][i].id
      BY <1>0, <2>0 DEF GrantTypeOK, FirstUseInv
    <3>2. Len(calls'[r]) = Len(calls[r]) + 1
          /\ calls'[r][Len(calls[r]) + 1] = id
          /\ \A i \in 1 .. Len(calls[r]) : calls'[r][i] = calls[r][i]
      BY <1>s, <3>1
    <3>3. ASSUME NEW i \in 1 .. Len(settled[r]) + 1
          PROVE  calls'[r][i] = settled'[r][i].id
      <4>1. CASE i \in 1 .. Len(settled[r])
        BY <1>l, <3>1, <3>2, <4>1
      <4>2. CASE i = Len(settled[r]) + 1
        BY <1>l, <1>r, <3>1, <3>2, <4>2
      <4> QED BY <1>l, <4>1, <4>2
    <3> QED BY <1>l, <3>1, <3>2, <3>3
  <2>5. \A u \in Threads : Busy(r, u)' => thread'[r][u].id \notin Completed(r)'
    BY <1>i, <1>t, <1>2, <2>0 DEF FirstUseInv
  <2>6. process'[r] = "up"
    BY DEF Settle, At
  <2>7. FirstUseInv(r)'
    BY <2>0, <2>3, <2>4, <2>5, <2>6 DEF FirstUseInv, Settle
  <2>8. Lost(r)' = Lost(r)
    BY <1>i, <1>t, <1>2 DEF Lost, Settle
  <2>9. ASSUME NEW g PROVE MadeUnder(r, g)' = MadeUnder(r, g)
    <3> SUFFICES ASSUME NEW i \in CallId
                 PROVE  i \in MadeUnder(r, g)' <=> i \in MadeUnder(r, g)
      BY DEF MadeUnder
    <3>1. (\E w \in SettledRows(r)' : w.id = i /\ w.grant = g)
            <=> \/ \E w \in SettledRows(r) : w.id = i /\ w.grant = g
                \/ i = id /\ g = gr
      BY <1>2, <1>r
    <3>2. (\E u \in Threads : /\ thread[r][u].at = "called"
                             /\ thread[r][u].id = i /\ thread[r][u].grant = g)
            <=> \/ \E u \in Threads : /\ thread'[r][u].at = "called"
                                     /\ thread'[r][u].id = i /\ thread'[r][u].grant = g
                \/ i = id /\ g = gr
      <4>1. thread'[r][t].at # "called"
        BY <1>t DEF Idle
      <4> QED BY <1>t, <1>i, <4>1
    <3> QED BY <3>1, <3>2 DEF MadeUnder
  <2> QED BY <2>0, <2>7, <2>8, <2>9 DEF NothingLostInv, Settle
<1> QED BY <1>1, <1>3, <1>4, <1>5, GrantIInvOneRun
-----------------------------------------------------------------------------
(* What the invariant gives *)

LEMMA GrantIInvStep == GrantIInv /\ [GrantNext]_grantVars => GrantIInv'
<1> SUFFICES ASSUME GrantIInv, [GrantNext]_grantVars PROVE GrantIInv'
  OBVIOUS
<1>1. CASE UNCHANGED grantVars
  <2>1. UNCHANGED <<process, current, nextCall, calls, thread, defined, reserved,
                    started, settled, torn, summary, invoked, reopened, handed>>
    BY <1>1 DEF grantVars, memory, files, counts
  <2>2. \A q \in Runs : Same(q)
    BY <2>1 DEF Same
  <2>3. /\ \A q \in Runs : RunInv(q)'
        /\ \A q \in Runs \ reopened : FirstUseInv(q)' /\ NothingLostInv(q)'
    BY <2>1, <2>2, SameIsKept, Types DEF GrantIInv
  <2>4. \A q : Completed(q)' = Completed(q)
    BY <2>1 DEF Completed, SettledRows
  <2>5. GrantTypeOK'
    BY <2>1, <2>4 DEF GrantTypeOK, GrantIInv
  <2> QED BY <2>1, <2>3, <2>5 DEF GrantIInv
<1>2. CASE GrantNext
  BY <1>2, OpenStep, IssueStep, ExpandStep, SummaryStep, EndsStep, RefuseStep,
     ReserveStep, StartStep, InvokeStep, SettleStep, SettleFailsStep DEF GrantNext
<1> QED BY <1>1, <1>2

LEMMA GrantInvariant == GrantSpec => []GrantIInv
BY GrantIInvInit, GrantIInvStep, PTL DEF GrantSpec

(* The grant ledgers keep their types: no row is settled of a call that    *)
(* was not started, and no two threads of a process hold the same number.  *)
THEOREM GrantsAreTyped == GrantSpec => []GrantTypeOK
<1>1. GrantIInv => GrantTypeOK
  BY DEF GrantIInv
<1> QED BY <1>1, GrantInvariant, PTL

(* The rows of a directory used once settle distinct calls.                *)
LEMMA RowsAreCounted ==
    ASSUME GrantIInv, NEW r \in Runs \ reopened
    PROVE  /\ IsFiniteSet(Completed(r)) /\ Cardinality(Completed(r)) = Len(settled[r])
           /\ \A g : Cardinality(Charged(r, g))
                     = Cardinality({row.id : row \in {w \in SettledRows(r) : w.grant = g}})
<1>1. FirstUseInv(r) /\ GrantTypeOK
  BY DEF GrantIInv
<1>2. Len(settled[r]) \in Nat /\ DOMAIN settled[r] = 1 .. Len(settled[r])
  BY <1>1, Types
<1>3. ASSUME NEW I \in SUBSET (1 .. Len(settled[r]))
      PROVE  /\ IsFiniteSet({settled[r][i].id : i \in I}) /\ IsFiniteSet(I)
             /\ Cardinality({settled[r][i].id : i \in I}) = Cardinality(I)
  <2> DEFINE T == {settled[r][i].id : i \in I}
             f == [i \in I |-> settled[r][i].id]
  <2>1. IsFiniteSet(I)
    <3>1. IsFiniteSet(1 .. Len(settled[r]))
      BY <1>2, FS_Interval
    <3> QED BY <1>3, <3>1, FS_Subset
  <2>2. f \in Surjection(I, T)
    BY DEF Surjection
  <2>3. f \in Injection(I, T)
    BY <1>1, <1>3 DEF Injection, FirstUseInv, IsInjective
  <2> QED BY <2>1, <2>2, <2>3, FS_Surjection
<1>4. Completed(r) = {settled[r][i].id : i \in 1 .. Len(settled[r])}
  BY <1>2 DEF Completed, SettledRows
<1>5. Cardinality(1 .. Len(settled[r])) = Len(settled[r])
  BY <1>2, FS_Interval
<1>6. ASSUME NEW g
      PROVE  Cardinality(Charged(r, g))
             = Cardinality({row.id : row \in {w \in SettledRows(r) : w.grant = g}})
  <2> DEFINE I == Charged(r, g)
  <2> USE DEF Charged
  <2>1. I \in SUBSET (1 .. Len(settled[r]))
    BY <1>2
  <2>2. {row.id : row \in {w \in SettledRows(r) : w.grant = g}}
        = {settled[r][i].id : i \in I}
    BY DEF SettledRows
  <2> QED BY <1>3, <2>1, <2>2
<1> QED BY <1>3, <1>4, <1>5, <1>6

(* A run the checker finds clean has a row for every call it made.         *)
LEMMA CleanRunIsAccounted ==
    ASSUME GrantIInv, NEW r \in Runs \ reopened, Clean(r), NEW g \in Grant
    PROVE  Cardinality(Charged(r, g)) = invoked[r][g]
<1>1. FirstUseInv(r) /\ RunInv(r) /\ NothingLostInv(r) /\ GrantTypeOK
  BY DEF GrantIInv
<1>2. started[r] \subseteq Completed(r)
  BY DEF Clean, NothingIncomplete, Lifecycle
<1>3. Lost(r) = {}
  BY <1>2 DEF Lost
<1>4. \A t \in Threads : thread[r][t].at # "called"
  BY <1>1, <1>2 DEF RunInv, FirstUseInv, Busy
<1>5. \A w \in SettledRows(r) : w.id \in CallId
  <2>1. \A w \in SettledRows(r) : w \in Row
    BY <1>1, Types DEF SettledRows
  <2> QED BY <2>1 DEF Row
<1>6. MadeUnder(r, g) = {row.id : row \in {w \in SettledRows(r) : w.grant = g}}
  BY <1>4, <1>5 DEF MadeUnder
<1> QED BY <1>1, <1>3, <1>6, RowsAreCounted DEF NothingLostInv

(* When the checker passes a set of runs, its totals hold every provider   *)
(* call that was made, and no grant's calls exceed its ceiling.            *)
THEOREM PassedRunsAreAccounted == GrantSpec => []PassedMeansAccounted
<1>1. GrantIInv => PassedMeansAccounted
  <2> SUFFICES ASSUME GrantIInv, NEW S \in SUBSET (Runs \ reopened), Passed(S),
                      NEW g \in Grant
               PROVE  /\ Usage(S, g) = SumFunction([r \in S |-> invoked[r][g]])
                      /\ SumFunction([r \in S |-> invoked[r][g]]) <= MaxCalls[g]
    BY DEF PassedMeansAccounted
  <2>1. ASSUME NEW r \in S
        PROVE  Cardinality(Charged(r, g))
               = invoked[r][g]
    <3>1. r \in Runs \ reopened /\ Clean(r)
      BY <2>1 DEF Passed
    <3> QED BY <3>1, CleanRunIsAccounted
  <2>2. [r \in S |-> Cardinality(Charged(r, g))]
        = [r \in S |-> invoked[r][g]]
    BY <2>1
  <2>3. Usage(S, g) = SumFunction([r \in S |-> invoked[r][g]])
    BY <2>2 DEF Usage
  <2>4. Usage(S, g) <= MaxCalls[g]
    BY DEF Passed
  <2> QED BY <2>3, <2>4
<1> QED BY <1>1, GrantInvariant, PTL

(* The checker does not accuse a run whose every call was settled and      *)
(* whose summary was written last.                                         *)
THEOREM OrderlyRunsAreClean == GrantSpec => []OrderlyRunIsClean
<1>1. GrantIInv => OrderlyRunIsClean
  <2> SUFFICES ASSUME GrantIInv, NEW r \in Runs \ reopened,
                      ~torn[r], settled[r] # <<>>,
                      nextCall[r] = Len(settled[r]) + 1, summary[r] = {calls[r]}
               PROVE  Clean(r)
    BY DEF OrderlyRunIsClean
  <2> DEFINE n == Len(settled[r])
  <2>1. FirstUseInv(r) /\ RunInv(r) /\ GrantTypeOK
    BY DEF GrantIInv
  <2>2. n \in Nat /\ calls[r] \in Seq(CallId) /\ Len(calls[r]) = n
        /\ DOMAIN settled[r] = 1 .. n
    BY <2>1, Types DEF FirstUseInv
  <2>3. Cardinality(Completed(r)) = n
    BY RowsAreCounted
  <2>4. Lifecycle(r) \subseteq 1 .. n /\ Completed(r) \subseteq 1 .. n
        /\ Completed(r) \subseteq Lifecycle(r)
    <3>1. reserved[r] \subseteq 1 .. n
      <4>1. \A i \in reserved[r] : i \in Int /\ i >= 1
        BY <2>1, BoundAssumption DEF GrantTypeOK, CallId
      <4> QED BY <2>1, <2>2, <4>1 DEF FirstUseInv
    <3> QED BY <2>1, <3>1 DEF Lifecycle, GrantTypeOK
  <2>5. IsFiniteSet(1 .. n) /\ Cardinality(1 .. n) = n
    <3>1. 1 \in Int /\ n \in Int /\ (IF 1 > n THEN 0 ELSE n - 1 + 1) = n
      BY <2>2
    <3>2. IsFiniteSet(1 .. n) /\ Cardinality(1 .. n) = IF 1 > n THEN 0 ELSE n - 1 + 1
      BY <3>1, FS_Interval
    <3> QED BY <3>1, <3>2
  <2>6. Completed(r) = 1 .. n
    BY <2>3, <2>4, <2>5, FS_Subset
  <2>7. Lifecycle(r) \cup Completed(r) = 1 .. n
    BY <2>4, <2>6
  <2>8. Reconciles(r)
    <3>1. {calls[r][i] : i \in DOMAIN calls[r]} = Completed(r)
      <4>1. DOMAIN calls[r] = 1 .. n
        BY <2>2
      <4>2. \A i \in 1 .. n : calls[r][i] = settled[r][i].id
        BY <2>1 DEF FirstUseInv
      <4> QED BY <2>2, <4>1, <4>2 DEF Completed, SettledRows
    <3> QED BY <2>2, <2>3, <3>1 DEF Reconciles
  <2>9. Loads(r)
    BY DEF Loads
  <2> QED BY <2>1, <2>3, <2>4, <2>5, <2>6, <2>7, <2>8, <2>9
          DEF Clean, NothingIncomplete, Contiguous, RunInv
<1> QED BY <1>1, GrantInvariant, PTL
=============================================================================
