----------------------------- MODULE ChatTurnsProofs -----------------------------
(***************************************************************************)
(* Proofs about ChatTurns, for any set of turns, any number of rounds and   *)
(* any caps.                                                                *)
(***************************************************************************)
EXTENDS ChatTurns, FiniteSetTheorems, SequenceTheorems, TLAPS

-----------------------------------------------------------------------------
(* The inductive invariant *)

(* s is the end of t, element by element. *)
Ends(s, t) ==
  /\ Len(s) <= Len(t)
  /\ \A i \in 1..Len(s) : s[i] = t[Len(t) - Len(s) + i]

TurnType == [phase : {"idle", "posted", "done"}, prev : Ids \cup {None},
             round : 0..MaxRounds, said : Seq(Message), input : Seq(Message),
             messages : Seq(Message), first : Seq(Message)]

EntryType == [id : Ids, at : Nat, messages : Seq(Message)]

Types ==
  /\ now \in 0..MaxTime
  /\ due \in BOOLEAN
  /\ table \subseteq EntryType
  /\ turn \in [Turns -> TurnType]
  /\ delivered \subseteq Ids

(* A row is small enough, and no two have an id or a time in common. *)
RowsInv ==
  /\ IsFiniteSet(table)
  /\ \A e \in table : e.at <= now /\ Size(e) \in 1..MaxEntry
  /\ \A e, f \in table : e.id = f.id \/ e.at = f.at => e = f

(* A row is of an earlier round of its turn than the one posted, and the row *)
(* of a response the client has got ends what was said up to it.            *)
EntryInv ==
  \A e \in table :
    /\ turn[e.id[1]].phase # "idle"
    /\ turn[e.id[1]].phase = "posted" => e.id[2] < turn[e.id[1]].round
    /\ e.id \in delivered => Ends(e.messages, turn[e.id[1]].said)

(* A delivered response ended its turn: nothing more is said in it. *)
DeliveredInv == \A id \in delivered : turn[id[1]].phase = "done"

(* What is posted, and what the turn itself has added, ends what was said. *)
TurnInv ==
  \A t \in Turns :
    /\ turn[t].prev \in delivered \cup {None}
    /\ Len(turn[t].messages) <= MaxPrompt
    /\ turn[t].phase = "posted" =>
         /\ turn[t].round >= 1
         /\ Ends(turn[t].messages, turn[t].said)
         /\ Ends(turn[t].input, turn[t].said)

IInv == /\ Types
        /\ RowsInv
        /\ EntryInv
        /\ DeliveredInv
        /\ TurnInv
        /\ CapsHold

-----------------------------------------------------------------------------
(* Ends of sequences *)

(* Ends is what IsSuffix says with reversed sequences. *)
LEMMA EndsIsSuffix ==
  ASSUME NEW S, NEW s \in Seq(S), NEW t \in Seq(S), Ends(s, t)
  PROVE  IsSuffix(s, t)
<1> DEFINE r == Reverse(s)
           u == Reverse(t)
           n == Len(s)
<1>1. /\ n \in Nat /\ Len(t) \in Nat /\ n <= Len(t)
      /\ \A i \in 1..n : s[i] \in S
      /\ \A i \in 1..Len(t) : t[i] \in S
  BY LenProperties, ElementOfSeq DEF Ends
<1>2. /\ r = [i \in 1..n |-> s[(n - i) + 1]]
      /\ u = [i \in 1..Len(t) |-> t[(Len(t) - i) + 1]]
  BY DEF Reverse
<1>3. /\ \A i \in 1..n : r[i] \in S /\ u[i] \in S
      /\ \A i \in 1..Len(t) : u[i] \in S
  BY <1>1, <1>2
<1>4. Len(r) = n /\ Len(u) = Len(t)
  BY <1>1, <1>2, <1>3
<1>5. \A i \in 1..n : r[i] = u[i]
  <2> SUFFICES ASSUME NEW i \in 1..n PROVE r[i] = u[i]
    OBVIOUS
  <2>1. (n - i) + 1 \in 1..n /\ i \in 1..Len(t)
    BY <1>1
  <2>2. s[(n - i) + 1] = t[Len(t) - n + ((n - i) + 1)]
    BY <2>1 DEF Ends
  <2>3. Len(t) - n + ((n - i) + 1) = (Len(t) - i) + 1
    BY <1>1
  <2> QED BY <1>2, <2>1, <2>2, <2>3
<1> HIDE DEF r, u, n
<1>6. /\ SubSeq(r, 1, n) \in Seq(S) /\ Len(SubSeq(r, 1, n)) = n
      /\ SubSeq(u, 1, n) \in Seq(S) /\ Len(SubSeq(u, 1, n)) = n
      /\ \A i \in 1..n : SubSeq(r, 1, n)[i] = r[i] /\ SubSeq(u, 1, n)[i] = u[i]
  BY <1>1, <1>3, SubSeqProperties
<1>7. SubSeq(r, 1, n) = SubSeq(u, 1, n)
  BY <1>1, <1>5, <1>6, SeqEqual
<1> QED BY <1>1, <1>4, <1>7 DEF IsSuffix, IsPrefix, r, u, n

LEMMA EndsItself ==
  ASSUME NEW S, NEW s \in Seq(S)
  PROVE  Ends(s, s)
<1>1. Len(s) \in Nat
  BY LenProperties
<1> QED BY <1>1 DEF Ends

LEMMA EndsEmpty ==
  ASSUME NEW S, NEW t \in Seq(S)
  PROVE  Ends(<<>>, t)
<1>1. Len(t) \in Nat /\ Len(<<>>) = 0
  BY LenProperties
<1> QED BY <1>1 DEF Ends

LEMMA EndsConcat ==
  ASSUME NEW S, NEW s \in Seq(S), NEW t \in Seq(S), NEW u \in Seq(S), Ends(s, t)
  PROVE  Ends(s \o u, t \o u)
<1>1. /\ Len(s) \in Nat /\ Len(t) \in Nat /\ Len(u) \in Nat
      /\ Len(s \o u) = Len(s) + Len(u) /\ Len(t \o u) = Len(t) + Len(u)
  BY LenProperties, ConcatProperties
<1>2. ASSUME NEW i \in 1..Len(s) + Len(u)
      PROVE  (s \o u)[i] = (t \o u)[Len(t) + Len(u) - (Len(s) + Len(u)) + i]
  <2> DEFINE j == Len(t) - Len(s) + i
  <2>1. /\ j \in 1..Len(t) + Len(u) /\ i <= Len(s) <=> j <= Len(t)
        /\ j - Len(t) = i - Len(s)
        /\ Len(t) + Len(u) - (Len(s) + Len(u)) + i = j
    BY <1>1 DEF Ends
  <2> HIDE DEF j
  <2>2. /\ (s \o u)[i] = IF i <= Len(s) THEN s[i] ELSE u[i - Len(s)]
        /\ (t \o u)[j] = IF j <= Len(t) THEN t[j] ELSE u[j - Len(t)]
    BY <2>1, ConcatProperties
  <2>3. i <= Len(s) => s[i] = t[j]
    BY <1>1 DEF Ends, j
  <2> QED BY <2>1, <2>2, <2>3
<1> QED BY <1>1, <1>2 DEF Ends

LEMMA EndsTransitive ==
  ASSUME NEW S, NEW s \in Seq(S), NEW t \in Seq(S), NEW u \in Seq(S),
         Ends(s, t), Ends(t, u)
  PROVE  Ends(s, u)
<1>1. Len(s) \in Nat /\ Len(t) \in Nat /\ Len(u) \in Nat
  BY LenProperties
<1>2. ASSUME NEW i \in 1..Len(s)
      PROVE  s[i] = u[Len(u) - Len(s) + i]
  <2> DEFINE j == Len(t) - Len(s) + i
  <2>1. j \in 1..Len(t) /\ Len(u) - Len(t) + j = Len(u) - Len(s) + i
    BY <1>1 DEF Ends
  <2>2. s[i] = t[j]
    BY DEF Ends
  <2>3. t[j] = u[Len(u) - Len(t) + j]
    BY <2>1 DEF Ends
  <2> QED BY <2>1, <2>2, <2>3
<1> QED BY <1>1, <1>2 DEF Ends

(* Truncation keeps an end that is neither empty nor too long. *)
LEMMA TruncateEnds ==
  ASSUME NEW S, NEW m \in Seq(S)
  PROVE  /\ Truncate(m) \in Seq(S)
         /\ Len(Truncate(m)) <= MaxPrompt
         /\ Ends(Truncate(m), m)
<1> DEFINE a == IF Len(m) > MaxPrompt THEN Len(m) - MaxPrompt + 1 ELSE 1
           c == SubSeq(m, a, Len(m))
<1>1. Len(m) \in Nat /\ \A i \in 1..Len(m) : m[i] \in S
  BY LenProperties, ElementOfSeq
<1>2. /\ a \in 1..Len(m) + 1
      /\ Len(m) - a + 1 = (IF Len(m) > MaxPrompt THEN MaxPrompt ELSE Len(m))
  BY <1>1, RoundsAssumption
<1>3. Truncate(m) = c
  BY DEF Truncate
<1> HIDE DEF a
<1>4. /\ c \in Seq(S) /\ Len(c) = Len(m) - a + 1
      /\ \A i \in 1..Len(m) - a + 1 : c[i] = m[a + i - 1]
  BY <1>1, <1>2, SubSeqProperties
<1>5. Len(c) <= MaxPrompt /\ Len(c) <= Len(m)
  BY <1>1, <1>2, <1>4, RoundsAssumption
<1>6. \A i \in 1..Len(c) : c[i] = m[Len(m) - Len(c) + i]
  <2> SUFFICES ASSUME NEW i \in 1..Len(c) PROVE c[i] = m[Len(m) - Len(c) + i]
    OBVIOUS
  <2>1. Len(m) - Len(c) + i = a + i - 1
    BY <1>1, <1>2, <1>4
  <2> QED BY <1>4, <2>1
<1> QED BY <1>3, <1>4, <1>5, <1>6 DEF Ends

-----------------------------------------------------------------------------
(* The store's operators *)

(* What the rows of a table always satisfy. *)
RowsOK(rows) ==
  /\ rows \subseteq EntryType
  /\ IsFiniteSet(rows)
  /\ \A e \in rows : Size(e) \in 1..MaxEntry
  /\ \A e, f \in rows : e.at = f.at => e = f

(* The messages of rows, which Bytes counts. *)
Cells(rows) == UNION {{e} \X DOMAIN e.messages : e \in rows}

LEMMA SubRowsOK ==
  ASSUME NEW rows, RowsOK(rows), NEW some \in SUBSET rows
  PROVE  /\ RowsOK(some)
         /\ Cardinality(some) \in Nat /\ Cardinality(rows) \in Nat
         /\ Cardinality(some) <= Cardinality(rows)
<1>1. IsFiniteSet(some) /\ Cardinality(some) <= Cardinality(rows)
  BY FS_Subset DEF RowsOK
<1>2. Cardinality(some) \in Nat /\ Cardinality(rows) \in Nat
  BY <1>1, FS_CardinalityType DEF RowsOK
<1> QED BY <1>1, <1>2 DEF RowsOK

LEMMA RowMessages ==
  ASSUME NEW rows, RowsOK(rows), NEW e \in rows
  PROVE  e.messages \in Seq(Message) /\ DOMAIN e.messages = 1..Size(e) /\ Size(e) \in 1..MaxEntry
BY LenProperties DEF RowsOK, EntryType, Size

LEMMA CellsFinite ==
  ASSUME NEW rows, RowsOK(rows)
  PROVE  IsFiniteSet(Cells(rows))
<1>1. IsFiniteSet(1..MaxEntry)
  BY FS_Interval, CapsAssumption
<1>2. IsFiniteSet(rows \X (1..MaxEntry))
  BY <1>1, FS_Product DEF RowsOK
<1>3. Cells(rows) \subseteq rows \X (1..MaxEntry)
  <2> SUFFICES ASSUME NEW e \in rows, NEW c \in {e} \X DOMAIN e.messages
               PROVE  c \in rows \X (1..MaxEntry)
    BY DEF Cells
  <2>1. DOMAIN e.messages \subseteq 1..MaxEntry
    BY RowMessages, CapsAssumption
  <2> QED BY <2>1
<1> QED BY <1>2, <1>3, FS_Subset

LEMMA BytesMonotone ==
  ASSUME NEW rows, RowsOK(rows), NEW some \in SUBSET rows
  PROVE  Bytes(some) \in Nat /\ Bytes(rows) \in Nat /\ Bytes(some) <= Bytes(rows)
<1>1. Cells(some) \subseteq Cells(rows)
  BY DEF Cells
<1>2. IsFiniteSet(Cells(rows)) /\ IsFiniteSet(Cells(some))
  BY CellsFinite, SubRowsOK
<1>3. Cardinality(Cells(some)) <= Cardinality(Cells(rows))
  BY <1>1, <1>2, FS_Subset
<1>4. Cardinality(Cells(some)) \in Nat /\ Cardinality(Cells(rows)) \in Nat
  BY <1>2, FS_CardinalityType
<1> QED BY <1>3, <1>4 DEF Bytes, Cells

LEMMA BytesOfOne ==
  ASSUME NEW rows, RowsOK(rows), NEW e \in rows
  PROVE  Bytes({e}) = Size(e)
<1>1. Cells({e}) = {e} \X (1..Size(e))
  BY RowMessages DEF Cells
<1>2. IsFiniteSet({e}) /\ Cardinality({e}) = 1
  BY FS_Singleton
<1>3. Size(e) \in Nat
  BY RowMessages, CapsAssumption
<1>4. IsFiniteSet(1..Size(e)) /\ Cardinality(1..Size(e)) = Size(e)
  BY <1>3, FS_Interval
<1>5. Cardinality({e} \X (1..Size(e))) = Cardinality({e}) * Cardinality(1..Size(e))
  BY <1>2, <1>4, FS_Product, Zenon
<1>6. Cardinality({e} \X (1..Size(e))) = Size(e)
  BY <1>2, <1>3, <1>4, <1>5
<1>7. Bytes({e}) = Cardinality(Cells({e}))
  BY DEF Bytes, Cells
<1> QED BY <1>1, <1>6, <1>7

LEMMA NothingIsSmall == Cardinality({}) = 0 /\ Bytes({}) = 0
<1>1. UNION {{e} \X DOMAIN e.messages : e \in {}} = {}
  OBVIOUS
<1> QED BY <1>1, FS_EmptySet DEF Bytes

Less == {ss \in Nat \X Nat : ss[1] < ss[2]}

LEMMA LessIsWellFounded == IsWellFoundedOn(Less, Nat)
<1>1. Less = OpToRel(<, Nat)
  BY Zenon DEF Less, OpToRel
<1> QED BY <1>1, NatLessThanWellFounded, Zenon

(* Any rows have an oldest one. *)
LEMMA OldestExists ==
  ASSUME NEW rows, RowsOK(rows), rows # {}
  PROVE  \E e \in rows : \A f \in rows : e.at <= f.at
<1> DEFINE times == {e.at : e \in rows}
<1>1. times \subseteq Nat /\ times # {}
  BY DEF RowsOK, EntryType
<1>2. \E x \in times : \A y \in times : ~ (<<y, x>> \in Less)
  BY <1>1, LessIsWellFounded, WFMin
<1>3. PICK x \in times : \A y \in times : ~ (<<y, x>> \in Less)
  BY <1>2
<1> HIDE DEF times
<1>4. \A y \in times : x <= y
  <2> SUFFICES ASSUME NEW y \in times, y < x PROVE FALSE
    BY <1>1
  <2>1. <<y, x>> \in Nat \X Nat /\ <<y, x>>[1] < <<y, x>>[2]
    BY <1>1
  <2> QED BY <1>3, <2>1 DEF Less
<1> QED BY <1>4 DEF times

(* _prune leaves a table within both caps. *)
LEMMA PruneCaps ==
  ASSUME NEW rows, RowsOK(rows), NEW time \in Nat
  PROVE  /\ Prune(rows, time) \in SUBSET rows
         /\ Cardinality(Prune(rows, time)) <= MaxRows
         /\ Bytes(Prune(rows, time)) <= MaxBytes
<1> DEFINE live == {e \in rows : ~Expired(e, time)}
           capped == {e \in live : Cardinality(Newer(e, live)) <= MaxRows}
           kept == {e \in capped : Bytes(Newer(e, capped)) <= MaxBytes}
<1>1. Prune(rows, time) = kept
  BY DEF Prune
<1>2. RowsOK(live) /\ RowsOK(capped) /\ RowsOK(kept)
  BY SubRowsOK
<1>3. CASE kept = {}
  <2>1. MaxRows \in Nat /\ MaxBytes \in Nat
    BY CapsAssumption
  <2> HIDE DEF kept
  <2>2. Cardinality(kept) = 0 /\ Bytes(kept) = 0 /\ kept \in SUBSET rows
    BY <1>3, NothingIsSmall
  <2> QED BY <1>1, <2>1, <2>2
<1>4. CASE kept # {}
  <2>1. PICK m \in kept : \A e \in kept : m.at <= e.at
    BY <1>2, <1>4, OldestExists
  <2>2. kept \in SUBSET Newer(m, live) /\ kept \in SUBSET Newer(m, capped)
    BY <1>2, <2>1 DEF Newer, RowsOK, EntryType
  <2>3. RowsOK(Newer(m, live)) /\ RowsOK(Newer(m, capped))
    BY <1>2, SubRowsOK DEF Newer
  <2>4. /\ Cardinality(kept) <= Cardinality(Newer(m, live))
        /\ Cardinality(kept) \in Nat /\ Cardinality(Newer(m, live)) \in Nat
    BY <2>2, <2>3, SubRowsOK
  <2>5. /\ Bytes(kept) <= Bytes(Newer(m, capped))
        /\ Bytes(kept) \in Nat /\ Bytes(Newer(m, capped)) \in Nat
    BY <2>2, <2>3, BytesMonotone
  <2>6. Cardinality(Newer(m, live)) <= MaxRows /\ Bytes(Newer(m, capped)) <= MaxBytes
    OBVIOUS
  <2>7. MaxRows \in Nat /\ MaxBytes \in Nat
    BY CapsAssumption
  <2> QED BY <1>1, <2>4, <2>5, <2>6, <2>7
<1> QED BY <1>3, <1>4

(* The newest row is never pruned. *)
LEMMA PruneKeepsNewest ==
  ASSUME NEW rows, RowsOK(rows), NEW e \in rows, \A f \in rows : f.at <= e.at
  PROVE  e \in Prune(rows, e.at)
<1> DEFINE live == {f \in rows : ~Expired(f, e.at)}
           capped == {f \in live : Cardinality(Newer(f, live)) <= MaxRows}
<1>1. /\ TTL \in Nat /\ MaxRows \in Nat \ {0} /\ MaxBytes \in Nat /\ MaxEntry \in Nat
      /\ MaxEntry <= MaxBytes
  BY CapsAssumption
<1>2. \A f \in rows : f.at \in Nat
  BY DEF RowsOK, EntryType
<1>3. e \in live
  BY <1>1, <1>2 DEF Expired
<1>4. Newer(e, live) = {e}
  BY <1>2, <1>3 DEF Newer, RowsOK
<1>5. e \in capped
  <2>1. Cardinality(Newer(e, live)) = 1
    BY <1>4, FS_Singleton
  <2>2. 1 <= MaxRows
    BY <1>1
  <2> QED BY <1>3, <2>1, <2>2
<1>6. Newer(e, capped) = {e}
  BY <1>4, <1>5 DEF Newer
<1>7. Bytes(Newer(e, capped)) <= MaxBytes
  <2>1. Bytes(Newer(e, capped)) = Size(e)
    BY <1>6, BytesOfOne
  <2>2. Size(e) \in 1..MaxEntry
    BY RowMessages
  <2> QED BY <1>1, <2>1, <2>2
<1> QED BY <1>5, <1>7 DEF Prune

(* What is pruned has expired, or is older than all that stays and does not *)
(* fit in with what is newer.                                               *)
LEMMA PruneDropsOldest ==
  ASSUME NEW rows, RowsOK(rows), NEW time \in Nat,
         NEW d \in rows, d \notin Prune(rows, time), ~Expired(d, time),
         NEW rest, rest = {e \in rows : ~Expired(e, time) /\ e.at >= d.at}
  PROVE  /\ \A e \in Prune(rows, time) : d.at < e.at
         /\ Cardinality(rest) > MaxRows \/ Bytes(rest) > MaxBytes
<1> DEFINE live == {e \in rows : ~Expired(e, time)}
           capped == {e \in live : Cardinality(Newer(e, live)) <= MaxRows}
           kept == {e \in capped : Bytes(Newer(e, capped)) <= MaxBytes}
<1>1. Prune(rows, time) = kept
  BY DEF Prune
<1>2. RowsOK(live) /\ RowsOK(capped)
  BY SubRowsOK
<1>3. /\ \A e \in rows : e.at \in Nat
      /\ MaxRows \in Nat /\ MaxBytes \in Nat
  BY CapsAssumption DEF RowsOK, EntryType
<1>4. d \in live /\ rest = Newer(d, live)
  BY DEF Newer
<1>5. \A e \in live : /\ RowsOK(Newer(e, live)) /\ RowsOK(Newer(e, capped))
                      /\ Cardinality(Newer(e, live)) \in Nat
                      /\ Bytes(Newer(e, capped)) \in Nat
  <2> SUFFICES ASSUME NEW e \in live
               PROVE  /\ RowsOK(Newer(e, live)) /\ RowsOK(Newer(e, capped))
                      /\ Cardinality(Newer(e, live)) \in Nat
                      /\ Bytes(Newer(e, capped)) \in Nat
    OBVIOUS
  <2>1. Newer(e, live) \in SUBSET live /\ Newer(e, capped) \in SUBSET capped
    BY DEF Newer
  <2> QED BY <1>2, <2>1, SubRowsOK, BytesMonotone
<1> HIDE DEF live
<1>6. CASE d \notin capped
  <2>1. Cardinality(rest) > MaxRows /\ ~(Cardinality(Newer(d, live)) <= MaxRows)
    <3>1. ~(Cardinality(Newer(d, live)) <= MaxRows)
      BY <1>4, <1>6
    <3>2. Cardinality(Newer(d, live)) \in Nat
      BY <1>4, <1>5
    <3> QED BY <1>3, <1>4, <3>1, <3>2
  <2>2. ASSUME NEW e \in kept, e.at <= d.at
        PROVE  FALSE
    <3>1. Newer(d, live) \in SUBSET Newer(e, live)
      BY <1>3, <1>4, <2>2 DEF Newer, live
    <3>2. Cardinality(Newer(d, live)) <= Cardinality(Newer(e, live))
      BY <1>5, <3>1, SubRowsOK
    <3>3. /\ Cardinality(Newer(e, live)) <= MaxRows
          /\ Cardinality(Newer(e, live)) \in Nat /\ Cardinality(Newer(d, live)) \in Nat
      BY <1>4, <1>5, <2>2
    <3> HIDE DEF capped
    <3> QED BY <1>3, <2>1, <3>2, <3>3
  <2> QED BY <1>1, <1>3, <1>4, <2>1, <2>2 DEF live
<1>7. CASE d \in capped
  <2>1. Newer(d, capped) \in SUBSET rest /\ RowsOK(rest)
    BY <1>4, <1>5 DEF Newer
  <2>2. Bytes(Newer(d, capped)) > MaxBytes
    BY <1>1, <1>3, <1>4, <1>5, <1>7
  <2>3. Bytes(rest) > MaxBytes
    BY <1>3, <2>1, <2>2, BytesMonotone
  <2>4. ASSUME NEW e \in kept, e.at <= d.at
        PROVE  FALSE
    <3>1. Newer(d, capped) \in SUBSET Newer(e, capped)
      BY <1>3, <2>4 DEF Newer, live
    <3>2. Bytes(Newer(d, capped)) <= Bytes(Newer(e, capped))
      BY <1>5, <3>1, BytesMonotone
    <3> QED BY <1>3, <1>4, <1>5, <2>2, <3>2
  <2> QED BY <1>1, <1>3, <1>4, <2>3, <2>4 DEF live
<1> QED BY <1>6, <1>7

-----------------------------------------------------------------------------
(* What a step does to the turns and to the table *)

LEMMA InitIInv == Init => IInv
<1> SUFFICES ASSUME Init PROVE IInv
  OBVIOUS
<1> USE DEF Init
<1>1. Types
  <2>1. NoTurn \in TurnType
    BY RoundsAssumption DEF NoTurn, TurnType
  <2>2. MaxTime \in Nat
    BY CapsAssumption
  <2>3. turn \in [Turns -> TurnType]
    BY <2>1
  <2>4. table \subseteq EntryType /\ delivered \subseteq Ids
    OBVIOUS
  <2>5. now \in 0..MaxTime
    BY <2>2
  <2>6. due \in BOOLEAN
    OBVIOUS
  <2> HIDE DEF Init
  <2> QED BY <2>3, <2>4, <2>5, <2>6 DEF Types
<1>2. RowsInv
  BY FS_EmptySet DEF RowsInv
<1>3. EntryInv /\ DeliveredInv
  BY DEF EntryInv, DeliveredInv
<1>4. TurnInv
  <2>1. Len(<<>>) = 0
    OBVIOUS
  <2> QED BY <2>1, RoundsAssumption DEF TurnInv, NoTurn
<1>5. CapsHold
  BY NothingIsSmall, CapsAssumption DEF CapsHold
<1> QED BY <1>1, <1>2, <1>3, <1>4, <1>5 DEF IInv

LEMMA TableIsOK == IInv => RowsOK(table)
BY DEF IInv, Types, RowsInv, RowsOK

LEMMA SeqsOfTurn ==
  ASSUME IInv, NEW t \in Turns
  PROVE  /\ turn[t] \in TurnType
         /\ turn[t].said \in Seq(Message) /\ turn[t].input \in Seq(Message)
         /\ turn[t].messages \in Seq(Message)
         /\ turn[t].round \in 0..MaxRounds
BY DEF IInv, Types, TurnType

(* The turns a step leaves alone, or ends without adding to them. *)
Stops ==
  /\ turn' \in [Turns -> TurnType]
  /\ \A t \in Turns :
       /\ turn'[t].prev = turn[t].prev /\ turn'[t].round = turn[t].round
       /\ turn'[t].said = turn[t].said /\ turn'[t].input = turn[t].input
       /\ turn'[t].messages = turn[t].messages
       /\ \/ turn'[t].phase = turn[t].phase
          \/ turn[t].phase = "posted" /\ turn'[t].phase = "done"

LEMMA EndedStops == IInv /\ turn' = Ended => Stops /\ \A t \in Turns : turn'[t].phase # "posted"
<1> SUFFICES ASSUME IInv, turn' = Ended
             PROVE  Stops /\ \A t \in Turns : turn'[t].phase # "posted"
  OBVIOUS
<1>1. \A t \in Turns : turn[t] \in TurnType
  BY SeqsOfTurn
<1>2. \A t \in Turns : turn'[t] = IF turn[t].phase = "posted"
                                   THEN [turn[t] EXCEPT !.phase = "done"] ELSE turn[t]
  BY DEF Ended
<1>3. ASSUME NEW t \in Turns
      PROVE  turn'[t] \in TurnType
  <2>1. CASE turn[t].phase = "posted"
    <3>1. turn'[t] = [turn[t] EXCEPT !.phase = "done"]
      BY <1>2, <2>1
    <3> QED BY <1>1, <3>1 DEF TurnType
  <2>2. CASE turn[t].phase # "posted"
    BY <1>1, <1>2, <2>2
  <2> QED BY <2>1, <2>2
<1>4. turn' \in [Turns -> TurnType]
  BY <1>3 DEF Ended
<1>5. ASSUME NEW t \in Turns, turn[t].phase = "posted"
      PROVE  /\ turn'[t].prev = turn[t].prev /\ turn'[t].round = turn[t].round
             /\ turn'[t].said = turn[t].said /\ turn'[t].input = turn[t].input
             /\ turn'[t].messages = turn[t].messages
             /\ turn'[t].phase = "done"
  BY <1>1, <1>2, <1>5 DEF TurnType
<1>6. ASSUME NEW t \in Turns, turn[t].phase # "posted"
      PROVE  turn'[t] = turn[t]
  BY <1>2, <1>6
<1>7. ASSUME NEW t \in Turns
      PROVE  /\ turn'[t].prev = turn[t].prev /\ turn'[t].round = turn[t].round
             /\ turn'[t].said = turn[t].said /\ turn'[t].input = turn[t].input
             /\ turn'[t].messages = turn[t].messages
             /\ \/ turn'[t].phase = turn[t].phase
                \/ turn[t].phase = "posted" /\ turn'[t].phase = "done"
             /\ turn'[t].phase # "posted"
  BY <1>5, <1>6
<1> QED BY <1>4, <1>7 DEF Stops

LEMMA DoneStops ==
  ASSUME IInv, NEW t \in Turns, turn[t].phase = "posted",
         turn' = [turn EXCEPT ![t].phase = "done"]
  PROVE  Stops /\ turn'[t].phase = "done"
<1>1. turn \in [Turns -> TurnType] /\ turn[t] \in TurnType
  BY SeqsOfTurn DEF IInv, Types
<1>2. turn' = [turn EXCEPT ![t] = [turn[t] EXCEPT !.phase = "done"]]
  OBVIOUS
<1>3. [turn[t] EXCEPT !.phase = "done"] \in TurnType
  BY <1>1 DEF TurnType
<1>4. turn' \in [Turns -> TurnType] /\ \A u \in Turns \ {t} : turn'[u] = turn[u]
  BY <1>1, <1>2, <1>3
<1>5. turn'[t] = [turn[t] EXCEPT !.phase = "done"]
  BY <1>1, <1>2
<1>6. /\ turn'[t].prev = turn[t].prev /\ turn'[t].round = turn[t].round
      /\ turn'[t].said = turn[t].said /\ turn'[t].input = turn[t].input
      /\ turn'[t].messages = turn[t].messages
      /\ turn'[t].phase = "done"
  BY <1>1, <1>5 DEF TurnType
<1>7. ASSUME NEW u \in Turns
      PROVE  /\ turn'[u].prev = turn[u].prev /\ turn'[u].round = turn[u].round
             /\ turn'[u].said = turn[u].said /\ turn'[u].input = turn[u].input
             /\ turn'[u].messages = turn[u].messages
             /\ \/ turn'[u].phase = turn[u].phase
                \/ turn[u].phase = "posted" /\ turn'[u].phase = "done"
  <2>1. CASE u = t
    BY <1>6, <2>1
  <2>2. CASE u # t
    BY <1>4, <2>2
  <2> QED BY <2>1, <2>2
<1> QED BY <1>4, <1>6, <1>7 DEF Stops

(* The row a posted turn would store: new, and the end of what was said. *)
LEMMA EntryFacts ==
  ASSUME IInv, NEW t \in Turns, Storing(t), NEW e, e = Entry(t)
  PROVE  /\ e \in EntryType
         /\ e.id = <<t, turn[t].round>> /\ e.at = now + 1
         /\ e.messages = Append(turn[t].messages, Answer(t))
         /\ e.messages \in Seq(Message)
         /\ Size(e) = Len(turn[t].messages) + 1 /\ Size(e) \in Nat \ {0}
         /\ Ends(e.messages, Append(turn[t].said, Answer(t)))
         /\ Append(turn[t].said, Answer(t)) \in Seq(Message)
         /\ Answer(t) \in Message
         /\ \A f \in table : f.id # e.id /\ f.at < e.at
         /\ now' = now + 1 /\ now' \in 0..MaxTime
<1>1. /\ turn[t].phase = "posted" /\ now \in 0..MaxTime
      /\ now' = now + 1 /\ now' \in 0..MaxTime
  BY CapsAssumption DEF Storing, IInv, Types
<1>2. turn[t].round \in 1..MaxRounds
  BY <1>1, SeqsOfTurn, RoundsAssumption DEF IInv, TurnInv
<1>3. Answer(t) \in Message
  BY <1>2, RoundsAssumption DEF Answer, Message
<1>4. e = [id |-> <<t, turn[t].round>>, at |-> now + 1,
           messages |-> Append(turn[t].messages, Answer(t))]
  BY <1>1 DEF Entry
<1>5. /\ Append(turn[t].messages, Answer(t)) \in Seq(Message)
      /\ Len(Append(turn[t].messages, Answer(t))) = Len(turn[t].messages) + 1
      /\ Len(turn[t].messages) \in Nat
      /\ Append(turn[t].said, Answer(t)) \in Seq(Message)
  BY <1>3, SeqsOfTurn, AppendProperties, LenProperties
<1>6. Ends(Append(turn[t].messages, Answer(t)), Append(turn[t].said, Answer(t)))
  <2>1. <<Answer(t)>> \in Seq(Message)
    BY <1>3
  <2>2. Ends(turn[t].messages, turn[t].said)
    BY <1>1 DEF IInv, TurnInv
  <2>3. Ends(turn[t].messages \o <<Answer(t)>>, turn[t].said \o <<Answer(t)>>)
    BY <2>1, <2>2, SeqsOfTurn, EndsConcat
  <2> QED BY <1>3, <2>3, SeqsOfTurn, AppendIsConcat
<1>7. e \in EntryType
  BY <1>1, <1>2, <1>4, <1>5 DEF EntryType, Ids
<1>8. e.id[1] = t /\ e.id[2] = turn[t].round
  BY <1>4
<1>9. ASSUME NEW f \in table
      PROVE  f.id # e.id /\ f.at < e.at
  <2>1. f.at <= now /\ f.at \in Nat /\ f.id \in Ids
    BY DEF IInv, RowsInv, Types, EntryType
  <2>2. f.id[1] = t => f.id[2] < turn[t].round
    BY <1>1 DEF IInv, EntryInv
  <2> QED BY <1>1, <1>2, <1>4, <1>8, <2>1, <2>2 DEF Ids
<1> QED BY <1>1, <1>3, <1>4, <1>5, <1>6, <1>7, <1>9 DEF Size

LEMMA OneRowMore ==
  ASSUME IInv, NEW t \in Turns, Storing(t), NEW e, e = Entry(t), Size(e) <= MaxEntry
  PROVE  RowsOK(table \cup {e})
<1>1. RowsOK(table) /\ MaxEntry \in Nat
  BY TableIsOK, CapsAssumption
<1>2. e \in EntryType /\ Size(e) \in 1..MaxEntry /\ \A f \in table : f.at < e.at
  BY <1>1, EntryFacts
<1>3. IsFiniteSet(table \cup {e})
  BY <1>1, FS_AddElement DEF RowsOK
<1>4. \A f \in table : f.at \in Nat /\ e.at \in Nat
  BY <1>1, <1>2 DEF RowsOK, EntryType
<1> QED BY <1>1, <1>2, <1>3, <1>4 DEF RowsOK

(* The rows stay as they should be when some go and that one may come. *)
LEMMA RowsAfter ==
  ASSUME IInv, NEW t \in Turns, Storing(t), NEW e, e = Entry(t),
         table' \subseteq table \cup {e}, e \in table' => Size(e) <= MaxEntry
  PROVE  table' \subseteq EntryType /\ RowsInv'
<1>1. RowsOK(table) /\ MaxEntry \in Nat
  BY TableIsOK, CapsAssumption
<1>2. /\ e \in EntryType /\ Size(e) \in Nat \ {0} /\ now' = now + 1 /\ e.at = now + 1
      /\ \A f \in table : f.id # e.id /\ f.at < e.at
  BY EntryFacts
<1>3. IsFiniteSet(table \cup {e})
  BY <1>1, FS_AddElement DEF RowsOK
<1>4. IsFiniteSet(table')
  BY <1>3, FS_Subset
<1>5. now \in Nat /\ \A f \in table : f.at <= now /\ f.at \in Nat /\ Size(f) \in 1..MaxEntry
  BY DEF IInv, Types, RowsInv, EntryType
<1>6. \A f \in table' : f.at <= now' /\ Size(f) \in 1..MaxEntry
  BY <1>1, <1>2, <1>5
<1>7. \A f, g \in table' : f.id = g.id \/ f.at = g.at => f = g
  <2>1. \A f, g \in table : f.id = g.id \/ f.at = g.at => f = g
    BY DEF IInv, RowsInv
  <2> QED BY <1>2, <1>5, <2>1
<1>8. table' \subseteq EntryType
  BY <1>1, <1>2 DEF RowsOK
<1> QED BY <1>4, <1>6, <1>7, <1>8 DEF RowsInv, Size

LEMMA RowsFewer ==
  ASSUME IInv, table' \subseteq table, now' \in 0..MaxTime, now' >= now
  PROVE  table' \subseteq EntryType /\ RowsInv'
<1>1. IsFiniteSet(table')
  BY FS_Subset DEF IInv, RowsInv
<1>2. \A f \in table' : f.at <= now'
  BY DEF IInv, Types, RowsInv, EntryType
<1> QED BY <1>1, <1>2 DEF IInv, Types, RowsInv, Size

(* store leaves a table within the caps, or the one there was. *)
LEMMA StoreFacts ==
  ASSUME IInv, NEW t \in Turns, Storing(t), NEW e, e = Entry(t), Store(e)
  PROVE  /\ table' \subseteq table \cup {e}
         /\ e \in table' <=> Size(e) <= MaxEntry
         /\ Size(e) <= MaxEntry => table' = Prune(table \cup {e}, e.at)
         /\ due' \in BOOLEAN
         /\ CapsHold'
<1>1. /\ e \in EntryType /\ e.at \in Nat /\ Size(e) \in Nat /\ e \notin table
      /\ \A f \in table : f.at < e.at /\ f.at \in Nat
  <2>1. /\ e \in EntryType /\ Size(e) \in Nat
        /\ \A f \in table : f.id # e.id /\ f.at < e.at
    BY EntryFacts
  <2> QED BY <2>1 DEF EntryType, IInv, Types
<1>2. CASE Size(e) <= MaxEntry
  <2>1. Insert(e) = table \cup {e} /\ Insert(e) # table
    <3>1. Insert(e) = table \cup {e}
      BY <1>1, <1>2, CapsAssumption DEF Insert
    <3>2. e \in Insert(e)
      BY <3>1
    <3> QED BY <1>1, <3>1, <3>2
  <2>2. table' = Prune(table \cup {e}, e.at) /\ due' = FALSE
    BY <2>1, Zenon DEF Store
  <2>3. RowsOK(table \cup {e})
    BY <1>2, OneRowMore
  <2>4. e \in Prune(table \cup {e}, e.at)
    <3>1. \A f \in table \cup {e} : f.at <= e.at
      BY <1>1
    <3> QED BY <2>3, <3>1, PruneKeepsNewest
  <2>5. /\ Prune(table \cup {e}, e.at) \in SUBSET (table \cup {e})
        /\ Cardinality(Prune(table \cup {e}, e.at)) <= MaxRows
        /\ Bytes(Prune(table \cup {e}, e.at)) <= MaxBytes
    BY <1>1, <2>3, PruneCaps
  <2>6. CapsHold'
    BY <2>2, <2>5 DEF CapsHold, Bytes
  <2> QED BY <1>2, <2>2, <2>4, <2>5, <2>6
<1>3. CASE ~(Size(e) <= MaxEntry)
  <2>1. Insert(e) = table
    BY <1>1, <1>3, CapsAssumption DEF Insert
  <2>2. table' = table /\ due' = due
    BY <2>1 DEF Store, IInv, Types
  <2>3. CapsHold'
    BY <2>2 DEF IInv, CapsHold, Bytes
  <2> QED BY <1>1, <1>3, <2>2, <2>3 DEF IInv, Types
<1> QED BY <1>2, <1>3

-----------------------------------------------------------------------------
(* The inductive invariant is preserved *)

(* Rows that go do no harm to the caps. *)
LEMMA FewerWithinCaps ==
  ASSUME IInv, table' \subseteq table, due' = due
  PROVE  CapsHold'
<1>1. Cardinality(table') \in Nat /\ Cardinality(table) \in Nat
      /\ Cardinality(table') <= Cardinality(table)
  BY TableIsOK, SubRowsOK
<1>2. Bytes(table') \in Nat /\ Bytes(table) \in Nat /\ Bytes(table') <= Bytes(table)
  BY TableIsOK, BytesMonotone
<1>3. MaxRows \in Nat /\ MaxBytes \in Nat
  BY CapsAssumption
<1>4. ~due => Cardinality(table) <= MaxRows /\ Bytes(table) <= MaxBytes
  BY DEF IInv, CapsHold
<1>5. ~due => Cardinality(table') <= MaxRows /\ Bytes(table') <= MaxBytes
  BY <1>1, <1>2, <1>3, <1>4
<1> QED BY <1>5 DEF CapsHold, Bytes

(* Turns stop or stay as they are, rows may go. *)
LEMMA QuietIInv ==
  ASSUME IInv, Stops, table' \subseteq table, due' = due, delivered' = delivered,
         now' \in 0..MaxTime, now' >= now
  PROVE  IInv'
<1>1. table' \subseteq EntryType /\ RowsInv'
  BY RowsFewer
<1>2. Types'
  BY <1>1 DEF IInv, Types, Stops
<1>3. EntryInv'
  <2> SUFFICES ASSUME NEW f \in table'
               PROVE  /\ turn'[f.id[1]].phase # "idle"
                      /\ turn'[f.id[1]].phase = "posted" => f.id[2] < turn'[f.id[1]].round
                      /\ f.id \in delivered => Ends(f.messages, turn'[f.id[1]].said)
    BY DEF EntryInv, Ends
  <2>1. f \in table /\ f.id[1] \in Turns
    BY DEF IInv, Types, EntryType, Ids
  <2> QED BY <2>1 DEF IInv, EntryInv, Stops
<1>4. DeliveredInv'
  BY DEF IInv, Types, DeliveredInv, Stops, Ids
<1>5. TurnInv'
  <2> SUFFICES ASSUME NEW u \in Turns
               PROVE  /\ turn'[u].prev \in delivered \cup {None}
                      /\ Len(turn'[u].messages) <= MaxPrompt
                      /\ turn'[u].phase = "posted" =>
                           /\ turn'[u].round >= 1
                           /\ Ends(turn'[u].messages, turn'[u].said)
                           /\ Ends(turn'[u].input, turn'[u].said)
    BY DEF TurnInv, Ends
  <2>1. /\ turn'[u].prev = turn[u].prev /\ turn'[u].round = turn[u].round
        /\ turn'[u].said = turn[u].said /\ turn'[u].input = turn[u].input
        /\ turn'[u].messages = turn[u].messages
        /\ turn'[u].phase = "posted" => turn[u].phase = "posted"
    BY DEF Stops
  <2> QED BY <2>1 DEF IInv, TurnInv
<1>6. CapsHold'
  BY FewerWithinCaps
<1> QED BY <1>1, <1>2, <1>3, <1>4, <1>5, <1>6 DEF IInv

(* A turn stops after its row was inserted: _prune is due. *)
LEMMA CutShortIInv ==
  ASSUME IInv, NEW t \in Turns, Storing(t), NEW e, e = Entry(t), Size(e) <= MaxEntry,
         table' = table \cup {e}, due' = TRUE, delivered' = delivered,
         Stops, turn'[t].phase = "done"
  PROVE  IInv'
<1>1. table' \subseteq EntryType /\ RowsInv'
  BY RowsAfter
<1>2. now' \in 0..MaxTime /\ e.id = <<t, turn[t].round>>
  BY EntryFacts
<1>3. Types'
  BY <1>1, <1>2 DEF IInv, Types, Stops
<1>4. e.id \notin delivered
  BY <1>2 DEF IInv, DeliveredInv, Storing
<1>5. EntryInv'
  <2> SUFFICES ASSUME NEW f \in table'
               PROVE  /\ turn'[f.id[1]].phase # "idle"
                      /\ turn'[f.id[1]].phase = "posted" => f.id[2] < turn'[f.id[1]].round
                      /\ f.id \in delivered => Ends(f.messages, turn'[f.id[1]].said)
    BY DEF EntryInv, Ends
  <2>1. CASE f = e
    BY <1>2, <1>4, <2>1
  <2>2. CASE f \in table
    <3>1. f.id[1] \in Turns
      BY <2>2 DEF IInv, Types, EntryType, Ids
    <3> QED BY <2>2, <3>1 DEF IInv, EntryInv, Stops
  <2> QED BY <2>1, <2>2
<1>6. DeliveredInv'
  BY DEF IInv, Types, DeliveredInv, Stops, Ids
<1>7. TurnInv'
  <2> SUFFICES ASSUME NEW u \in Turns
               PROVE  /\ turn'[u].prev \in delivered \cup {None}
                      /\ Len(turn'[u].messages) <= MaxPrompt
                      /\ turn'[u].phase = "posted" =>
                           /\ turn'[u].round >= 1
                           /\ Ends(turn'[u].messages, turn'[u].said)
                           /\ Ends(turn'[u].input, turn'[u].said)
    BY DEF TurnInv, Ends
  <2>1. /\ turn'[u].prev = turn[u].prev /\ turn'[u].round = turn[u].round
        /\ turn'[u].said = turn[u].said /\ turn'[u].input = turn[u].input
        /\ turn'[u].messages = turn[u].messages
        /\ turn'[u].phase = "posted" => turn[u].phase = "posted"
    BY DEF Stops
  <2> QED BY <2>1 DEF IInv, TurnInv
<1>8. CapsHold'
  BY DEF CapsHold
<1> QED BY <1>1, <1>3, <1>5, <1>6, <1>7, <1>8 DEF IInv

(* What get returns for a response the client has got. *)
LEMMA GetFacts ==
  ASSUME IInv, NEW id \in delivered, NEW got \in Get(id)
  PROVE  /\ got.table \subseteq table
         /\ got.messages \in Seq(Message)
         /\ Ends(got.messages, turn[id[1]].said)
<1> DEFINE found == {e \in table : e.id = id}
           fresh == {e \in found : ~Expired(e, now)}
<1>1. id \in Ids /\ id[1] \in Turns
  BY DEF IInv, Types, Ids
<1>2. \/ \E e \in fresh : got = [messages |-> e.messages, table |-> table]
      \/ got = [messages |-> <<>>, table |-> table \ found]
  BY DEF Get
<1>3. ASSUME NEW e \in fresh, got = [messages |-> e.messages, table |-> table]
      PROVE  /\ got.table \subseteq table
             /\ got.messages \in Seq(Message)
             /\ Ends(got.messages, turn[id[1]].said)
  BY <1>3 DEF IInv, Types, EntryType, EntryInv
<1>4. CASE got = [messages |-> <<>>, table |-> table \ found]
  <2>1. got.messages = <<>> /\ got.table \subseteq table
    BY <1>4
  <2>2. <<>> \in Seq(Message)
    OBVIOUS
  <2> QED BY <1>1, <2>1, <2>2, SeqsOfTurn, EndsEmpty
<1> QED BY <1>2, <1>3, <1>4

(* A turn that is asked begins with the end of the conversation it continues. *)
LEMMA AskFacts ==
  ASSUME IInv, NEW t \in Turns, NEW prev \in delivered \cup {None}, Ask(t, prev)
  PROVE  /\ table' \subseteq table
         /\ \E l \in TurnType :
              /\ turn' = [turn EXCEPT ![t] = l]
              /\ l.phase = "posted" /\ l.prev = prev /\ l.round = 1
              /\ Len(l.messages) <= MaxPrompt
              /\ Ends(l.messages, l.said) /\ Ends(l.input, l.said)
<1> DEFINE question == <<<<t, 1>>>>
           before == IF prev = None THEN <<>> ELSE turn[prev[1]].said
<1>1. PICK got \in IF prev = None THEN {[messages |-> <<>>, table |-> table]} ELSE Get(prev) :
        /\ table' = got.table
        /\ turn' = [turn EXCEPT ![t] =
             [phase |-> "posted", prev |-> prev, round |-> 1,
              said |-> before \o question, input |-> question,
              messages |-> Truncate(got.messages \o question),
              first |-> Truncate(got.messages \o question)]]
  BY Zenon DEF Ask
<1>2. question \in Seq(Message)
  BY RoundsAssumption DEF Message
<1>3. <<>> \in Seq(Message)
  OBVIOUS
<1>4. /\ got.table \subseteq table
      /\ got.messages \in Seq(Message) /\ before \in Seq(Message)
      /\ Ends(got.messages, before)
  <2>1. CASE prev = None
    <3>1. got.messages = <<>> /\ got.table = table /\ before = <<>>
      BY <1>1, <2>1
    <3> QED BY <1>3, <3>1, EndsEmpty
  <2>2. CASE prev # None
    <3>1. prev \in delivered /\ got \in Get(prev) /\ before = turn[prev[1]].said
      BY <1>1, <2>2
    <3>2. prev[1] \in Turns
      BY <3>1 DEF IInv, Types, Ids
    <3> QED BY <3>1, <3>2, GetFacts, SeqsOfTurn
  <2> QED BY <2>1, <2>2
<1> HIDE DEF question, before
<1>5. PICK m : m = got.messages \o question
  OBVIOUS
<1>6. PICK s : s = before \o question
  OBVIOUS
<1>7. /\ m \in Seq(Message) /\ s \in Seq(Message) /\ Ends(m, s)
      /\ Ends(question, s)
  <2>1. m \in Seq(Message) /\ s \in Seq(Message)
    BY <1>2, <1>4, <1>5, <1>6, ConcatProperties
  <2>2. Ends(m, s)
    BY <1>2, <1>4, <1>5, <1>6, EndsConcat
  <2>3. Ends(<<>> \o question, s)
    BY <1>2, <1>3, <1>4, <1>6, EndsConcat, EndsEmpty
  <2>4. <<>> \o question = question
    BY <1>2, ConcatEmptySeq
  <2> QED BY <2>1, <2>2, <2>3, <2>4
<1>8. PICK c : c = Truncate(m)
  OBVIOUS
<1>9. c \in Seq(Message) /\ Len(c) <= MaxPrompt /\ Ends(c, s)
  BY <1>7, <1>8, TruncateEnds, EndsTransitive
<1>10. PICK l : l = [phase |-> "posted", prev |-> prev, round |-> 1, said |-> s,
                     input |-> question, messages |-> c, first |-> c]
  OBVIOUS
<1>11. /\ l.phase = "posted" /\ l.prev = prev /\ l.round = 1 /\ l.said = s
       /\ l.input = question /\ l.messages = c
  BY <1>10
<1>12. l \in TurnType
  <2>1. prev \in Ids \cup {None} /\ 1 \in 0..MaxRounds
    BY RoundsAssumption DEF IInv, Types
  <2> QED BY <1>2, <1>7, <1>9, <1>10, <2>1 DEF TurnType
<1>13. turn' = [turn EXCEPT ![t] = l]
  BY <1>1, <1>5, <1>6, <1>8, <1>10
<1> QED BY <1>1, <1>4, <1>7, <1>9, <1>11, <1>12, <1>13

LEMMA OneTurnChanges ==
  ASSUME IInv, NEW t \in Turns, NEW l \in TurnType, turn' = [turn EXCEPT ![t] = l]
  PROVE  /\ turn' \in [Turns -> TurnType]
         /\ turn'[t] = l
         /\ \A u \in Turns : u # t => turn'[u] = turn[u]
BY DEF IInv, Types

LEMMA AskIInv ==
  ASSUME IInv, NEW t \in Turns, NEW prev \in delivered \cup {None}, Ask(t, prev)
  PROVE  IInv'
<1>1. PICK l \in TurnType :
        /\ turn' = [turn EXCEPT ![t] = l]
        /\ l.phase = "posted" /\ l.prev = prev /\ l.round = 1
        /\ Len(l.messages) <= MaxPrompt
        /\ Ends(l.messages, l.said) /\ Ends(l.input, l.said)
  BY AskFacts
<1>2. /\ turn' \in [Turns -> TurnType] /\ turn'[t] = l
      /\ \A u \in Turns : u # t => turn'[u] = turn[u]
  BY <1>1, OneTurnChanges
<1>3. /\ table' \subseteq table
      /\ turn[t].phase = "idle" /\ now' = now /\ due' = due /\ delivered' = delivered
  BY AskFacts DEF Ask
<1>4. table' \subseteq EntryType /\ RowsInv'
  <2>1. now' \in 0..MaxTime /\ now' >= now
    BY <1>3, CapsAssumption DEF IInv, Types
  <2> QED BY <1>3, <2>1, RowsFewer
<1>5. Types'
  BY <1>2, <1>3, <1>4 DEF IInv, Types
<1>6. EntryInv'
  <2> SUFFICES ASSUME NEW f \in table'
               PROVE  /\ turn'[f.id[1]].phase # "idle"
                      /\ turn'[f.id[1]].phase = "posted" => f.id[2] < turn'[f.id[1]].round
                      /\ f.id \in delivered => Ends(f.messages, turn'[f.id[1]].said)
    BY <1>3 DEF EntryInv, Ends
  <2>1. f \in table /\ f.id[1] \in Turns
    BY <1>3 DEF IInv, Types, EntryType, Ids
  <2>2. f.id[1] # t
    BY <1>3, <2>1 DEF IInv, EntryInv
  <2> QED BY <1>2, <2>1, <2>2 DEF IInv, EntryInv
<1>7. DeliveredInv'
  <2> SUFFICES ASSUME NEW id \in delivered PROVE turn'[id[1]].phase = "done"
    BY <1>3 DEF DeliveredInv
  <2>1. id[1] \in Turns /\ turn[id[1]].phase = "done"
    BY DEF IInv, Types, DeliveredInv, Ids
  <2> QED BY <1>2, <1>3, <2>1
<1>8. TurnInv'
  <2> SUFFICES ASSUME NEW u \in Turns
               PROVE  /\ turn'[u].prev \in delivered \cup {None}
                      /\ Len(turn'[u].messages) <= MaxPrompt
                      /\ turn'[u].phase = "posted" =>
                           /\ turn'[u].round >= 1
                           /\ Ends(turn'[u].messages, turn'[u].said)
                           /\ Ends(turn'[u].input, turn'[u].said)
    BY <1>3 DEF TurnInv, Ends
  <2>1. CASE u = t
    BY <1>1, <1>2, <2>1
  <2>2. CASE u # t
    BY <1>2, <2>2 DEF IInv, TurnInv
  <2> QED BY <2>1, <2>2
<1>9. CapsHold'
  BY <1>3, FewerWithinCaps
<1> QED BY <1>4, <1>5, <1>6, <1>7, <1>8, <1>9 DEF IInv

LEMMA FinishIInv ==
  ASSUME IInv, NEW t \in Turns, Finish(t)
  PROVE  IInv'
<1>1. Storing(t) /\ turn[t].phase = "posted"
  BY DEF Finish, Storing
<1>2. PICK e : e = Entry(t)
  OBVIOUS
<1>3. Store(e) /\ delivered' = delivered \cup {<<t, turn[t].round>>}
  BY <1>2 DEF Finish
<1>4. /\ e.id = <<t, turn[t].round>> /\ now' \in 0..MaxTime /\ Answer(t) \in Message
      /\ Append(turn[t].said, Answer(t)) \in Seq(Message)
      /\ Ends(e.messages, Append(turn[t].said, Answer(t)))
  BY <1>1, <1>2, EntryFacts
<1>5. /\ table' \subseteq table \cup {e}
      /\ e \in table' => Size(e) <= MaxEntry
      /\ due' \in BOOLEAN /\ CapsHold'
  BY <1>1, <1>2, <1>3, StoreFacts
<1>6. PICK said : said = Append(turn[t].said, Answer(t))
  OBVIOUS
<1>7. PICK l : l = [turn[t] EXCEPT !.phase = "done", !.said = said]
  OBVIOUS
<1>8. turn[t] \in TurnType
  BY SeqsOfTurn
<1>9. turn' = [turn EXCEPT ![t] = l]
  <2>1. turn' = [turn EXCEPT ![t].phase = "done", ![t].said = said]
    BY <1>6 DEF Finish
  <2> QED BY <1>7, <1>8, <2>1 DEF IInv, Types
<1>10. /\ l \in TurnType /\ l.phase = "done" /\ l.prev = turn[t].prev /\ l.said = said
       /\ l.messages = turn[t].messages
  BY <1>4, <1>6, <1>7, <1>8 DEF TurnType
<1>11. /\ turn' \in [Turns -> TurnType] /\ turn'[t] = l
       /\ \A u \in Turns : u # t => turn'[u] = turn[u]
  BY <1>9, <1>10, OneTurnChanges
<1>12. table' \subseteq EntryType /\ RowsInv'
  BY <1>1, <1>2, <1>5, RowsAfter
<1>13. Types'
  <2>1. turn[t].round \in 1..MaxRounds
    BY <1>1, <1>8, RoundsAssumption DEF IInv, TurnInv, TurnType
  <2>2. delivered' \subseteq Ids
    BY <1>3, <2>1 DEF IInv, Types, Ids
  <2> QED BY <1>4, <1>5, <1>11, <1>12, <2>2 DEF Types
<1>14. EntryInv'
  <2> SUFFICES ASSUME NEW f \in table'
               PROVE  /\ turn'[f.id[1]].phase # "idle"
                      /\ turn'[f.id[1]].phase = "posted" => f.id[2] < turn'[f.id[1]].round
                      /\ f.id \in delivered' => Ends(f.messages, turn'[f.id[1]].said)
    BY DEF EntryInv, Ends
  <2>1. CASE f = e
    <3>1. f.id[1] = t /\ turn'[f.id[1]] = l
      BY <1>4, <1>11, <2>1
    <3>2. Ends(f.messages, l.said)
      BY <1>4, <1>6, <1>10, <2>1
    <3> QED BY <1>10, <3>1, <3>2
  <2>2. CASE f \in table /\ f.id[1] = t
    <3>1. f.id[2] < turn[t].round /\ f.id \notin delivered /\ turn[t].round \in Int
      BY <1>1, <1>8, <2>2 DEF IInv, EntryInv, DeliveredInv, TurnType
    <3>2. f.id \notin delivered'
      BY <1>3, <3>1
    <3> QED BY <1>10, <1>11, <2>2, <3>2
  <2>3. CASE f \in table /\ f.id[1] # t
    <3>1. f.id[1] \in Turns
      BY <2>3 DEF IInv, Types, EntryType, Ids
    <3>2. f.id \in delivered' => f.id \in delivered
      BY <1>3, <2>3
    <3> QED BY <1>11, <2>3, <3>1, <3>2 DEF IInv, EntryInv
  <2> QED BY <1>5, <2>1, <2>2, <2>3
<1>15. DeliveredInv'
  <2> SUFFICES ASSUME NEW id \in delivered' PROVE turn'[id[1]].phase = "done"
    BY DEF DeliveredInv
  <2>1. CASE id[1] = t
    BY <1>10, <1>11, <2>1
  <2>2. CASE id[1] # t
    <3>1. id \in delivered
      BY <1>3, <2>2
    <3>2. id[1] \in Turns /\ turn[id[1]].phase = "done"
      BY <3>1 DEF IInv, Types, DeliveredInv, Ids
    <3> QED BY <1>11, <2>2, <3>2
  <2> QED BY <2>1, <2>2
<1>16. TurnInv'
  <2> SUFFICES ASSUME NEW u \in Turns
               PROVE  /\ turn'[u].prev \in delivered' \cup {None}
                      /\ Len(turn'[u].messages) <= MaxPrompt
                      /\ turn'[u].phase = "posted" =>
                           /\ turn'[u].round >= 1
                           /\ Ends(turn'[u].messages, turn'[u].said)
                           /\ Ends(turn'[u].input, turn'[u].said)
    BY DEF TurnInv, Ends
  <2>1. turn[u].prev \in delivered' \cup {None} /\ Len(turn[u].messages) <= MaxPrompt
    BY <1>3 DEF IInv, TurnInv
  <2>2. CASE u = t
    BY <1>10, <1>11, <2>1, <2>2
  <2>3. CASE u # t
    BY <1>11, <2>1, <2>3 DEF IInv, TurnInv
  <2> QED BY <2>2, <2>3
<1> QED BY <1>5, <1>12, <1>13, <1>14, <1>15, <1>16 DEF IInv

(* What the next round of a turn posts still ends what was said. *)
LEMMA InterceptFacts ==
  ASSUME IInv, NEW t \in Turns, Intercept(t)
  PROVE  \E l \in TurnType :
           /\ turn' = [turn EXCEPT ![t] = l]
           /\ l.phase = "posted" /\ l.prev = turn[t].prev /\ l.round = turn[t].round + 1
           /\ Len(l.messages) <= MaxPrompt
           /\ Ends(l.messages, l.said) /\ Ends(l.input, l.said)
<1> DEFINE added == <<Answer(t), <<t, 2 * turn[t].round + 1>>>>
<1>1. Storing(t) /\ turn[t].phase = "posted" /\ turn[t].round < MaxRounds
  BY DEF Intercept, Storing
<1>2. /\ turn[t] \in TurnType /\ turn[t].round \in 1..MaxRounds
      /\ turn[t].said \in Seq(Message) /\ turn[t].input \in Seq(Message)
      /\ Ends(turn[t].input, turn[t].said)
  BY <1>1, SeqsOfTurn, RoundsAssumption DEF IInv, TurnInv
<1>3. added \in Seq(Message)
  <2>1. 2 * turn[t].round + 1 \in 1..2 * MaxRounds /\ 2 * turn[t].round \in 1..2 * MaxRounds
    BY <1>1, <1>2, RoundsAssumption
  <2>2. Answer(t) \in Message /\ <<t, 2 * turn[t].round + 1>> \in Message
    BY <2>1 DEF Answer, Message
  <2> QED BY <2>2
<1>4. turn' = [turn EXCEPT ![t].round = turn[t].round + 1,
                           ![t].said = turn[t].said \o added,
                           ![t].input = turn[t].input \o added,
                           ![t].messages = Truncate(turn[t].input \o added)]
  BY <1>2 DEF Intercept, IInv, Types
<1> HIDE DEF added
<1>5. PICK said : said = turn[t].said \o added
  OBVIOUS
<1>6. PICK input : input = turn[t].input \o added
  OBVIOUS
<1>7. PICK messages : messages = Truncate(input)
  OBVIOUS
<1>8. said \in Seq(Message) /\ input \in Seq(Message) /\ Ends(input, said)
  BY <1>2, <1>3, <1>5, <1>6, ConcatProperties, EndsConcat
<1>9. messages \in Seq(Message) /\ Len(messages) <= MaxPrompt /\ Ends(messages, said)
  BY <1>7, <1>8, TruncateEnds, EndsTransitive
<1>10. PICK l : l = [turn[t] EXCEPT !.round = turn[t].round + 1, !.said = said,
                                    !.input = input, !.messages = messages]
  OBVIOUS
<1>11. turn[t].round + 1 \in 0..MaxRounds
  BY <1>1, <1>2, RoundsAssumption
<1>12. /\ l \in TurnType /\ l.phase = "posted" /\ l.prev = turn[t].prev
       /\ l.round = turn[t].round + 1
       /\ l.said = said /\ l.input = input /\ l.messages = messages
  BY <1>1, <1>2, <1>8, <1>9, <1>10, <1>11 DEF TurnType
<1>13. turn' = [turn EXCEPT ![t] = l]
  BY <1>2, <1>4, <1>5, <1>6, <1>7, <1>10 DEF IInv, Types
<1> QED BY <1>8, <1>9, <1>12, <1>13

LEMMA InterceptIInv ==
  ASSUME IInv, NEW t \in Turns, Intercept(t)
  PROVE  IInv'
<1>1. Storing(t) /\ turn[t].phase = "posted" /\ delivered' = delivered
  BY DEF Intercept, Storing
<1>2. PICK e : e = Entry(t)
  OBVIOUS
<1>3. Store(e)
  BY <1>2 DEF Intercept
<1>4. e.id = <<t, turn[t].round>> /\ now' \in 0..MaxTime
  BY <1>1, <1>2, EntryFacts
<1>5. /\ table' \subseteq table \cup {e}
      /\ e \in table' => Size(e) <= MaxEntry
      /\ due' \in BOOLEAN /\ CapsHold'
  BY <1>1, <1>2, <1>3, StoreFacts
<1>6. PICK l \in TurnType :
        /\ turn' = [turn EXCEPT ![t] = l]
        /\ l.phase = "posted" /\ l.prev = turn[t].prev /\ l.round = turn[t].round + 1
        /\ Len(l.messages) <= MaxPrompt
        /\ Ends(l.messages, l.said) /\ Ends(l.input, l.said)
  BY InterceptFacts
<1>7. /\ turn' \in [Turns -> TurnType] /\ turn'[t] = l
      /\ \A u \in Turns : u # t => turn'[u] = turn[u]
  BY <1>6, OneTurnChanges
<1>8. turn[t].round \in Nat /\ turn[t].round >= 1
  BY <1>1, SeqsOfTurn, RoundsAssumption DEF IInv, TurnInv
<1>9. table' \subseteq EntryType /\ RowsInv'
  BY <1>1, <1>2, <1>5, RowsAfter
<1>10. Types'
  BY <1>1, <1>4, <1>5, <1>7, <1>9 DEF IInv, Types
<1>11. EntryInv'
  <2> SUFFICES ASSUME NEW f \in table'
               PROVE  /\ turn'[f.id[1]].phase # "idle"
                      /\ turn'[f.id[1]].phase = "posted" => f.id[2] < turn'[f.id[1]].round
                      /\ f.id \in delivered => Ends(f.messages, turn'[f.id[1]].said)
    BY <1>1 DEF EntryInv, Ends
  <2>1. CASE f = e
    <3>1. f.id[1] = t /\ f.id[2] = turn[t].round
      BY <1>4, <2>1
    <3>2. f.id \notin delivered
      BY <1>1, <3>1 DEF IInv, DeliveredInv
    <3> QED BY <1>6, <1>7, <1>8, <3>1, <3>2
  <2>2. CASE f \in table /\ f.id[1] = t
    <3>1. f.id[2] < turn[t].round /\ f.id \notin delivered /\ f.id[2] \in Nat
      BY <1>1, <2>2 DEF IInv, Types, EntryType, Ids, EntryInv, DeliveredInv
    <3> QED BY <1>6, <1>7, <1>8, <2>2, <3>1
  <2>3. CASE f \in table /\ f.id[1] # t
    <3>1. f.id[1] \in Turns
      BY <2>3 DEF IInv, Types, EntryType, Ids
    <3> QED BY <1>7, <2>3, <3>1 DEF IInv, EntryInv
  <2> QED BY <1>5, <2>1, <2>2, <2>3
<1>12. DeliveredInv'
  <2> SUFFICES ASSUME NEW id \in delivered PROVE turn'[id[1]].phase = "done"
    BY <1>1 DEF DeliveredInv
  <2>1. id[1] \in Turns /\ turn[id[1]].phase = "done"
    BY DEF IInv, Types, DeliveredInv, Ids
  <2> QED BY <1>1, <1>7, <2>1
<1>13. TurnInv'
  <2> SUFFICES ASSUME NEW u \in Turns
               PROVE  /\ turn'[u].prev \in delivered \cup {None}
                      /\ Len(turn'[u].messages) <= MaxPrompt
                      /\ turn'[u].phase = "posted" =>
                           /\ turn'[u].round >= 1
                           /\ Ends(turn'[u].messages, turn'[u].said)
                           /\ Ends(turn'[u].input, turn'[u].said)
    BY <1>1 DEF TurnInv, Ends
  <2>1. CASE u = t
    <3>1. turn[t].prev \in delivered \cup {None}
      BY DEF IInv, TurnInv
    <3> QED BY <1>6, <1>7, <1>8, <2>1, <3>1
  <2>2. CASE u # t
    BY <1>7, <2>2 DEF IInv, TurnInv
  <2> QED BY <2>1, <2>2
<1> QED BY <1>5, <1>9, <1>10, <1>11, <1>12, <1>13 DEF IInv

(* What is inserted is not too large. *)
LEMMA InsertedIsSmall ==
  ASSUME IInv, NEW t \in Turns, Storing(t), NEW e, e = Entry(t), Insert(e) # table
  PROVE  Insert(e) = table \cup {e} /\ Size(e) <= MaxEntry
<1>1. CASE Size(e) > MaxEntry
  BY <1>1 DEF Insert
<1>2. CASE ~(Size(e) > MaxEntry)
  <2>1. Size(e) \in Nat /\ MaxEntry \in Nat
    BY EntryFacts, CapsAssumption
  <2> QED BY <1>2, <2>1 DEF Insert
<1> QED BY <1>1, <1>2

LEMMA StoreFailsIInv ==
  ASSUME IInv, NEW t \in Turns, StoreFails(t)
  PROVE  IInv'
<1>1. /\ Storing(t) /\ turn[t].phase = "posted" /\ delivered' = delivered
      /\ turn' = [turn EXCEPT ![t].phase = "done"]
  BY DEF StoreFails, Storing
<1>2. Stops /\ turn'[t].phase = "done"
  BY <1>1, DoneStops
<1>3. PICK e : e = Entry(t)
  OBVIOUS
<1>4. now' \in 0..MaxTime /\ now' >= now
  BY <1>1, <1>3, EntryFacts DEF IInv, Types
<1>5. \/ table' = table /\ due' = due
      \/ table' = Insert(e) /\ Insert(e) # table /\ due' = TRUE
  BY <1>3, Zenon DEF StoreFails
<1>6. CASE table' = table /\ due' = due
  BY <1>1, <1>2, <1>4, <1>6, QuietIInv
<1>7. CASE table' = Insert(e) /\ Insert(e) # table /\ due' = TRUE
  BY <1>1, <1>2, <1>3, <1>7, InsertedIsSmall, CutShortIInv
<1> QED BY <1>5, <1>6, <1>7

LEMMA CrashIInv ==
  ASSUME IInv, Crash
  PROVE  IInv'
<1>1. Stops /\ (\A t \in Turns : turn'[t].phase # "posted") /\ delivered' = delivered
  BY EndedStops DEF Crash
<1>2. CASE UNCHANGED <<now, table, due>>
  <2>1. now' \in 0..MaxTime /\ now' >= now
    BY <1>2, CapsAssumption DEF IInv, Types
  <2> QED BY <1>1, <1>2, <2>1, QuietIInv
<1>3. ASSUME NEW t \in Turns, Storing(t), table' = Insert(Entry(t)), table' # table,
             due' = TRUE
      PROVE  IInv'
  <2>1. PICK e : e = Entry(t)
    OBVIOUS
  <2>2. turn'[t].phase = "done"
    BY <1>1, <1>3 DEF Stops, Storing
  <2> QED BY <1>1, <1>3, <2>1, <2>2, InsertedIsSmall, CutShortIInv
<1> QED BY <1>2, <1>3, Zenon DEF Crash

LEMMA NextIInv == IInv /\ [Next]_vars => IInv'
<1> SUFFICES ASSUME IInv, [Next]_vars PROVE IInv'
  OBVIOUS
<1>1. now \in 0..MaxTime /\ MaxTime \in Nat /\ turn \in [Turns -> TurnType]
  BY CapsAssumption DEF IInv, Types
<1>2. ASSUME NEW t \in Turns, NEW prev \in delivered \cup {None}, Ask(t, prev)
      PROVE  IInv'
  BY <1>2, AskIInv
<1>3. ASSUME NEW t \in Turns, Finish(t) \/ Intercept(t) \/ StoreFails(t)
      PROVE  IInv'
  BY <1>3, FinishIInv, InterceptIInv, StoreFailsIInv
<1>4. ASSUME NEW t \in Turns, Fail(t)
      PROVE  IInv'
  <2>1. Stops
    BY <1>4, DoneStops DEF Fail
  <2>2. /\ table' \subseteq table /\ due' = due /\ delivered' = delivered
        /\ now' \in 0..MaxTime /\ now' >= now
    BY <1>1, <1>4 DEF Fail
  <2> QED BY <2>1, <2>2, QuietIInv
<1>5. CASE Tick \/ PurgeExpired \/ UNCHANGED vars
  <2>1. turn' = turn /\ due' = due /\ delivered' = delivered /\ table' \subseteq table
    BY <1>5 DEF Tick, PurgeExpired, vars
  <2>2. now' \in 0..MaxTime /\ now' >= now
    BY <1>1, <1>5 DEF Tick, PurgeExpired, vars
  <2>3. Stops
    BY <1>1, <2>1 DEF Stops
  <2> QED BY <2>1, <2>2, <2>3, QuietIInv
<1>6. CASE Crash
  BY <1>6, CrashIInv
<1> QED BY <1>2, <1>3, <1>4, <1>5, <1>6 DEF Next

(* Every reachable state satisfies the inductive invariant. *)
THEOREM Invariance == Spec => []IInv
<1> QED BY InitIInv, NextIInv, PTL DEF Spec

-----------------------------------------------------------------------------
(* Theorems *)

(* Type correctness: no two rows share an id or a time, none is too large,  *)
(* no prompt too long.                                                      *)
THEOREM TypeCorrect == Spec => []TypeOK
<1>1. IInv => TypeOK
  <2> SUFFICES ASSUME IInv PROVE TypeOK
    OBVIOUS
  <2>1. \A e \in table : e.id \in Ids /\ e.at \in 0..now /\ Size(e) \in 1..MaxEntry
    <3> SUFFICES ASSUME NEW e \in table
                 PROVE  e.id \in Ids /\ e.at \in 0..now /\ Size(e) \in 1..MaxEntry
      OBVIOUS
    <3>1. e.id \in Ids /\ e.at \in Nat /\ now \in Nat
      BY DEF IInv, Types, EntryType
    <3>2. e.at <= now /\ Size(e) \in 1..MaxEntry
      BY DEF IInv, RowsInv
    <3> QED BY <3>1, <3>2
  <2>2. \A t \in Turns : /\ turn[t].phase \in {"idle", "posted", "done"}
                         /\ turn[t].prev \in delivered \cup {None}
                         /\ turn[t].messages \in Seq(Message)
                         /\ Len(turn[t].messages) <= MaxPrompt
    BY SeqsOfTurn DEF IInv, TurnInv, TurnType
  <2>3. now \in 0..MaxTime /\ due \in BOOLEAN /\ delivered \subseteq Ids
    BY DEF IInv, Types
  <2>4. \A e, f \in table : e.id = f.id \/ e.at = f.at => e = f
    BY DEF IInv, RowsInv
  <2> QED BY <2>1, <2>2, <2>3, <2>4 DEF TypeOK
<1> QED BY Invariance, <1>1, PTL

(* The table is within both caps once it has been pruned, whatever crashes  *)
(* and failures there were.                                                 *)
THEOREM CapsStay == Spec => []CapsHold
<1>1. IInv => CapsHold
  BY DEF IInv
<1> QED BY Invariance, <1>1, PTL

(* What is posted is the end of the conversation the client continues. *)
THEOREM PromptsAreTheConversation == Spec => []PromptIsSuffix
<1>1. IInv => PromptIsSuffix
  <2> SUFFICES ASSUME IInv, NEW t \in Turns, turn[t].phase = "posted"
               PROVE  IsSuffix(turn[t].messages, turn[t].said)
    BY DEF PromptIsSuffix
  <2>1. Ends(turn[t].messages, turn[t].said)
    BY DEF IInv, TurnInv
  <2> QED BY <2>1, SeqsOfTurn, EndsIsSuffix
<1> QED BY Invariance, <1>1, PTL

(* A step that adds a row is a store, pruned or cut short. *)
LEMMA WhoAdds ==
  ASSUME IInv, Next, table' \ table # {}
  PROVE  \E t \in Turns : \E e :
           /\ Storing(t) /\ e = Entry(t)
           /\ \/ Store(e)
              \/ table' = Insert(e)
<1>1. ASSUME NEW t \in Turns, NEW prev \in delivered \cup {None}, Ask(t, prev)
      PROVE  FALSE
  BY <1>1, AskFacts
<1>2. ASSUME NEW t \in Turns, Finish(t) \/ Intercept(t) \/ StoreFails(t)
      PROVE  \E e : Storing(t) /\ e = Entry(t) /\ (Store(e) \/ table' = Insert(e))
  <2>1. PICK e : e = Entry(t)
    OBVIOUS
  <2>2. Storing(t) /\ (Store(e) \/ table' = Insert(e))
    BY <1>2, <2>1, Zenon DEF Finish, Intercept, StoreFails
  <2> QED BY <2>1, <2>2
<1>3. ASSUME NEW t \in Turns, Fail(t)
      PROVE  FALSE
  BY <1>3 DEF Fail
<1>4. CASE Tick \/ PurgeExpired
  BY <1>4 DEF Tick, PurgeExpired
<1>5. CASE Crash
  <2>1. PICK t \in Turns : Storing(t) /\ table' = Insert(Entry(t))
    BY <1>5 DEF Crash
  <2>2. PICK e : e = Entry(t)
    OBVIOUS
  <2> QED BY <2>1, <2>2
<1> QED BY <1>1, <1>2, <1>3, <1>4, <1>5 DEF Next

(* Eviction takes no more than it must and the oldest first. *)
THEOREM EvictsTheOldest == Spec => DropsOnlyOldest
<1> DEFINE Due(d, added) ==
             \/ Expired(d, now')
             \/ /\ \A e \in table' : d.at < e.at
                /\ LET rest == {e \in table \cup added : ~Expired(e, now') /\ e.at >= d.at}
                   IN Cardinality(rest) > MaxRows \/ Bytes(rest) > MaxBytes
<1>1. ASSUME IInv, Next, table' \ table # {}, NEW d \in table \ table'
      PROVE  Due(d, table' \ table)
  <2>1. PICK t \in Turns : \E e : /\ Storing(t) /\ e = Entry(t)
                                  /\ Store(e) \/ table' = Insert(e)
    BY <1>1, WhoAdds, Zenon
  <2>2. PICK e : /\ Storing(t) /\ e = Entry(t)
                 /\ Store(e) \/ table' = Insert(e)
    BY <2>1, Zenon
  <2>3. /\ e \notin table /\ e.at = now' /\ now' \in Nat
    BY <1>1, <2>2, EntryFacts
  <2>4. Insert(e) = table \/ Insert(e) = table \cup {e}
    BY DEF Insert
  <2>5. Store(e)
    BY <1>1, <2>2, <2>4
  <2>6. Size(e) <= MaxEntry /\ table' = Prune(table \cup {e}, now')
    BY <1>1, <2>2, <2>3, <2>5, StoreFacts
  <2>7. RowsOK(table \cup {e})
    BY <1>1, <2>2, <2>6, OneRowMore
  <2>8. e \in table' /\ table' \ table = {e}
    BY <1>1, <2>2, <2>5, <2>6, StoreFacts
  <2>9. CASE ~Expired(d, now')
    <3>1. PICK rest : rest = {f \in table \cup {e} : ~Expired(f, now') /\ f.at >= d.at}
      OBVIOUS
    <3>2. d \in table \cup {e} /\ d \notin Prune(table \cup {e}, now')
      BY <1>1, <2>6
    <3>3. /\ \A f \in table' : d.at < f.at
          /\ Cardinality(rest) > MaxRows \/ Bytes(rest) > MaxBytes
      BY <2>3, <2>6, <2>7, <2>9, <3>1, <3>2, PruneDropsOldest
    <3> QED BY <2>8, <3>1, <3>3
  <2> QED BY <2>9
<1>2. IInv /\ [Next]_vars =>
        [LET added == table' \ table
             dropped == table \ table'
         IN added # {} => \A d \in dropped : Due(d, added)]_vars
  BY <1>1 DEF vars
<1> QED BY <1>2, Invariance, PTL DEF Spec, DropsOnlyOldest

(* An answer the client has got can be continued unless it is too large. *)
THEOREM AnswersAreRemembered == Spec => AnswerIsRemembered
<1>1. IInv /\ [Next]_vars =>
        [\A id \in delivered' \ delivered :
           \/ \E e \in table' : e.id = id
           \/ Len(turn[id[1]].messages) + 1 > MaxEntry]_vars
  <2> SUFFICES ASSUME IInv, Next, NEW id \in delivered' \ delivered
               PROVE  \/ \E e \in table' : e.id = id
                      \/ Len(turn[id[1]].messages) + 1 > MaxEntry
    OBVIOUS
  <2>1. PICK t \in Turns : Finish(t)
    BY DEF Next, Ask, Intercept, Fail, StoreFails, Tick, PurgeExpired, Crash
  <2>2. PICK e : e = Entry(t)
    OBVIOUS
  <2>3. Storing(t) /\ Store(e) /\ id = <<t, turn[t].round>>
    BY <2>1, <2>2 DEF Finish
  <2>4. e.id = id /\ id[1] = t /\ Size(e) = Len(turn[t].messages) + 1 /\ Size(e) \in Nat
    BY <2>2, <2>3, EntryFacts
  <2>5. e \in table' <=> Size(e) <= MaxEntry
    BY <2>2, <2>3, StoreFacts
  <2> QED BY <2>4, <2>5, CapsAssumption
<1> QED BY <1>1, Invariance, PTL DEF Spec, AnswerIsRemembered
=============================================================================
