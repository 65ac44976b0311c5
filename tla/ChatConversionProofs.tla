-------------------------- MODULE ChatConversionProofs --------------------------
(***************************************************************************)
(* Proofs about ChatConversion, for any conversation, any number of calls   *)
(* and any fragments.                                                       *)
(***************************************************************************)
EXTENDS ChatConversion, FunctionTheorems, FiniteSetTheorems, SequenceTheorems, TLAPS

-----------------------------------------------------------------------------
(* Picking positions from a sequence *)

Rank(positions, i) == Cardinality({j \in positions : j <= i})

(* e lists the positions in order. *)
Lists(e, m, positions) ==
  /\ e \in [1..m -> positions]
  /\ \A a, b \in 1..m : a < b => e[a] < e[b]
  /\ \A i \in positions : \E k \in 1..m : e[k] = i

LEMMA ListsRanks ==
  ASSUME NEW m \in Nat, NEW positions, \A p \in positions : p \in Nat, NEW e, Lists(e, m, positions)
  PROVE  /\ IsFiniteSet(positions) /\ Cardinality(positions) = m
         /\ \A k \in 1..m : Rank(positions, e[k]) = k
<1>1. ASSUME NEW k \in 1..m PROVE Rank(positions, e[k]) = k
  <2> DEFINE below == {j \in positions : j <= e[k]}
             f == [a \in 1..k |-> e[a]]
  <2>1. \A a \in 1..k : a \in 1..m /\ e[a] \in positions /\ e[a] <= e[k]
    BY DEF Lists
  <2>2. f \in [1..k -> below]
    BY <2>1
  <2>3. \A a, b \in 1..k : f[a] = f[b] => a = b
    BY <2>1 DEF Lists
  <2>4. \A j \in below : \E a \in 1..k : f[a] = j
    <3> SUFFICES ASSUME NEW j \in below PROVE \E a \in 1..k : e[a] = j
      OBVIOUS
    <3>1. PICK a \in 1..m : e[a] = j
      BY DEF Lists
    <3>2. ~ (k < a)
      BY <3>1 DEF Lists
    <3> QED BY <3>1, <3>2
  <2> HIDE DEF below, f
  <2>5. f \in Bijection(1..k, below)
    BY <2>2, <2>3, <2>4, Fun_IsBij
  <2>6. Cardinality(below) = k
    BY <2>5, FS_CountingElements DEF ExistsBijection
  <2> QED BY <2>6 DEF below, Rank
<1>2. e \in Bijection(1..m, positions)
  BY Fun_IsBij DEF Lists
<1>3. Cardinality(positions) = m
  BY <1>2, FS_CountingElements DEF ExistsBijection
<1>4. IsFiniteSet(positions)
  BY <1>2, FS_Interval, FS_Bijection DEF ExistsBijection
<1> QED BY <1>1, <1>3, <1>4

(* What a listing e of m positions has of seq. *)
Listed(picked, seq, e, m) == picked = [k \in 1..m |-> seq[e[k]]]

(* What Pick gives once the positions are listed. *)
LEMMA ListedBy ==
  ASSUME NEW seq, NEW m \in Nat, NEW positions, \A p \in positions : p \in Nat, NEW e, Lists(e, m, positions)
  PROVE  Listed(Pick(seq, positions), seq, e, m)
<1>1. Cardinality(positions) = m /\ \A k \in 1..m : Rank(positions, e[k]) = k
  BY ListsRanks
<1>2. ASSUME NEW k \in 1..m
      PROVE  (CHOOSE i \in positions : Rank(positions, i) = k) = e[k]
  <2>1. e[k] \in positions
    BY DEF Lists
  <2>2. \A i \in positions : Rank(positions, i) = k => i = e[k]
    BY <1>1 DEF Lists
  <2> QED BY <1>1, <2>1, <2>2
<1>3. Pick(seq, positions)
        = [k \in 1..Cardinality(positions) |-> seq[CHOOSE i \in positions : Rank(positions, i) = k]]
  BY Zenon DEF Pick, Rank
<1>4. Pick(seq, positions) = [k \in 1..m |-> seq[e[k]]]
  BY <1>1, <1>2, <1>3
<1> QED BY <1>4 DEF Listed

LEMMA PickIs ==
  ASSUME NEW seq, NEW m \in Nat, NEW positions, \A p \in positions : p \in Nat, NEW e, Lists(e, m, positions)
  PROVE  Pick(seq, positions) = [k \in 1..m |-> seq[e[k]]]
<1>1. Listed(Pick(seq, positions), seq, e, m)
  BY ListedBy
<1> QED BY <1>1 DEF Listed

(* A finite set of positions can be listed. *)
LEMMA CanBeListed ==
  ASSUME NEW positions, \A p \in positions : p \in Nat, IsFiniteSet(positions)
  PROVE  /\ Cardinality(positions) \in Nat
         /\ \E e : Lists(e, Cardinality(positions), positions)
<1> DEFINE m == Cardinality(positions)
           Below(i) == {j \in positions : j <= i}
           rank == [i \in positions |-> Rank(positions, i)]
<1>1. m \in Nat
  BY FS_CardinalityType
<1>2. \A i \in positions : IsFiniteSet(Below(i)) /\ Rank(positions, i) \in 1..m
  <2> SUFFICES ASSUME NEW i \in positions
               PROVE  IsFiniteSet(Below(i)) /\ Rank(positions, i) \in 1..m
    OBVIOUS
  <2>1. Below(i) \in SUBSET positions /\ i \in Below(i)
    OBVIOUS
  <2>2. IsFiniteSet(Below(i)) /\ Cardinality(Below(i)) <= m /\ Cardinality(Below(i)) \in Nat
    BY <2>1, FS_Subset, FS_CardinalityType
  <2>3. Cardinality(Below(i)) # 0
    BY <2>1, <2>2, FS_EmptySet
  <2> QED BY <1>1, <2>2, <2>3 DEF Rank
<1>3. ASSUME NEW i \in positions, NEW j \in positions, i < j
      PROVE  Rank(positions, i) < Rank(positions, j)
  <2>1. Below(i) \in SUBSET Below(j) /\ j \in Below(j) /\ j \notin Below(i)
    BY <1>3
  <2>2. Cardinality(Below(i)) <= Cardinality(Below(j))
        /\ Cardinality(Below(i)) # Cardinality(Below(j))
    BY <1>2, <2>1, FS_Subset
  <2> QED BY <1>2, <2>2 DEF Rank
<1> HIDE DEF m
<1>4. /\ rank \in [positions -> 1..m]
      /\ \A i, j \in positions : i < j => rank[i] < rank[j]
  BY <1>2, <1>3
<1> HIDE DEF rank
<1>5. /\ \A i, j \in positions : rank[i] = rank[j] => i = j
      /\ \A i, j \in positions : rank[i] < rank[j] => i < j
  <2> SUFFICES ASSUME NEW i \in positions, NEW j \in positions
               PROVE  /\ rank[i] = rank[j] => i = j
                      /\ rank[i] < rank[j] => i < j
    OBVIOUS
  <2>1. i \in Nat /\ j \in Nat /\ rank[i] \in 1..m /\ rank[j] \in 1..m
    BY <1>4
  <2> QED BY <1>1, <1>4, <2>1
<1>6. rank \in Injection(positions, 1..m)
  BY <1>4, <1>5, Fun_IsInj
<1>7. rank \in Surjection(positions, 1..m)
  <2>1. IsFiniteSet(1..m) /\ Cardinality(1..m) = m
    BY <1>1, FS_Interval
  <2> QED BY <1>6, <2>1, FS_Injection DEF m
<1>8. \A k \in 1..m : \E i \in positions : rank[i] = k
  BY <1>7 DEF Surjection
<1> DEFINE e == [k \in 1..m |-> CHOOSE i \in positions : rank[i] = k]
<1>9. \A k \in 1..m : e[k] \in positions /\ rank[e[k]] = k
  BY <1>8
<1>10. e \in [1..m -> positions]
  BY <1>9
<1> HIDE DEF e
<1>11. \A i \in positions : \E k \in 1..m : e[k] = i
  BY <1>4, <1>5, <1>9
<1>12. Lists(e, m, positions)
  BY <1>5, <1>9, <1>10, <1>11 DEF Lists
<1> QED BY <1>1, <1>12 DEF m

(* What Pick gives: some listing of the positions. *)
LEMMA PickLists ==
  ASSUME NEW seq, NEW positions, \A p \in positions : p \in Nat, IsFiniteSet(positions)
  PROVE  \E m \in Nat : \E e : /\ Lists(e, m, positions)
                           /\ Pick(seq, positions) = [k \in 1..m |-> seq[e[k]]]
<1>1. Cardinality(positions) \in Nat /\ \E e : Lists(e, Cardinality(positions), positions)
  BY CanBeListed
<1>2. PICK e : Lists(e, Cardinality(positions), positions)
  BY <1>1
<1>3. Pick(seq, positions) = [k \in 1..Cardinality(positions) |-> seq[e[k]]]
  BY <1>1, <1>2, PickIs
<1> QED BY <1>1, <1>2, <1>3, Zenon

LEMMA PositionsFinite ==
  ASSUME NEW S, NEW seq \in Seq(S), NEW positions \in SUBSET DOMAIN seq
  PROVE  IsFiniteSet(positions) /\ \A p \in positions : p \in Nat
<1>1. DOMAIN seq = 1..Len(seq) /\ Len(seq) \in Nat
  BY LenProperties
<1>2. IsFiniteSet(1..Len(seq))
  BY <1>1, FS_Interval
<1> QED BY <1>1, <1>2, FS_Subset

-----------------------------------------------------------------------------
(* Events of a stream *)

LEMMA EventsOf ==
  ASSUME NEW output, Len(output) \in Nat
  PROVE  /\ DOMAIN BuildSse(output) = 1..(3 * Len(output) + 2)
         /\ Len(BuildSse(output)) = 3 * Len(output) + 2
         /\ BuildSse(output)[3 * Len(output) + 2].type = "completed"
         /\ BuildSse(output)[3 * Len(output) + 2].output = output
         /\ \A n \in 1..(3 * Len(output) + 1) : BuildSse(output)[n].type # "completed"
         /\ \A i \in 1..Len(output) : /\ BuildSse(output)[3 * i + 1].type = "item.done"
                                      /\ BuildSse(output)[3 * i + 1].item = output[i]
         /\ \A n \in 1..(3 * Len(output) + 2) :
              BuildSse(output)[n].type = "item.done" => \E i \in 1..Len(output) : n = 3 * i + 1
<1> DEFINE last == 3 * Len(output) + 2
<1>1. last \in Nat /\ last >= 2
  OBVIOUS
<1>2. DOMAIN BuildSse(output) = 1..last
  BY DEF BuildSse
<1>3. Len(BuildSse(output)) = last
  BY <1>1, <1>2 DEF BuildSse
<1>4. BuildSse(output)[1].type = "created"
  BY <1>1 DEF BuildSse
<1>5. BuildSse(output)[last].type = "completed" /\ BuildSse(output)[last].output = output
  BY <1>1 DEF BuildSse
<1>6. ASSUME NEW n \in 2..(last - 1)
      PROVE  \E i \in 1..Len(output) :
               /\ n \in {3 * i - 1, 3 * i, 3 * i + 1}
               /\ BuildSse(output)[n].type
                    = IF n = 3 * i - 1 THEN "added" ELSE IF n = 3 * i THEN "delta" ELSE "item.done"
               /\ n # 3 * i - 1 => BuildSse(output)[n].item = output[i]
  <2> DEFINE i == (n + 1) \div 3
  <2>1. i \in 1..Len(output) /\ n \in {3 * i - 1, 3 * i, 3 * i + 1}
    BY <1>1
  <2>2. n \in 1..last /\ n # 1 /\ n # last
    BY <1>1
  <2> HIDE DEF last
  <2>3. /\ BuildSse(output)[n].type
            = IF n = 3 * i - 1 THEN "added" ELSE IF n = 3 * i THEN "delta" ELSE "item.done"
        /\ n # 3 * i - 1 => BuildSse(output)[n].item = output[i]
    BY <2>2 DEF BuildSse, last
  <2> QED BY <2>1, <2>3
<1>7. ASSUME NEW i \in 1..Len(output)
      PROVE  BuildSse(output)[3 * i + 1].type = "item.done" /\ BuildSse(output)[3 * i + 1].item = output[i]
  <2>1. 3 * i + 1 \in 2..(last - 1)
    OBVIOUS
  <2>2. PICK k \in 1..Len(output) :
               /\ 3 * i + 1 \in {3 * k - 1, 3 * k, 3 * k + 1}
               /\ BuildSse(output)[3 * i + 1].type
                    = IF 3 * i + 1 = 3 * k - 1 THEN "added" ELSE IF 3 * i + 1 = 3 * k THEN "delta" ELSE "item.done"
               /\ 3 * i + 1 # 3 * k - 1 => BuildSse(output)[3 * i + 1].item = output[k]
    BY <2>1, <1>6
  <2>3. k = i
    BY <2>2
  <2> QED BY <2>2, <2>3
<1>8. \A n \in 1..(last - 1) : BuildSse(output)[n].type # "completed"
  BY <1>1, <1>4, <1>6
<1>9. ASSUME NEW n \in 1..last, BuildSse(output)[n].type = "item.done"
      PROVE  \E i \in 1..Len(output) : n = 3 * i + 1
  <2>1. n \in 2..(last - 1)
    BY <1>1, <1>4, <1>5, <1>9
  <2>2. PICK i \in 1..Len(output) :
               /\ n \in {3 * i - 1, 3 * i, 3 * i + 1}
               /\ BuildSse(output)[n].type
                    = IF n = 3 * i - 1 THEN "added" ELSE IF n = 3 * i THEN "delta" ELSE "item.done"
    BY <2>1, <1>6
  <2>3. n # 3 * i - 1 /\ n # 3 * i
    BY <1>9, <2>2
  <2> QED BY <2>2, <2>3
<1> QED BY <1>1, <1>2, <1>3, <1>5, <1>7, <1>8, <1>9

(* Whoever reads the whole stream has the response. *)
LEMMA SseIsWhole ==
  ASSUME NEW output, Len(output) \in Nat
  PROVE  FromSse(BuildSse(output)) = output
<1> DEFINE events == BuildSse(output)
           last == 3 * Len(output) + 2
<1>1. Positions(events, "completed") = {last}
  BY EventsOf DEF Positions
<1>2. Max({last}) = last
  BY DEF Max
<1>3. events[last].output = output
  BY EventsOf
<1> HIDE DEF events, last
<1> QED BY <1>1, <1>2, <1>3 DEF FromSse, events

(* Whoever reads the first n events has the first items, as they are. *)
LEMMA SsePrefix ==
  ASSUME NEW S, NEW output \in Seq(S), NEW n \in 0..Len(BuildSse(output))
  PROVE  IsPrefix(FromSse(SubSeq(BuildSse(output), 1, n)), output)
<1> DEFINE last == 3 * Len(output) + 2
           all == BuildSse(output)
           events == SubSeq(all, 1, n)
<1>1. Len(output) \in Nat /\ last \in Nat /\ Len(all) = last /\ DOMAIN all = 1..last
  BY EventsOf, LenProperties
<1>2. n \in 0..last
  BY <1>1
<1>3. /\ DOMAIN events = 1..n
      /\ \A k \in 1..n : events[k] = all[k]
  BY <1>2 DEF events
<1>4. CASE n = last
  <2>1. events = all
    <3>1. all = [k \in 1..last |-> all[k]]
      BY DEF BuildSse
    <3>2. events = [k \in 1..last |-> all[k]]
      BY <1>2, <1>4 DEF events
    <3> QED BY <3>1, <3>2
  <2>2. FromSse(events) = output
    BY <2>1, <1>1, SseIsWhole
  <2> QED BY <2>2 DEF IsPrefix
<1>5. CASE n < last
  <2> DEFINE m == IF n = 0 THEN 0 ELSE (n - 1) \div 3
             e == [i \in 1..m |-> 3 * i + 1]
             done == Positions(events, "item.done")
  <2>1. m \in 0..Len(output)
    BY <1>1, <1>2, <1>5
  <2>2. \A i \in 1..Len(output) : i <= m <=> 3 * i + 1 <= n
    BY <1>1, <1>2, <1>5
  <2> HIDE DEF m
  <2>3. Positions(events, "completed") = {}
    <3>1. \A k \in 1..n : k \in 1..(last - 1) /\ events[k] = all[k]
      BY <1>1, <1>2, <1>3, <1>5
    <3>2. \A k \in 1..(last - 1) : all[k].type # "completed"
      BY <1>1, EventsOf
    <3> HIDE DEF events, all, last
    <3> QED BY <1>3, <3>1, <3>2 DEF Positions
  <2>4. done = {3 * i + 1 : i \in 1..m}
    <3> HIDE DEF events, all
    <3>1. ASSUME NEW k \in done PROVE k \in {3 * i + 1 : i \in 1..m}
      <4>1. k \in 1..n /\ all[k].type = "item.done"
        BY <1>3 DEF Positions
      <4>2. PICK i \in 1..Len(output) : k = 3 * i + 1
        BY <4>1, <1>1, <1>2, EventsOf DEF all
      <4> QED BY <4>1, <4>2, <2>1, <2>2
    <3>2. ASSUME NEW i \in 1..m PROVE 3 * i + 1 \in done
      <4>1. i \in 1..Len(output) /\ 3 * i + 1 \in 1..n
        BY <1>1, <2>1, <2>2
      <4> QED BY <4>1, <1>1, <1>3, EventsOf DEF Positions, all
    <3> QED BY <3>1, <3>2
  <2>5. Lists(e, m, done)
    <3> HIDE DEF done
    <3> QED BY <2>1, <2>4 DEF Lists
  <2>6. \A p \in done : p \in Nat
    BY <2>1, <2>4
  <2>10. m \in Nat
    BY <1>1, <2>1
  <2> HIDE DEF done, e, events
  <2>7. Pick(events, done) = [i \in 1..m |-> events[e[i]]]
    BY <2>10, <2>5, <2>6, PickIs
  <2> USE DEF e, events
  <2>8. \A i \in 1..m : events[e[i]].item = output[i]
    <3> SUFFICES ASSUME NEW i \in 1..m PROVE events[3 * i + 1].item = output[i]
      OBVIOUS
    <3>1. i \in 1..Len(output) /\ 3 * i + 1 \in 1..n
      BY <1>1, <2>1, <2>2
    <3> QED BY <1>1, <1>3, <3>1, EventsOf
  <2>9. FromSse(events) = [i \in 1..m |-> output[i]]
    <3> HIDE DEF events, e
    <3> QED BY <2>1, <2>3, <2>7, <2>8 DEF FromSse, done
  <2> QED BY <1>1, <2>1, <2>9 DEF IsPrefix
<1> QED BY <1>1, <1>2, <1>4, <1>5

-----------------------------------------------------------------------------
(* The inductive invariant of the answer *)

IdType == Nat \X (0..2) \X Nat
CallType == [id : IdType, body : Seq(Nat)]
ItemType ==
  [type : {"user", "other", "message", "call", "output"}, id : IdType, body : Seq(Nat), thought : BOOLEAN]

(* A function of the indices of some calls. *)
OfCalls(S) == UNION {[D -> S] : D \in SUBSET Indices}

Types ==
  /\ phase \in {"client", "stream"}
  /\ posts \in 0..MaxPosts
  /\ plain \in BOOLEAN
  /\ items \in Seq(ItemType)
  /\ fresh \in Seq(ItemType)
  /\ answer \in Seq(ItemType)
  /\ sent \in [text : Nat, calls : OfCalls(Nat)]
  /\ agg \in [text : Seq(Nat), calls : OfCalls(CallType), thought : BOOLEAN]

(* What is gathered is what was sent, fragment by fragment. *)
AggInv ==
  /\ DOMAIN sent.calls = DOMAIN agg.calls
  /\ agg.text = Fragments(sent.text)
  /\ \A i \in DOMAIN agg.calls :
       /\ agg.calls[i].body = Fragments(sent.calls[i])
       /\ agg.calls[i].id \in {NoId, GivenId(i)}

(* The client has what was gathered; the text only counts without calls. *)
AnswerInv ==
  phase = "client" /\ posts > 0 =>
    \E text \in Seq(Nat), blank \in BOOLEAN :
      /\ answer = ToResponses(text, agg.calls, 2, blank, agg.thought)
      /\ DOMAIN agg.calls = {} => text = agg.text

-----------------------------------------------------------------------------
(* The conversion of an answer *)

LEMMA OrderedLists ==
  ASSUME NEW S, NEW calls \in OfCalls(S)
  PROVE  /\ Ordered(calls) \in Seq(DOMAIN calls)
         /\ Lists(Ordered(calls), Len(Ordered(calls)), DOMAIN calls)
         /\ Len(Ordered(calls)) \in Nat
<1>1. DOMAIN calls \subseteq 1..MaxCalls /\ MaxCalls \in Nat
  BY BoundsAssumption DEF OfCalls, Indices
<1>2. IsFiniteSet(DOMAIN calls)
  <2>1. IsFiniteSet(1..MaxCalls)
    BY <1>1, FS_Interval
  <2>2. DOMAIN calls \in SUBSET (1..MaxCalls)
    BY <1>1
  <2> QED BY <2>1, <2>2, FS_Subset
<1>3. \A p \in DOMAIN calls : p \in Nat
  BY <1>1
<1> DEFINE all == Fragments(MaxCalls)
           D == DOMAIN calls
<1>11. IsFiniteSet(D) /\ \A p \in D : p \in Nat
  BY <1>2, <1>3
<1> HIDE DEF all, D
<1>10. PICK m \in Nat : \E e : Lists(e, m, D) /\ Pick(all, D) = [k \in 1..m |-> all[e[k]]]
  BY <1>11, PickLists
<1>9. PICK e : Lists(e, m, D) /\ Pick(all, D) = [k \in 1..m |-> all[e[k]]]
  BY <1>10
<1> USE DEF all, D
<1>4. /\ Lists(e, m, DOMAIN calls)
      /\ Ordered(calls) = [k \in 1..m |-> Fragments(MaxCalls)[e[k]]]
  BY <1>9 DEF Ordered
<1>5. \A k \in 1..m : Fragments(MaxCalls)[e[k]] = e[k]
  BY <1>1, <1>4 DEF Fragments, Lists
<1>6. e \in [1..m -> DOMAIN calls]
  BY <1>4 DEF Lists
<1>7. Ordered(calls) = e
  BY <1>4, <1>5, <1>6
<1>8. Len(e) = m /\ e \in Seq(DOMAIN calls)
  BY <1>6
<1> QED BY <1>4, <1>7, <1>8

LEMMA ListType ==
  ASSUME NEW S, NEW n \in Nat, NEW f, f = [k \in 1..n |-> f[k]], \A k \in 1..n : f[k] \in S
  PROVE  f \in Seq(S) /\ Len(f) = n
<1>1. f \in [1..n -> S]
  BY Zenon
<1>2. f \in Seq(S)
  BY <1>1
<1>3. Len(f) = n
  BY <1>1
<1> QED BY <1>2, <1>3

LEMMA ItemIs ==
  ASSUME NEW type \in {"user", "other", "message", "call", "output"}, NEW id \in IdType, NEW body \in Seq(Nat),
         NEW thought \in BOOLEAN
  PROVE  LET item == Item(type, id, body, thought)
         IN /\ item \in ItemType
            /\ item.type = type /\ item.id = id /\ item.body = body /\ item.thought = thought
  BY Zenon DEF Item, ItemType

(* What the calls and the text are as items. *)
Converted(output, text, calls, origin, blank, thought, order, m) ==
  /\ Len(output) = IF text # <<>> \/ blank THEN m + 1 ELSE m
  /\ \A k \in 1..m :
       output[k] = Item("call",
                        IF calls[order[k]].id = NoId THEN MintedId(origin, order[k])
                        ELSE calls[order[k]].id,
                        calls[order[k]].body, thought)
  /\ text # <<>> \/ blank => output[m + 1] = Item("message", NoId, text, thought)

(* The calls come first, in order; the text may follow. *)
LEMMA ConvertedAnswer ==
  ASSUME NEW text \in Seq(Nat), NEW calls \in OfCalls(CallType), NEW origin \in 0..2,
         NEW blank \in BOOLEAN, NEW thought \in BOOLEAN, posts \in Nat,
         NEW order, order = Ordered(calls), NEW m, m = Len(order),
         NEW output, output = ToResponses(text, calls, origin, blank, thought)
  PROVE  output \in Seq(ItemType) /\ Converted(output, text, calls, origin, blank, thought, order, m)
<1>1. m \in Nat /\ order \in [1..m -> DOMAIN calls]
  BY OrderedLists DEF Lists
<1>2. DOMAIN calls \subseteq Nat /\ \A i \in DOMAIN calls : calls[i] \in CallType
  BY BoundsAssumption DEF OfCalls, Indices
<1> DEFINE id(i) == IF calls[i].id = NoId THEN MintedId(origin, i) ELSE calls[i].id
           called == [k \in 1..m |-> Item("call", id(order[k]), calls[order[k]].body, thought)]
           said == IF text # <<>> \/ blank THEN <<Item("message", NoId, text, thought)>> ELSE <<>>
<1>3. output = called \o said
  BY <1>1 DEF ToResponses
<1>4. \A i \in DOMAIN calls : id(i) \in IdType
  BY <1>2 DEF IdType, CallType, MintedId
<1>5. \A i \in DOMAIN calls : Item("call", id(i), calls[i].body, thought) \in ItemType
  BY <1>2, <1>4 DEF Item, ItemType, CallType
<1>6. called \in Seq(ItemType) /\ Len(called) = m
  BY <1>1, <1>5
<1>7. Item("message", NoId, text, thought) \in ItemType
  BY DEF Item, ItemType, NoId, IdType
<1>8. said \in Seq(ItemType) /\ Len(said) = IF text # <<>> \/ blank THEN 1 ELSE 0
  BY <1>7
<1>9. /\ output \in Seq(ItemType)
      /\ Len(output) = Len(called) + Len(said)
      /\ \A k \in 1..Len(called) + Len(said) :
           output[k] = IF k <= Len(called) THEN called[k] ELSE said[k - Len(called)]
  <2> HIDE DEF called, said
  <2>1. /\ called \o said \in Seq(ItemType)
        /\ Len(called \o said) = Len(called) + Len(said)
        /\ \A k \in 1..Len(called) + Len(said) :
             (called \o said)[k] = IF k <= Len(called) THEN called[k] ELSE said[k - Len(called)]
    BY <1>6, <1>8, ConcatProperties
  <2> QED BY <1>3, <2>1
<1>12. Len(called) = m /\ Len(said) \in {0, 1} /\ (text # <<>> \/ blank => Len(said) = 1)
  BY <1>6, <1>8
<1>10. \A k \in 1..m : output[k] = called[k]
  <2> HIDE DEF called, said
  <2> SUFFICES ASSUME NEW k \in 1..m PROVE output[k] = called[k]
    OBVIOUS
  <2>1. k \in 1..Len(called) + Len(said) /\ k <= Len(called)
    BY <1>1, <1>12
  <2> QED BY <1>9, <2>1
<1>11. text # <<>> \/ blank => output[m + 1] = said[1]
  <2> HIDE DEF called, said
  <2> SUFFICES ASSUME text # <<>> \/ blank PROVE output[m + 1] = said[1]
    OBVIOUS
  <2> DEFINE k == m + 1
  <2>3. Len(said) = 1
    BY <1>12, Zenon
  <2>1. k \in 1..Len(called) + Len(said) /\ ~(k <= Len(called)) /\ k - Len(called) = 1
    BY <1>1, <1>12, <2>3
  <2> HIDE DEF k
  <2>2. output[k] = said[1]
    BY <1>9, <2>1
  <2> QED BY <2>2 DEF k
<1>13. Len(output) = IF text # <<>> \/ blank THEN m + 1 ELSE m
  <2> HIDE DEF called, said
  <2>1. Len(output) = m + Len(said)
    BY <1>9, <1>12
  <2> QED BY <1>1, <1>8, <2>1
<1>14. text # <<>> \/ blank => output[m + 1] = Item("message", NoId, text, thought)
  BY <1>11
<1>15. \A k \in 1..m : output[k] = Item("call", id(order[k]), calls[order[k]].body, thought)
  BY <1>10
<1> HIDE DEF called, said
<1>16. output \in Seq(ItemType)
  BY <1>9
<1> QED BY <1>13, <1>14, <1>15, <1>16, Zenon DEF Converted

-----------------------------------------------------------------------------
(* Every step keeps the invariant of the answer *)

AnswerIInv == Types /\ AggInv /\ AnswerInv

LEMMA EmptyOfCalls ==
  ASSUME NEW S
  PROVE  /\ <<>> \in OfCalls(S) /\ DOMAIN <<>> = {}
         /\ \A calls \in OfCalls(S) : DOMAIN calls = {} => calls = <<>>
<1>1. DOMAIN <<>> = {}
  OBVIOUS
<1>2. \A f \in [{} -> S] : f = <<>>
  OBVIOUS
<1>3. <<>> \in [{} -> S]
  OBVIOUS
<1>4. {} \in SUBSET Indices
  OBVIOUS
<1> QED BY <1>1, <1>2, <1>3, <1>4 DEF OfCalls

LEMMA FragmentsGrow ==
  ASSUME NEW n \in Nat
  PROVE  /\ Fragments(n) \in Seq(Nat) /\ Len(Fragments(n)) = n
         /\ Append(Fragments(n), n + 1) = Fragments(n + 1)
         /\ Fragments(0) = <<>>
  BY DEF Fragments

LEMMA WithOfCalls ==
  ASSUME NEW S, NEW calls \in OfCalls(S), NEW i \in Indices, NEW x \in S
  PROVE  With(calls, i, x) \in OfCalls(S)
<1>1. PICK D \in SUBSET Indices : calls \in [D -> S]
  BY DEF OfCalls
<1>2. With(calls, i, x) \in [D \cup {i} -> S]
  BY <1>1 DEF With
<1>3. D \cup {i} \in SUBSET Indices
  BY <1>1
<1> QED BY <1>2, <1>3 DEF OfCalls

LEMMA InitAnswer == Init => AnswerIInv
<1> SUFFICES ASSUME Init PROVE AnswerIInv
  OBVIOUS
<1>1. /\ sent \in [text : Nat, calls : OfCalls(Nat)]
      /\ agg \in [text : Seq(Nat), calls : OfCalls(CallType), thought : BOOLEAN]
  BY EmptyOfCalls DEF Init, NoAnswer
<1>2. Types
  BY <1>1, BoundsAssumption DEF Init, Types
<1>3. AggInv
  BY EmptyOfCalls, FragmentsGrow DEF Init, AggInv, NoAnswer
<1>4. AnswerInv
  BY DEF Init, AnswerInv
<1> QED BY <1>2, <1>3, <1>4 DEF AnswerIInv

LEMMA SaysAnswer ==
  ASSUME AnswerIInv, NEW item \in ItemType, Says(item), plain' \in BOOLEAN, phase = "client"
  PROVE  AnswerIInv'
<1>1. items' \in Seq(ItemType) /\ fresh' \in Seq(ItemType)
  BY AppendProperties DEF Says, AnswerIInv, Types
<1>2. UNCHANGED <<phase, agg, answer, sent, posts>>
  BY DEF Says
<1>3. Types'
  BY <1>1, <1>2 DEF AnswerIInv, Types
<1>4. AggInv'
  BY <1>2 DEF AnswerIInv, AggInv, GivenId
<1>5. AnswerInv'
  BY <1>2 DEF AnswerIInv, AnswerInv, ToResponses, MintedId
<1> QED BY <1>3, <1>4, <1>5 DEF AnswerIInv

LEMMA UserSaysAnswer ==
  ASSUME AnswerIInv, UserSays
  PROVE  AnswerIInv'
<1>1. PICK n \in Lengths : Says(Item("user", NoId, Fragments(n), FALSE))
  BY DEF UserSays
<1>4. n \in Nat
  BY BoundsAssumption
<1>5. Fragments(n) \in Seq(Nat)
  BY <1>4, FragmentsGrow
<1>2. Item("user", NoId, Fragments(n), FALSE) \in ItemType
  BY <1>5 DEF Item, ItemType, NoId, IdType
<1>3. plain' \in BOOLEAN /\ phase = "client"
  BY DEF UserSays, AnswerIInv, Types
<1> HIDE DEF Says
<1> QED BY <1>1, <1>2, <1>3, SaysAnswer

LEMMA SendsOtherAnswer ==
  ASSUME AnswerIInv, SendsOther
  PROVE  AnswerIInv'
<1>1. Says(Item("other", NoId, <<>>, FALSE)) /\ plain' \in BOOLEAN /\ phase = "client"
  BY DEF SendsOther, AnswerIInv, Types
<1>2. Item("other", NoId, <<>>, FALSE) \in ItemType
  BY DEF Item, ItemType, NoId, IdType
<1> HIDE DEF Says
<1> QED BY <1>1, <1>2, SaysAnswer

LEMMA SendsOutputAnswer ==
  ASSUME AnswerIInv, SendsOutput
  PROVE  AnswerIInv'
<1> DEFINE outputs == Cardinality(Positions(items, "output"))
<1>1. PICK id \in Ids(items, "call") :
        /\ Says(Item("output", id, <<outputs + 1>>, FALSE))
        /\ plain' = (plain /\ id \notin Ids(items, "output") \ Ids(fresh, "output"))
  BY DEF SendsOutput
<1>2. outputs \in Nat
  <2>1. items \in Seq(ItemType) /\ Positions(items, "output") \in SUBSET DOMAIN items
    BY DEF AnswerIInv, Types, Positions
  <2>2. IsFiniteSet(Positions(items, "output"))
    BY <2>1, PositionsFinite
  <2> QED BY <2>2, FS_CardinalityType
<1>3. id \in IdType
  <2>1. PICK i \in DOMAIN items : id = items[i].id
    BY DEF Ids, Positions
  <2>2. items[i] \in ItemType
    BY DEF AnswerIInv, Types
  <2> QED BY <2>1, <2>2 DEF ItemType
<1>4. Item("output", id, <<outputs + 1>>, FALSE) \in ItemType
  <2> HIDE DEF outputs
  <2> QED BY <1>2, <1>3 DEF Item, ItemType
<1>5. plain' \in BOOLEAN
  <2>1. plain \in BOOLEAN
    BY DEF AnswerIInv, Types
  <2> QED BY <1>1, <2>1, Zenon
<1>6. phase = "client"
  BY DEF SendsOutput
<1> QED BY <1>1, <1>4, <1>5, <1>6, SaysAnswer

LEMMA PostAnswer ==
  ASSUME AnswerIInv, Post
  PROVE  AnswerIInv'
<1>1. /\ phase' = "stream" /\ posts' = posts + 1 /\ posts < MaxPosts
      /\ agg' = NoAnswer /\ sent' = [text |-> 0, calls |-> <<>>]
      /\ UNCHANGED <<items, fresh, answer>>
  BY DEF Post, client
<1>2. plain' \in BOOLEAN
  <2>1. plain \in BOOLEAN
    BY DEF AnswerIInv, Types
  <2>2. plain' = (plain /\ Ids(items, "call") \subseteq Ids(items, "output"))
    BY DEF Post
  <2> QED BY <2>1, <2>2, Zenon
<1>3. /\ sent' \in [text : Nat, calls : OfCalls(Nat)]
      /\ agg' \in [text : Seq(Nat), calls : OfCalls(CallType), thought : BOOLEAN]
  BY <1>1, EmptyOfCalls DEF NoAnswer
<1>4. posts' \in 0..MaxPosts
  BY <1>1, BoundsAssumption DEF AnswerIInv, Types
<1>5. Types'
  BY <1>1, <1>2, <1>3, <1>4 DEF AnswerIInv, Types
<1>6. AggInv'
  BY <1>1, EmptyOfCalls, FragmentsGrow DEF AggInv, NoAnswer
<1>7. AnswerInv'
  BY <1>1 DEF AnswerInv
<1> QED BY <1>5, <1>6, <1>7 DEF AnswerIInv

LEMMA TextDeltaAnswer ==
  ASSUME AnswerIInv, TextDelta
  PROVE  AnswerIInv'
<1>1. /\ phase = "stream"
      /\ sent' = [sent EXCEPT !.text = @ + 1]
      /\ agg' = [agg EXCEPT !.text = Append(@, sent'.text)]
      /\ UNCHANGED <<phase, items, fresh, answer, posts, plain>>
  BY DEF TextDelta, MayStream, client
<1>2. Types /\ AggInv
  BY DEF AnswerIInv
<1>3. sent.text \in Nat /\ agg.text = Fragments(sent.text)
  BY <1>2 DEF Types, AggInv
<1>4. /\ sent'.text = sent.text + 1 /\ sent'.calls = sent.calls
      /\ agg'.text = Fragments(sent'.text) /\ agg'.calls = agg.calls
  BY <1>1, <1>2, <1>3, FragmentsGrow DEF Types
<1>5. /\ sent' \in [text : Nat, calls : OfCalls(Nat)]
      /\ agg' \in [text : Seq(Nat), calls : OfCalls(CallType), thought : BOOLEAN]
  <2>2. sent'.text \in Nat
    BY <1>3, <1>4
  <2>1. agg'.text \in Seq(Nat)
    BY <1>4, <2>2, FragmentsGrow
  <2> QED BY <1>1, <1>2, <1>4, <2>1, <2>2 DEF Types
<1>6. Types'
  BY <1>1, <1>2, <1>5 DEF Types
<1>7. AggInv'
  BY <1>1, <1>2, <1>4 DEF AggInv, GivenId
<1>8. AnswerInv'
  BY <1>1 DEF AnswerInv
<1> QED BY <1>6, <1>7, <1>8 DEF AnswerIInv

LEMMA ThoughtDeltaAnswer ==
  ASSUME AnswerIInv, ThoughtDelta
  PROVE  AnswerIInv'
<1>1. /\ phase = "stream"
      /\ agg' = [agg EXCEPT !.thought = TRUE]
      /\ UNCHANGED <<phase, items, fresh, answer, sent, posts, plain>>
  BY DEF ThoughtDelta, MayStream, client
<1>2. Types /\ AggInv
  BY DEF AnswerIInv
<1>3. agg'.text = agg.text /\ agg'.calls = agg.calls
  BY <1>1, <1>2 DEF Types
<1>4. agg' \in [text : Seq(Nat), calls : OfCalls(CallType), thought : BOOLEAN]
  BY <1>1, <1>2 DEF Types
<1>5. Types'
  BY <1>1, <1>2, <1>4 DEF Types
<1>6. AggInv'
  BY <1>1, <1>2, <1>3 DEF AggInv, GivenId
<1>7. AnswerInv'
  BY <1>1 DEF AnswerInv
<1> QED BY <1>5, <1>6, <1>7 DEF AnswerIInv

LEMMA CallDeltaAnswer ==
  ASSUME AnswerIInv, NEW i \in Indices, CallDelta(i)
  PROVE  AnswerIInv'
<1> DEFINE known == i \in DOMAIN agg.calls
           n == IF known THEN sent.calls[i] ELSE 0
           body == IF known THEN agg.calls[i].body ELSE <<>>
<1>1. PICK named \in BOOLEAN :
        LET id == IF named THEN GivenId(i) ELSE IF known THEN agg.calls[i].id ELSE NoId
        IN /\ sent' = [sent EXCEPT !.calls = With(@, i, n + 1)]
           /\ agg' = [agg EXCEPT !.calls = With(@, i, Call(id, Append(body, n + 1)))]
  BY DEF CallDelta
<1> DEFINE id == IF named THEN GivenId(i) ELSE IF known THEN agg.calls[i].id ELSE NoId
           call == Call(id, Append(body, n + 1))
<1>2. phase = "stream" /\ UNCHANGED <<phase, items, fresh, answer, posts, plain>>
  BY DEF CallDelta, MayStream, client
<1>3. Types /\ AggInv
  BY DEF AnswerIInv
<1>4. /\ sent.calls \in OfCalls(Nat) /\ agg.calls \in OfCalls(CallType)
      /\ sent.text \in Nat /\ agg.text \in Seq(Nat)
  BY <1>3 DEF Types
<1>5. n \in Nat /\ body = Fragments(n)
  BY <1>3, <1>4, FragmentsGrow DEF AggInv, OfCalls
<1>6. id \in {NoId, GivenId(i)}
  BY <1>3 DEF AggInv
<1>7. id \in IdType
  BY <1>3, <1>6, BoundsAssumption DEF NoId, GivenId, IdType, Types, Indices
<1> HIDE DEF n, body, id
<1>8. call.body = Fragments(n + 1) /\ call.id = id /\ call \in CallType
  <2>1. n + 1 \in Nat
    BY <1>5
  <2>2. Append(body, n + 1) = Fragments(n + 1) /\ Fragments(n + 1) \in Seq(Nat)
    BY <1>5, <2>1, FragmentsGrow
  <2> QED BY <1>7, <2>2 DEF Call, CallType
<1>9. /\ sent' = [sent EXCEPT !.calls = With(@, i, n + 1)]
      /\ agg' = [agg EXCEPT !.calls = With(@, i, call)]
  BY <1>1 DEF id
<1> HIDE DEF call, known
<1>10. /\ sent'.calls = With(sent.calls, i, n + 1) /\ sent'.text = sent.text
       /\ agg'.calls = With(agg.calls, i, call) /\ agg'.text = agg.text
  BY <1>3, <1>9 DEF Types
<1>11. n + 1 \in Nat
  BY <1>5
<1>12. /\ sent'.calls \in OfCalls(Nat) /\ DOMAIN sent'.calls = DOMAIN sent.calls \cup {i}
       /\ sent'.calls[i] = n + 1
       /\ \A j \in DOMAIN sent.calls : j # i => sent'.calls[j] = sent.calls[j]
  <2>1. With(sent.calls, i, n + 1) \in OfCalls(Nat)
    BY <1>4, <1>11, WithOfCalls
  <2> QED BY <1>10, <2>1 DEF With
<1>13. /\ agg'.calls \in OfCalls(CallType) /\ DOMAIN agg'.calls = DOMAIN agg.calls \cup {i}
       /\ agg'.calls[i] = call
       /\ \A j \in DOMAIN agg.calls : j # i => agg'.calls[j] = agg.calls[j]
  <2>1. With(agg.calls, i, call) \in OfCalls(CallType)
    BY <1>4, <1>8, WithOfCalls
  <2> QED BY <1>10, <2>1 DEF With
<1>14. /\ sent' \in [text : Nat, calls : OfCalls(Nat)]
      /\ agg' \in [text : Seq(Nat), calls : OfCalls(CallType), thought : BOOLEAN]
  BY <1>3, <1>4, <1>9, <1>10, <1>12, <1>13 DEF Types
<1>15. Types'
  BY <1>2, <1>3, <1>14 DEF Types
<1>16. AggInv'
  <2>1. DOMAIN sent'.calls = DOMAIN agg'.calls
    BY <1>3, <1>12, <1>13 DEF AggInv
  <2>2. agg'.text = Fragments(sent'.text)
    BY <1>3, <1>10 DEF AggInv
  <2>3. ASSUME NEW j \in DOMAIN agg'.calls
        PROVE  agg'.calls[j].body = Fragments(sent'.calls[j]) /\ agg'.calls[j].id \in {NoId, GivenId(j)}
    <3>1. CASE j = i
      BY <1>6, <1>8, <1>12, <1>13, <3>1
    <3>2. CASE j # i
      BY <1>3, <1>12, <1>13, <3>2 DEF AggInv
    <3> QED BY <3>1, <3>2
  <2> QED BY <1>2, <2>1, <2>2, <2>3 DEF AggInv, GivenId
<1>17. AnswerInv'
  BY <1>2 DEF AnswerInv
<1> QED BY <1>15, <1>16, <1>17 DEF AnswerIInv

(* Either way the client receives what was gathered. *)
LEMMA ReceivesAnswer ==
  ASSUME AnswerIInv, NEW text \in Seq(Nat), NEW blank \in BOOLEAN, plain' \in BOOLEAN,
         Receives(ToResponses(text, agg.calls, 2, blank, agg.thought)),
         DOMAIN agg.calls = {} => text = agg.text
  PROVE  AnswerIInv'
<1> DEFINE output == ToResponses(text, agg.calls, 2, blank, agg.thought)
<1>1. Types /\ AggInv
  BY DEF AnswerIInv
<1>2. /\ phase' = "client" /\ answer' = output /\ items' = items \o output /\ fresh' = <<>>
      /\ UNCHANGED <<agg, sent, posts>>
  BY DEF Receives
<1>3. agg.calls \in OfCalls(CallType) /\ agg.thought \in BOOLEAN /\ posts \in Nat
  BY <1>1 DEF Types
<1> DEFINE order == Ordered(agg.calls)
           calls == agg.calls
           thought == agg.thought
           m == Len(order)
<1> HIDE DEF output, order, m, calls, thought
<1>4. output \in Seq(ItemType)
  <2>1. order = Ordered(calls) /\ m = Len(order) /\ output = ToResponses(text, calls, 2, blank, thought)
    BY DEF order, m, output, calls, thought
  <2>2. calls \in OfCalls(CallType) /\ 2 \in 0..2 /\ thought \in BOOLEAN
    BY <1>3 DEF calls, thought
  <2> QED BY <1>3, <2>1, <2>2, ConvertedAnswer
<1>5. items' \in Seq(ItemType)
  BY <1>1, <1>2, <1>4, ConcatProperties DEF Types
<1>6. Types'
  BY <1>1, <1>2, <1>4, <1>5 DEF Types
<1>7. AggInv'
  BY <1>1, <1>2 DEF AggInv, GivenId
<1>8. AnswerInv'
  BY <1>2 DEF AnswerInv, output, ToResponses, MintedId
<1> QED BY <1>6, <1>7, <1>8 DEF AnswerIInv

LEMMA AnswerLength ==
  ASSUME NEW text \in Seq(Nat), NEW blank \in BOOLEAN, agg.calls \in OfCalls(CallType),
         agg.thought \in BOOLEAN, posts \in Nat
  PROVE  Len(ToResponses(text, agg.calls, 2, blank, agg.thought)) \in Nat
<1> DEFINE calls == agg.calls
           thought == agg.thought
           order == Ordered(calls)
           m == Len(order)
           output == ToResponses(text, calls, 2, blank, thought)
<1>1. order = Ordered(calls) /\ m = Len(order) /\ output = ToResponses(text, calls, 2, blank, thought)
  OBVIOUS
<1>2. calls \in OfCalls(CallType) /\ 2 \in 0..2 /\ thought \in BOOLEAN
  OBVIOUS
<1> HIDE DEF calls, thought, order, m, output
<1>3. output \in Seq(ItemType)
  BY <1>1, <1>2, ConvertedAnswer
<1>4. Len(output) \in Nat
  BY <1>3, LenProperties
<1> QED BY <1>4 DEF output, calls, thought

LEMMA StreamEndsAnswer ==
  ASSUME AnswerIInv, StreamEnds
  PROVE  AnswerIInv'
<1> DEFINE text == IF agg.calls = <<>> THEN agg.text ELSE <<>>
           output == ToResponses(text, agg.calls, 2, FALSE, agg.thought)
<1>1. Receives(FromSse(BuildSse(output)))
  BY DEF StreamEnds
<1>2. /\ agg.calls \in OfCalls(CallType) /\ agg.text \in Seq(Nat) /\ agg.thought \in BOOLEAN
      /\ posts \in Nat /\ plain \in BOOLEAN
  BY DEF AnswerIInv, Types
<1>3. text \in Seq(Nat)
  BY <1>2
<1>4. DOMAIN agg.calls = {} => text = agg.text
  BY <1>2, EmptyOfCalls
<1>5. plain' \in BOOLEAN
  <2>1. plain' = (plain /\ Quiet(answer') /\ \A i \in DOMAIN agg.calls : agg.calls[i].id # NoId)
    BY DEF StreamEnds
  <2> QED BY <1>2, <2>1, Zenon
<1> HIDE DEF text
<1>6. Len(output) \in Nat
  BY <1>2, <1>3, AnswerLength
<1>7. Receives(output)
  <2> HIDE DEF output, Receives
  <2>1. FromSse(BuildSse(output)) = output
    BY <1>6, SseIsWhole
  <2> QED BY <1>1, <2>1
<1> QED BY <1>3, <1>4, <1>5, <1>7, ReceivesAnswer

LEMMA JsonAnswerAnswer ==
  ASSUME AnswerIInv, JsonAnswer
  PROVE  AnswerIInv'
<1>1. PICK blank \in BOOLEAN : Receives(ToResponses(agg.text, agg.calls, 2, blank, agg.thought))
  BY DEF JsonAnswer
<1>2. agg.text \in Seq(Nat) /\ plain \in BOOLEAN
  BY DEF AnswerIInv, Types
<1>3. plain' \in BOOLEAN
  <2>1. plain' = (plain /\ Quiet(answer')
                        /\ (agg.text = <<>> \/ agg.calls = <<>>)
                        /\ \A i \in DOMAIN agg.calls : agg.calls[i].id # NoId)
    BY DEF JsonAnswer
  <2> QED BY <1>2, <2>1, Zenon
<1> QED BY <1>1, <1>2, <1>3, ReceivesAnswer

LEMMA StepAnswer == AnswerIInv /\ [Next]_vars => AnswerIInv'
<1> SUFFICES ASSUME AnswerIInv, [Next]_vars PROVE AnswerIInv'
  OBVIOUS
<1>1. CASE UserSays
  BY <1>1, UserSaysAnswer
<1>9. CASE SendsOther
  BY <1>9, SendsOtherAnswer
<1>10. CASE ThoughtDelta
  BY <1>10, ThoughtDeltaAnswer
<1>2. CASE SendsOutput
  BY <1>2, SendsOutputAnswer
<1>3. CASE Post
  BY <1>3, PostAnswer
<1>4. CASE TextDelta
  BY <1>4, TextDeltaAnswer
<1>5. CASE \E i \in Indices : CallDelta(i)
  BY <1>5, CallDeltaAnswer
<1>6. CASE StreamEnds
  BY <1>6, StreamEndsAnswer
<1>7. CASE JsonAnswer
  BY <1>7, JsonAnswerAnswer
<1>8. CASE UNCHANGED vars
  BY <1>8 DEF vars, client, AnswerIInv, Types, AggInv, AnswerInv, GivenId, ToResponses, MintedId
<1> QED BY <1>1, <1>2, <1>3, <1>4, <1>5, <1>6, <1>7, <1>8, <1>9, <1>10 DEF Next

LEMMA InvIsWhole == AnswerIInv => AnswerIsWhole
<1> SUFFICES ASSUME AnswerIInv, phase = "client", posts > 0
             PROVE  LET events == BuildSse(answer)
                        calls == Pick(answer, Positions(answer, "call"))
                        order == Ordered(sent.calls)
                        text == Pick(answer, {i \in Positions(answer, "message") : answer[i].body # <<>>})
                    IN /\ [k \in DOMAIN calls |-> calls[k].body]
                            = [k \in DOMAIN order |-> Fragments(sent.calls[order[k]])]
                       /\ calls = <<>> /\ sent.text > 0 =>
                            text = <<Item("message", NoId, Fragments(sent.text), agg.thought)>>
                       /\ \A n \in 0..Len(events) : IsPrefix(FromSse(SubSeq(events, 1, n)), answer)
  BY DEF AnswerIsWhole
<1>1. Types /\ AggInv
  BY DEF AnswerIInv
<1>2. PICK text \in Seq(Nat), blank \in BOOLEAN :
        /\ answer = ToResponses(text, agg.calls, 2, blank, agg.thought)
        /\ DOMAIN agg.calls = {} => text = agg.text
  BY DEF AnswerIInv, AnswerInv
<1> DEFINE called == agg.calls
           thought == agg.thought
           order == Ordered(called)
           m == Len(order)
<1>3. /\ called \in OfCalls(CallType) /\ thought \in BOOLEAN
      /\ posts \in Nat /\ answer \in Seq(ItemType)
  BY <1>1 DEF Types
<1> HIDE DEF called, thought, order, m
<1>4. order = Ordered(called) /\ m = Len(order) /\ answer = ToResponses(text, called, 2, blank, thought)
  BY <1>2 DEF order, m, called, thought
<1>5. m \in Nat /\ Lists(order, m, DOMAIN called)
  BY <1>3, OrderedLists DEF order, m
<1>6. /\ Len(answer) = IF text # <<>> \/ blank THEN m + 1 ELSE m
      /\ \A k \in 1..m :
           answer[k] = Item("call",
                            IF called[order[k]].id = NoId THEN MintedId(2, order[k])
                            ELSE called[order[k]].id,
                            called[order[k]].body, thought)
      /\ text # <<>> \/ blank => answer[m + 1] = Item("message", NoId, text, thought)
  <2>1. 2 \in 0..2
    OBVIOUS
  <2>2. Converted(answer, text, called, 2, blank, thought, order, m)
    BY <1>3, <1>4, <2>1, ConvertedAnswer
  <2> QED BY <2>2, Zenon DEF Converted
<1>7. DOMAIN answer = 1..Len(answer) /\ Len(answer) \in Nat
  BY <1>3, LenProperties
<1>8. Ordered(sent.calls) = order
  BY <1>1 DEF Ordered, AggInv, order, called
<1>14. \A k \in 1..m : answer[k].type = "call" /\ answer[k].body = called[order[k]].body
  <2> SUFFICES ASSUME NEW k \in 1..m
               PROVE  answer[k].type = "call" /\ answer[k].body = called[order[k]].body
    OBVIOUS
  <2> DEFINE id == IF called[order[k]].id = NoId THEN MintedId(2, order[k]) ELSE called[order[k]].id
             body == called[order[k]].body
  <2>1. answer[k] = Item("call", id, body, thought)
    BY <1>6
  <2> HIDE DEF id, body
  <2>2. answer[k].type = "call" /\ answer[k].body = body
    BY <2>1 DEF Item
  <2> QED BY <2>2 DEF body
<1>15. \A k \in DOMAIN answer : k \notin 1..m => answer[k].type = "message"
  BY <1>5, <1>6, <1>7 DEF Item
<1>9. Positions(answer, "call") = 1..m
  <2>1. 1..m \subseteq DOMAIN answer
    BY <1>5, <1>6, <1>7
  <2> QED BY <1>14, <1>15, <2>1 DEF Positions
<1>10. Pick(answer, Positions(answer, "call")) = [k \in 1..m |-> answer[k]]
  <2> DEFINE e == [k \in 1..m |-> k]
             positions == 1..m
  <2>1. Lists(e, m, positions)
    BY <1>5 DEF Lists
  <2>2. \A p \in positions : p \in Nat
    OBVIOUS
  <2>4. m \in Nat
    BY <1>5
  <2> HIDE DEF e, positions
  <2>3. Pick(answer, positions) = [k \in 1..m |-> answer[e[k]]]
    BY <2>1, <2>2, <2>4, PickIs
  <2> QED BY <1>9, <2>3 DEF e, positions
<1> DEFINE calls == Pick(answer, Positions(answer, "call"))
<1>11. [k \in DOMAIN calls |-> calls[k].body] = [k \in DOMAIN order |-> Fragments(sent.calls[order[k]])]
  <2>1. DOMAIN order = 1..m /\ \A k \in 1..m : order[k] \in DOMAIN called
    BY <1>5 DEF Lists
  <2>2. \A k \in 1..m : answer[k].body = called[order[k]].body
    BY <1>14
  <2>3. \A k \in 1..m : called[order[k]].body = Fragments(sent.calls[order[k]])
    BY <1>1, <2>1 DEF AggInv, called
  <2> QED BY <1>10, <2>1, <2>2, <2>3
<1>12. ASSUME calls = <<>>, sent.text > 0
       PROVE  Pick(answer, {i \in Positions(answer, "message") : answer[i].body # <<>>})
                = <<Item("message", NoId, Fragments(sent.text), agg.thought)>>
  <2>1. m = 0
    BY <1>5, <1>10, <1>12
  <2>2. DOMAIN called = {}
    <3>1. \A i \in DOMAIN called : \E k \in 1..m : order[k] = i
      BY <1>5 DEF Lists
    <3>2. \A k \in 1..m : FALSE
      BY <2>1
    <3> QED BY <3>1, <3>2
  <2>3. text = Fragments(sent.text) /\ sent.text \in Nat
    BY <1>1, <1>2, <2>2 DEF AggInv, Types, called
  <2>4. text # <<>>
    <3>1. Len(text) = sent.text
      BY <2>3, FragmentsGrow
    <3> QED BY <1>12, <3>1
  <2>5. Len(answer) = 1 /\ answer[1] = Item("message", NoId, text, thought)
    BY <1>6, <2>1, <2>4
  <2> DEFINE positions == {i \in Positions(answer, "message") : answer[i].body # <<>>}
             e == <<1>>
  <2>6. positions = {1}
    BY <1>7, <2>4, <2>5 DEF Positions, Item
  <2>7. Lists(e, 1, positions)
    BY <2>6 DEF Lists
  <2> HIDE DEF positions, e
  <2>8. Pick(answer, positions) = [k \in 1..1 |-> answer[e[k]]]
    BY <2>6, <2>7, PickIs
  <2>9. Pick(answer, positions) = <<answer[1]>>
    BY <2>8 DEF e
  <2> QED BY <2>3, <2>5, <2>9 DEF positions, thought
<1>13. \A n \in 0..Len(BuildSse(answer)) : IsPrefix(FromSse(SubSeq(BuildSse(answer), 1, n)), answer)
  BY <1>3, SsePrefix
<1> QED BY <1>8, <1>11, <1>12, <1>13

(* The client receives every call whole and in order, and the text where    *)
(* there is no call, however the stream was cut.                            *)
THEOREM WholeAnswers == Spec => []AnswerIsWhole
<1>1. Spec => []AnswerIInv
  BY InitAnswer, StepAnswer, PTL DEF Spec
<1> QED BY <1>1, InvIsWhole, PTL

-----------------------------------------------------------------------------
(* The pairs of calls and outputs *)

Calls == Positions(items, "call")
Outputs == Positions(items, "output")

(* Every output follows the only call of its id, and says more than those  *)
(* before it.                                                               *)
PairInv ==
  /\ \A i \in Calls, j \in Calls : items[i].id = items[j].id => i = j
  /\ \A i \in Calls : items[i].id[1] <= posts /\ (phase = "stream" => items[i].id[1] < posts)
  /\ \A j \in Outputs : \E i \in Calls : i < j /\ items[i].id = items[j].id
  /\ \A j \in Outputs : items[j].body[1] \in 1..Cardinality(Outputs)
  /\ \A i \in Outputs, j \in Outputs : i < j => items[i].body[1] < items[j].body[1]

LEMMA PairInvInit == Init => PairInv
<1> SUFFICES ASSUME Init PROVE PairInv
  OBVIOUS
<1>1. items = <<>>
  BY DEF Init
<1>2. Calls = {} /\ Outputs = {}
  BY <1>1 DEF Calls, Outputs, Positions
<1> QED BY <1>2 DEF PairInv

(* What is neither a call nor an output changes nothing about them. *)
LEMMA SaysPair ==
  ASSUME AnswerIInv, PairInv, NEW item \in ItemType, item.type \notin {"call", "output"}, Says(item)
  PROVE  PairInv'
<1>2. items \in Seq(ItemType)
  BY DEF AnswerIInv, Types
<1>4. items' = Append(items, item) /\ UNCHANGED <<phase, posts>>
  BY DEF Says
<1>5. /\ Calls' = Calls /\ Outputs' = Outputs
      /\ \A i \in Calls \cup Outputs : items'[i] = items[i]
  <2>1. /\ DOMAIN items' = 1..(Len(items) + 1) /\ DOMAIN items = 1..Len(items) /\ Len(items) \in Nat
        /\ \A i \in 1..Len(items) : items'[i] = items[i]
        /\ items'[Len(items) + 1] = item
    BY <1>2, <1>4, AppendProperties, LenProperties
  <2> QED BY <2>1 DEF Calls, Outputs, Positions
<1>6. \A i \in Calls', j \in Calls' : items'[i].id = items'[j].id => i = j
  BY <1>5 DEF PairInv
<1>9. \A i \in Calls' : items'[i].id[1] <= posts' /\ (phase' = "stream" => items'[i].id[1] < posts')
  BY <1>4, <1>5 DEF PairInv
<1>7. \A j \in Outputs' : \E i \in Calls' : i < j /\ items'[i].id = items'[j].id
  BY <1>5 DEF PairInv
<1>8. /\ \A j \in Outputs' : items'[j].body[1] \in 1..Cardinality(Outputs')
      /\ \A i \in Outputs', j \in Outputs' : i < j => items'[i].body[1] < items'[j].body[1]
  BY <1>5 DEF PairInv
<1> QED BY <1>6, <1>7, <1>8, <1>9 DEF PairInv

LEMMA UserSaysPair ==
  ASSUME AnswerIInv, PairInv, UserSays
  PROVE  PairInv'
<1>1. PICK n \in Lengths : Says(Item("user", NoId, Fragments(n), FALSE))
  BY DEF UserSays
<1> DEFINE item == Item("user", NoId, Fragments(n), FALSE)
<1>2. item \in ItemType
  <2>1. n \in Nat
    BY BoundsAssumption
  <2>2. Fragments(n) \in Seq(Nat)
    BY <2>1, FragmentsGrow
  <2> QED BY <2>2 DEF Item, ItemType, NoId, IdType
<1>3. item.type \notin {"call", "output"}
  BY DEF Item
<1> HIDE DEF Says
<1> QED BY <1>1, <1>2, <1>3, SaysPair

LEMMA SendsOtherPair ==
  ASSUME AnswerIInv, PairInv, SendsOther
  PROVE  PairInv'
<1> DEFINE item == Item("other", NoId, <<>>, FALSE)
<1>1. Says(item)
  BY DEF SendsOther
<1>2. item \in ItemType /\ item.type \notin {"call", "output"}
  BY DEF Item, ItemType, NoId, IdType
<1> HIDE DEF Says
<1> QED BY <1>1, <1>2, SaysPair

LEMMA SendsOutputPair ==
  ASSUME AnswerIInv, PairInv, SendsOutput
  PROVE  PairInv'
<1> DEFINE n == Cardinality(Outputs)
<1>1. PICK id \in Ids(items, "call") : Says(Item("output", id, <<n + 1>>, FALSE))
  BY DEF SendsOutput, Outputs
<1> DEFINE item == Item("output", id, <<n + 1>>, FALSE)
<1>2. items \in Seq(ItemType)
  BY DEF AnswerIInv, Types
<1>3. n \in Nat /\ IsFiniteSet(Outputs)
  <2>1. Positions(items, "output") \in SUBSET DOMAIN items
    BY DEF Positions
  <2>2. IsFiniteSet(Positions(items, "output"))
    BY <1>2, <2>1, PositionsFinite
  <2> QED BY <2>2, FS_CardinalityType DEF Outputs
<1> HIDE DEF n
<1>4. PICK c \in Calls : items[c].id = id
  BY DEF Ids, Calls
<1>5. items[c] \in ItemType
  BY <1>2, <1>4 DEF Calls, Positions
<1>6. item \in ItemType
  BY <1>3, <1>4, <1>5 DEF Item, ItemType
<1>7. item.type = "output" /\ item.id = id /\ item.body[1] = n + 1
  BY DEF Item
<1>8. items' = Append(items, item) /\ UNCHANGED <<phase, posts>>
  BY <1>1 DEF Says
<1> HIDE DEF item
<1> DEFINE last == Len(items) + 1
<1>9. /\ Calls' = Calls /\ Outputs' = Outputs \cup {last}
      /\ \A i \in Calls \cup Outputs : items'[i] = items[i] /\ i \in 1..Len(items)
      /\ items'[last] = item /\ Len(items) \in Nat
  <2>1. /\ DOMAIN items' = 1..(Len(items) + 1) /\ DOMAIN items = 1..Len(items) /\ Len(items) \in Nat
        /\ \A i \in 1..Len(items) : items'[i] = items[i]
        /\ items'[Len(items) + 1] = item
    BY <1>2, <1>6, <1>8, AppendProperties, LenProperties
  <2> QED BY <1>7, <2>1 DEF Calls, Outputs, Positions
<1> HIDE DEF last
<1>10. last \notin Outputs /\ \A i \in Calls \cup Outputs : i < last
  BY <1>9 DEF last
<1>11. Cardinality(Outputs') = n + 1
  BY <1>3, <1>9, <1>10, FS_AddElement DEF n
<1>12. /\ \A j \in Outputs' : \E i \in Calls' : i < j /\ items'[i].id = items'[j].id
  BY <1>4, <1>7, <1>9, <1>10 DEF PairInv
<1>13. \A j \in Outputs' : items'[j].body[1] \in 1..Cardinality(Outputs')
  BY <1>3, <1>7, <1>9, <1>11 DEF PairInv, n
<1>14. \A i \in Outputs', j \in Outputs' : i < j => items'[i].body[1] < items'[j].body[1]
  <2> SUFFICES ASSUME NEW i \in Outputs', NEW j \in Outputs', i < j
               PROVE  items'[i].body[1] < items'[j].body[1]
    OBVIOUS
  <2>1. i \in Outputs
    BY <1>9, <1>10 DEF last
  <2>2. items'[i].body[1] \in 1..n
    BY <1>9, <2>1 DEF PairInv, n
  <2> QED BY <1>3, <1>7, <1>9, <2>1, <2>2 DEF PairInv
<1>15. /\ \A i \in Calls', j \in Calls' : items'[i].id = items'[j].id => i = j
       /\ \A i \in Calls' : items'[i].id[1] <= posts' /\ (phase' = "stream" => items'[i].id[1] < posts')
  BY <1>8, <1>9 DEF PairInv
<1> QED BY <1>12, <1>13, <1>14, <1>15 DEF PairInv

LEMMA SameItemsPair ==
  ASSUME AnswerIInv, PairInv, UNCHANGED items, posts' \in Nat,
         \/ phase' = phase /\ posts' = posts
         \/ phase' = "stream" /\ posts' = posts + 1
  PROVE  PairInv'
<1>1. posts \in Nat /\ \A i \in Calls : items[i].id[1] \in Nat
  <2>1. posts \in Nat /\ items \in Seq(ItemType)
    BY DEF AnswerIInv, Types
  <2>2. \A i \in Calls : items[i] \in ItemType
    BY <2>1 DEF Calls, Positions
  <2>3. \A x \in ItemType : x.id[1] \in Nat
    BY DEF ItemType, IdType
  <2> QED BY <2>1, <2>2, <2>3
<1>2. Calls' = Calls /\ Outputs' = Outputs
  BY DEF Calls, Outputs
<1>3. \A i \in Calls' : items'[i].id[1] <= posts' /\ (phase' = "stream" => items'[i].id[1] < posts')
  <2> SUFFICES ASSUME NEW i \in Calls
               PROVE  items[i].id[1] <= posts' /\ (phase' = "stream" => items[i].id[1] < posts')
    BY <1>2
  <2>1. items[i].id[1] <= posts /\ (phase = "stream" => items[i].id[1] < posts) /\ items[i].id[1] \in Nat
    BY <1>1 DEF PairInv
  <2> QED BY <1>1, <2>1
<1>4. /\ \A i \in Calls', j \in Calls' : items'[i].id = items'[j].id => i = j
      /\ \A j \in Outputs' : \E i \in Calls' : i < j /\ items'[i].id = items'[j].id
      /\ \A j \in Outputs' : items'[j].body[1] \in 1..Cardinality(Outputs')
      /\ \A i \in Outputs', j \in Outputs' : i < j => items'[i].body[1] < items'[j].body[1]
  BY <1>2 DEF PairInv
<1> QED BY <1>3, <1>4 DEF PairInv

(* The calls of an answer have ids no earlier one has. *)
LEMMA ReceivesPair ==
  ASSUME AnswerIInv, PairInv, NEW text \in Seq(Nat), NEW blank \in BOOLEAN, phase = "stream",
         Receives(ToResponses(text, agg.calls, 2, blank, agg.thought))
  PROVE  PairInv'
<1> DEFINE output == ToResponses(text, agg.calls, 2, blank, agg.thought)
           called == agg.calls
           thought == agg.thought
           order == Ordered(called)
           m == Len(order)
           n == Len(items)
<1>1. phase' = "client" /\ items' = items \o output /\ posts' = posts
  BY DEF Receives
<1>2. Types /\ AggInv
  BY DEF AnswerIInv
<1>3. /\ called \in OfCalls(CallType) /\ thought \in BOOLEAN
      /\ posts \in Nat /\ items \in Seq(ItemType)
  BY <1>2 DEF Types
<1>4. output = ToResponses(text, called, 2, blank, thought)
  OBVIOUS
<1> HIDE DEF output, order, m, called, thought
<1>5. m \in Nat /\ Lists(order, m, DOMAIN called)
  BY <1>3, OrderedLists DEF order, m
<1>6. /\ output \in Seq(ItemType)
      /\ Len(output) = IF text # <<>> \/ blank THEN m + 1 ELSE m
      /\ \A k \in 1..m :
           output[k] = Item("call",
                            IF called[order[k]].id = NoId THEN MintedId(2, order[k])
                            ELSE called[order[k]].id,
                            called[order[k]].body, thought)
      /\ text # <<>> \/ blank => output[m + 1] = Item("message", NoId, text, thought)
  <2>1. 2 \in 0..2 /\ order = Ordered(called) /\ m = Len(order)
    BY DEF order, m
  <2>2. output \in Seq(ItemType) /\ Converted(output, text, called, 2, blank, thought, order, m)
    BY <1>3, <1>4, <2>1, ConvertedAnswer
  <2> QED BY <2>2, Zenon DEF Converted
<1>7. \A k \in 1..m : output[k].type = "call" /\ output[k].id[1] = posts /\ output[k].id[3] = order[k]
  <2> SUFFICES ASSUME NEW k \in 1..m
               PROVE  output[k].type = "call" /\ output[k].id[1] = posts /\ output[k].id[3] = order[k]
    OBVIOUS
  <2> DEFINE id == IF called[order[k]].id = NoId THEN MintedId(2, order[k]) ELSE called[order[k]].id
             body == called[order[k]].body
  <2>1. output[k] = Item("call", id, body, thought)
    BY <1>6
  <2>2. order[k] \in DOMAIN agg.calls
    BY <1>5 DEF Lists, called
  <2>3. called[order[k]].id \in {NoId, GivenId(order[k])}
    BY <1>2, <2>2 DEF AggInv, called
  <2>4. id \in {MintedId(2, order[k]), GivenId(order[k])}
    BY <2>3
  <2>5. id[1] = posts /\ id[3] = order[k]
    BY <2>4 DEF MintedId, GivenId
  <2> HIDE DEF id, body
  <2>6. output[k].type = "call" /\ output[k].id = id
    BY <2>1 DEF Item
  <2> QED BY <2>5, <2>6
<1>8. /\ DOMAIN output = 1..Len(output) /\ Len(output) \in Nat /\ m <= Len(output)
      /\ \A k \in 1..Len(output) : k \notin 1..m => output[k].type = "message"
  <2>1. DOMAIN output = 1..Len(output) /\ Len(output) \in Nat
    BY <1>6, LenProperties
  <2>2. \A k \in 1..Len(output) : k \notin 1..m => k = m + 1 /\ (text # <<>> \/ blank)
    BY <1>5, <1>6
  <2>3. Item("message", NoId, text, thought).type = "message"
    BY DEF Item
  <2> QED BY <1>5, <1>6, <2>1, <2>2, <2>3
<1>9. /\ DOMAIN items' = 1..(n + Len(output)) /\ DOMAIN items = 1..n /\ n \in Nat
      /\ \A i \in 1..n : items'[i] = items[i]
      /\ \A k \in 1..Len(output) : items'[n + k] = output[k]
  <2>1. Len(items') = n + Len(output) /\ items' \in Seq(ItemType)
    BY <1>1, <1>3, <1>6, ConcatProperties
  <2>2. \A i \in 1..(n + Len(output)) : items'[i] = IF i <= n THEN items[i] ELSE output[i - n]
    BY <1>1, <1>3, <1>6, ConcatProperties
  <2>3. DOMAIN items' = 1..(n + Len(output)) /\ DOMAIN items = 1..n /\ n \in Nat
    BY <1>3, <2>1, LenProperties
  <2>4. ASSUME NEW k \in 1..Len(output) PROVE items'[n + k] = output[k]
    <3> DEFINE j == n + k
    <3>1. j \in 1..(n + Len(output)) /\ ~(j <= n) /\ j - n = k
      BY <1>8, <2>3
    <3> HIDE DEF j
    <3>2. items'[j] = output[j - n]
      BY <2>2, <3>1
    <3> QED BY <3>1, <3>2 DEF j
  <2> QED BY <1>8, <2>2, <2>3, <2>4
<1> HIDE DEF n
<1> DEFINE New == {n + k : k \in 1..m}
<1>10. /\ Calls' = Calls \cup New /\ Outputs' = Outputs
       /\ \A i \in Calls \cup Outputs : i \in 1..n /\ items'[i] = items[i]
  <2>1. \A i \in Calls \cup Outputs : i \in 1..n
    BY <1>9 DEF Calls, Outputs, Positions
  <2>2. \A i \in DOMAIN items' : i \in 1..n \/ \E k \in 1..Len(output) : i = n + k
    <3> SUFFICES ASSUME NEW i \in DOMAIN items', i \notin 1..n
                 PROVE  \E k \in 1..Len(output) : i = n + k
      OBVIOUS
    <3>1. i - n \in 1..Len(output) /\ i = n + (i - n)
      BY <1>8, <1>9
    <3> QED BY <3>1
  <2>3. \A i \in DOMAIN items' : i \in 1..n \/ i \in New \/ items'[i].type = "message"
    BY <1>8, <1>9, <2>2
  <2>4. \A i \in New : i \in DOMAIN items' /\ i \notin 1..n /\ items'[i].type = "call"
    <3> SUFFICES ASSUME NEW k \in 1..m
                 PROVE  n + k \in DOMAIN items' /\ n + k \notin 1..n /\ items'[n + k].type = "call"
      OBVIOUS
    <3>1. k \in 1..Len(output)
      BY <1>5, <1>8
    <3>2. n + k \in 1..(n + Len(output)) /\ n + k \notin 1..n
      BY <1>8, <1>9, <3>1
    <3> QED BY <1>7, <1>9, <3>1, <3>2
  <2>5. 1..n \subseteq DOMAIN items'
    BY <1>8, <1>9
  <2> HIDE DEF New
  <2>6. Calls' = Calls \cup New
    BY <1>9, <2>3, <2>4, <2>5 DEF Calls, Positions
  <2>7. Outputs' = Outputs
    BY <1>9, <2>3, <2>4, <2>5 DEF Outputs, Positions
  <2> QED BY <1>9, <2>1, <2>6, <2>7
<1>11. \A i \in Calls : items[i].id[1] < posts /\ items[i].id[1] \in Nat
  <2>1. \A i \in Calls : items[i] \in ItemType
    BY <1>3 DEF Calls, Positions
  <2>2. \A x \in ItemType : x.id[1] \in Nat
    BY DEF ItemType, IdType
  <2> QED BY <2>1, <2>2 DEF PairInv
<1>12. \A i \in New : items'[i].id[1] = posts /\ i - n \in 1..m /\ items'[i].id[3] = order[i - n]
  <2> SUFFICES ASSUME NEW k \in 1..m
               PROVE  /\ items'[n + k].id[1] = posts /\ (n + k) - n = k
                      /\ items'[n + k].id[3] = order[k]
    OBVIOUS
  <2>1. k \in 1..Len(output)
    BY <1>5, <1>8
  <2>2. items'[n + k] = output[k] /\ (n + k) - n = k
    BY <1>9, <2>1
  <2> QED BY <1>7, <2>2
<1> HIDE DEF New
<1>13. \A i \in Calls' : items'[i].id[1] <= posts'
  <2>1. \A i \in Calls : items'[i].id[1] <= posts
    BY <1>3, <1>10, <1>11
  <2>2. \A i \in New : items'[i].id[1] <= posts
    BY <1>3, <1>12
  <2> QED BY <1>1, <1>10, <2>1, <2>2
<1>14. ASSUME NEW i \in Calls', NEW j \in Calls', items'[i].id = items'[j].id
       PROVE  i = j
  <2>1. CASE i \in Calls /\ j \in Calls
    BY <1>10, <1>14, <2>1 DEF PairInv
  <2>2. CASE i \in New /\ j \in New
    <3>1. order[i - n] = order[j - n] /\ i - n \in 1..m /\ j - n \in 1..m
      BY <1>12, <1>14, <2>2
    <3>2. order[i - n] \in Nat /\ order[j - n] \in Nat
      BY <1>3, <1>5, <3>1, BoundsAssumption DEF Lists, OfCalls, Indices
    <3>3. ~(i - n < j - n) /\ ~(j - n < i - n)
      BY <1>5, <3>1, <3>2 DEF Lists
    <3>4. i \in Int /\ j \in Int
      BY <1>9, <2>2 DEF New
    <3>5. i - n = j - n
      BY <1>9, <3>1, <3>3, <3>4
    <3> QED BY <1>9, <3>4, <3>5
  <2>3. CASE i \in Calls /\ j \in New
    BY <1>3, <1>10, <1>11, <1>12, <1>14, <2>3
  <2>4. CASE i \in New /\ j \in Calls
    BY <1>3, <1>10, <1>11, <1>12, <1>14, <2>4
  <2> QED BY <1>10, <2>1, <2>2, <2>3, <2>4
<1>15. \A j \in Outputs' : \E i \in Calls' : i < j /\ items'[i].id = items'[j].id
  BY <1>10 DEF PairInv
<1>16. /\ \A j \in Outputs' : items'[j].body[1] \in 1..Cardinality(Outputs')
       /\ \A i \in Outputs', j \in Outputs' : i < j => items'[i].body[1] < items'[j].body[1]
  BY <1>10 DEF PairInv
<1> QED BY <1>1, <1>13, <1>14, <1>15, <1>16 DEF PairInv

LEMMA StepPair == AnswerIInv /\ PairInv /\ [Next]_vars => PairInv'
<1> SUFFICES ASSUME AnswerIInv, PairInv, [Next]_vars PROVE PairInv'
  OBVIOUS
<1>1. posts \in Nat /\ agg.text \in Seq(Nat) /\ agg.calls \in OfCalls(CallType) /\ agg.thought \in BOOLEAN
  BY DEF AnswerIInv, Types
<1>2. CASE UserSays
  BY <1>2, UserSaysPair
<1>10. CASE SendsOther
  BY <1>10, SendsOtherPair
<1>11. CASE ThoughtDelta
  <2>1. UNCHANGED <<items, phase, posts>>
    BY <1>11 DEF ThoughtDelta, client
  <2> QED BY <1>1, <2>1, SameItemsPair
<1>3. CASE SendsOutput
  BY <1>3, SendsOutputPair
<1>4. CASE Post
  <2>1. UNCHANGED items /\ phase' = "stream" /\ posts' = posts + 1
    BY <1>4 DEF Post, client
  <2>2. posts' \in Nat
    BY <1>1, <2>1
  <2> QED BY <2>1, <2>2, SameItemsPair
<1>5. CASE TextDelta
  <2>1. UNCHANGED <<items, phase, posts>>
    BY <1>5 DEF TextDelta, client
  <2> QED BY <1>1, <2>1, SameItemsPair
<1>6. CASE \E i \in Indices : CallDelta(i)
  <2>1. UNCHANGED <<items, phase, posts>>
    BY <1>6 DEF CallDelta, client
  <2> QED BY <1>1, <2>1, SameItemsPair
<1>7. CASE StreamEnds
  <2> DEFINE text == IF agg.calls = <<>> THEN agg.text ELSE <<>>
             output == ToResponses(text, agg.calls, 2, FALSE, agg.thought)
  <2>1. Receives(FromSse(BuildSse(output))) /\ phase = "stream"
    BY <1>7 DEF StreamEnds, MayEnd
  <2>2. text \in Seq(Nat)
    BY <1>1
  <2> HIDE DEF text
  <2>3. Len(output) \in Nat
    BY <1>1, <2>2, AnswerLength
  <2> HIDE DEF output
  <2>4. FromSse(BuildSse(output)) = output
    BY <2>3, SseIsWhole
  <2>5. Receives(ToResponses(text, agg.calls, 2, FALSE, agg.thought))
    BY <2>1, <2>4 DEF output
  <2> QED BY <2>1, <2>2, <2>5, ReceivesPair
<1>8. CASE JsonAnswer
  <2>1. phase = "stream" /\ \E blank \in BOOLEAN : Receives(ToResponses(agg.text, agg.calls, 2, blank, agg.thought))
    BY <1>8 DEF JsonAnswer, MayEnd
  <2> QED BY <1>1, <2>1, ReceivesPair
<1>9. CASE UNCHANGED vars
  <2>1. UNCHANGED <<items, phase, posts>>
    BY <1>9 DEF vars, client
  <2> QED BY <1>1, <2>1, SameItemsPair
<1> QED BY <1>2, <1>3, <1>4, <1>5, <1>6, <1>7, <1>8, <1>9, <1>10, <1>11 DEF Next

-----------------------------------------------------------------------------
(* What Repair makes of the items *)

Kept(input) ==
  {i \in DOMAIN input :
     input[i].type = "output" =>
       ~ \E j \in Positions(input, "output") : j > i /\ input[j].id = input[i].id}
Orphans(input) ==
  {i \in Positions(input, "call") :
     /\ input[i].id \notin Ids(input, "output")
     /\ \A j \in Positions(input, "call") : j < i => input[j].id # input[i].id}

LEMMA RepairIs ==
  ASSUME NEW input, \A p \in DOMAIN input : p \in Nat, IsFiniteSet(DOMAIN input)
  PROVE  \E m \in Nat, n \in Nat : \E e, o :
           /\ Lists(e, m, Kept(input)) /\ Lists(o, n, Orphans(input))
           /\ Repair(input) = [k \in 1..m |-> input[e[k]]]
                                \o [k \in 1..n |-> Item("output", input[o[k]].id, <<0>>, FALSE)]
<1> DEFINE kept == Kept(input)
           orphans == Orphans(input)
<1>1. kept \in SUBSET DOMAIN input /\ orphans \in SUBSET DOMAIN input
  BY DEF Kept, Orphans, Positions
<1>2. /\ \A p \in kept : p \in Nat
      /\ \A p \in orphans : p \in Nat
      /\ IsFiniteSet(kept) /\ IsFiniteSet(orphans)
  BY <1>1, FS_Subset
<1>3. Repair(input)
        = Pick(input, kept)
            \o [k \in DOMAIN Pick(input, orphans) |-> Item("output", Pick(input, orphans)[k].id, <<0>>, FALSE)]
  BY Zenon DEF Repair, Kept, Orphans
<1> HIDE DEF kept, orphans
<1>4. PICK m \in Nat : \E e : Lists(e, m, kept) /\ Pick(input, kept) = [k \in 1..m |-> input[e[k]]]
  BY <1>2, PickLists
<1>5. PICK e : Lists(e, m, kept) /\ Pick(input, kept) = [k \in 1..m |-> input[e[k]]]
  BY <1>4
<1>6. PICK n \in Nat : \E o : Lists(o, n, orphans) /\ Pick(input, orphans) = [k \in 1..n |-> input[o[k]]]
  BY <1>2, PickLists
<1>7. PICK o : Lists(o, n, orphans) /\ Pick(input, orphans) = [k \in 1..n |-> input[o[k]]]
  BY <1>6
<1>8. [k \in DOMAIN Pick(input, orphans) |-> Item("output", Pick(input, orphans)[k].id, <<0>>, FALSE)]
        = [k \in 1..n |-> Item("output", input[o[k]].id, <<0>>, FALSE)]
  BY <1>7
<1>9. /\ Lists(e, m, Kept(input)) /\ Lists(o, n, Orphans(input))
      /\ Repair(input) = [k \in 1..m |-> input[e[k]]]
                           \o [k \in 1..n |-> Item("output", input[o[k]].id, <<0>>, FALSE)]
  BY <1>3, <1>5, <1>7, <1>8 DEF kept, orphans
<1> QED BY <1>9, Zenon

LEMMA LastOf ==
  ASSUME NEW positions, \A p \in positions : p \in Nat, IsFiniteSet(positions), positions # {}
  PROVE  \E q \in positions : \A p \in positions : p <= q
<1>1. Cardinality(positions) \in Nat /\ \E e : Lists(e, Cardinality(positions), positions)
  BY CanBeListed
<1> DEFINE m == Cardinality(positions)
<1>2. PICK e : Lists(e, m, positions)
  BY <1>1
<1> HIDE DEF m
<1>3. /\ \A p \in positions : \E k \in 1..m : e[k] = p
      /\ \A k \in 1..m : e[k] \in positions
      /\ \A a, b \in 1..m : a < b => e[a] < e[b]
      /\ m \in Nat
  BY <1>1, <1>2 DEF Lists, m
<1>4. m \in 1..m
  BY <1>3
<1>5. \A k \in 1..m : e[k] <= e[m]
  BY <1>3, <1>4
<1> QED BY <1>3, <1>4, <1>5

Answers(input, id) == {j \in DOMAIN input : input[j].type = "output" /\ input[j].id = id}

(* Each call has one output after it, the freshest it ever had. *)
LEMMA PairsRepaired ==
  ASSUME AnswerIInv, PairInv, NEW i \in DOMAIN Repair(items), Repair(items)[i].type = "call"
  PROVE  \E b \in (i + 1)..Len(Repair(items)) :
           /\ Answers(Repair(items), Repair(items)[i].id) = {b}
           /\ \A k \in Answers(items, Repair(items)[i].id) :
                items[k].body[1] <= Repair(items)[b].body[1]
<1> DEFINE input == Repair(items)
           id == input[i].id
<1>1. items \in Seq(ItemType) /\ DOMAIN items = 1..Len(items) /\ Len(items) \in Nat
  BY LenProperties DEF AnswerIInv, Types
<1>2. IsFiniteSet(DOMAIN items) /\ \A p \in DOMAIN items : p \in Nat
  <2>1. IsFiniteSet(1..Len(items))
    BY <1>1, FS_Interval
  <2> QED BY <1>1, <2>1
<1>3. PICK m \in Nat, n \in Nat : \E e, o :
           /\ Lists(e, m, Kept(items)) /\ Lists(o, n, Orphans(items))
           /\ input = [k \in 1..m |-> items[e[k]]]
                        \o [k \in 1..n |-> Item("output", items[o[k]].id, <<0>>, FALSE)]
  BY <1>2, RepairIs
<1>4. PICK e, o :
           /\ Lists(e, m, Kept(items)) /\ Lists(o, n, Orphans(items))
           /\ input = [k \in 1..m |-> items[e[k]]]
                        \o [k \in 1..n |-> Item("output", items[o[k]].id, <<0>>, FALSE)]
  BY <1>3
<1>5. /\ \A k \in 1..m : e[k] \in Kept(items) /\ e[k] \in DOMAIN items
      /\ \A k \in 1..n : o[k] \in Orphans(items) /\ o[k] \in Calls /\ o[k] \in DOMAIN items
  BY <1>4 DEF Lists, Kept, Orphans, Positions, Calls
<1>6. /\ \A a \in 1..m, b \in 1..m : a < b => e[a] < e[b]
      /\ \A a \in 1..n, b \in 1..n : a < b => o[a] < o[b]
      /\ \A p \in Kept(items) : \E k \in 1..m : e[k] = p
      /\ \A p \in Orphans(items) : \E k \in 1..n : o[k] = p
  BY <1>4 DEF Lists
<1> HIDE DEF input
<1>7. /\ Len(input) = m + n /\ DOMAIN input = 1..(m + n)
      /\ \A k \in 1..m : input[k] = items[e[k]]
      /\ \A k \in 1..n : /\ input[m + k].type = "output" /\ input[m + k].id = items[o[k]].id
                         /\ input[m + k].body[1] = 0
  <2> DEFINE deduped == [k \in 1..m |-> items[e[k]]]
             missing == [k \in 1..n |-> Item("output", items[o[k]].id, <<0>>, FALSE)]
  <2>1. deduped \in Seq(ItemType) /\ Len(deduped) = m
    BY <1>1, <1>5
  <2>2. \A k \in 1..n : items[o[k]] \in ItemType
    BY <1>1, <1>5
  <2>3. \A k \in 1..n : Item("output", items[o[k]].id, <<0>>, FALSE) \in ItemType
    BY <2>2 DEF Item, ItemType
  <2>4. missing \in Seq(ItemType) /\ Len(missing) = n
    <3>1. missing = [k \in 1..n |-> missing[k]] /\ \A k \in 1..n : missing[k] \in ItemType
      BY <2>3
    <3> HIDE DEF missing
    <3> QED BY <3>1, ListType
  <2>5. \A k \in 1..n : missing[k].type = "output" /\ missing[k].id = items[o[k]].id /\ missing[k].body[1] = 0
    BY DEF Item
  <2>6. \A k \in 1..m : deduped[k] = items[e[k]]
    OBVIOUS
  <2>7. input = deduped \o missing
    BY <1>4
  <2> HIDE DEF deduped, missing
  <2>8. /\ input \in Seq(ItemType) /\ Len(input) = m + n
        /\ \A k \in 1..(m + n) : input[k] = IF k <= m THEN deduped[k] ELSE missing[k - m]
    BY <2>1, <2>4, <2>7, ConcatProperties
  <2>9. DOMAIN input = 1..(m + n)
    BY <2>8, LenProperties
  <2>10. \A k \in 1..m : input[k] = items[e[k]]
    BY <2>6, <2>8
  <2>11. ASSUME NEW k \in 1..n PROVE input[m + k] = missing[k]
    <3> DEFINE j == m + k
    <3>1. j \in 1..(m + n) /\ ~(j <= m) /\ j - m = k
      OBVIOUS
    <3> HIDE DEF j
    <3>2. input[j] = missing[j - m]
      BY <2>8, <3>1
    <3> QED BY <3>1, <3>2 DEF j
  <2>12. \A k \in 1..n : /\ input[m + k].type = "output" /\ input[m + k].id = items[o[k]].id
                         /\ input[m + k].body[1] = 0
    <3> SUFFICES ASSUME NEW k \in 1..n
                 PROVE  /\ input[m + k].type = "output" /\ input[m + k].id = items[o[k]].id
                        /\ input[m + k].body[1] = 0
      OBVIOUS
    <3>1. input[m + k] = missing[k]
      BY <2>11
    <3> QED BY <2>5, <3>1
  <2> QED BY <2>8, <2>9, <2>10, <2>12
<1>8. /\ i \in 1..m /\ e[i] \in Calls /\ id = items[e[i]].id
  <2>1. i \in 1..(m + n) /\ input[i].type = "call"
    BY <1>7 DEF input
  <2>2. i \in 1..m
    <3>1. ASSUME i \notin 1..m PROVE FALSE
      <4>1. i - m \in 1..n /\ m + (i - m) = i
        BY <2>1, <3>1
      <4>2. input[m + (i - m)].type = "output"
        BY <1>7, <4>1
      <4> QED BY <2>1, <4>1, <4>2
    <3> QED BY <3>1
  <2>3. input[i] = items[e[i]]
    BY <1>7, <2>2
  <2> QED BY <1>5, <2>1, <2>2, <2>3 DEF Calls, Positions
<1> DEFINE p == e[i]
           Q == Answers(items, id)
<1>9. Q \in SUBSET Outputs /\ Q \in SUBSET DOMAIN items /\ \A q \in Q : q \in Nat /\ items[q].id = id
  BY <1>2 DEF Answers, Outputs, Positions
<1>10. \A k \in 1..m : k \in Answers(input, id) <=> e[k] \in Q
  BY <1>5, <1>7 DEF Answers
<1>11. \A k \in 1..n : m + k \in Answers(input, id) <=> items[o[k]].id = id
  <2> SUFFICES ASSUME NEW k \in 1..n PROVE m + k \in Answers(input, id) <=> items[o[k]].id = id
    OBVIOUS
  <2>1. m + k \in 1..(m + n)
    OBVIOUS
  <2> QED BY <1>7, <2>1 DEF Answers
<1>12. \A j \in Answers(input, id) : j \in 1..m \/ \E k \in 1..n : j = m + k
  <2> SUFFICES ASSUME NEW j \in 1..(m + n), j \notin 1..m PROVE \E k \in 1..n : j = m + k
    BY <1>7 DEF Answers
  <2>1. j - m \in 1..n /\ j = m + (j - m)
    OBVIOUS
  <2> QED BY <2>1
<1> HIDE DEF id
<1>13. \A c \in Calls : items[c].id = id => c = p
  BY <1>8 DEF PairInv
<1>14. CASE Q # {}
  <2>1. PICK q \in Q : \A j \in Q : j <= q
    <3>1. IsFiniteSet(Q)
      BY <1>2, <1>9, FS_Subset
    <3> HIDE DEF Q
    <3> QED BY <1>9, <1>14, <3>1, LastOf
  <2>2. p < q
    <3>1. q \in Outputs /\ items[q].id = id
      BY <1>9
    <3>2. PICK c \in Calls : c < q /\ items[c].id = items[q].id
      BY <3>1 DEF PairInv
    <3> QED BY <1>13, <3>1, <3>2
  <2>3. q \in Kept(items)
    <3>1. ASSUME NEW j \in Positions(items, "output"), j > q, items[j].id = items[q].id PROVE FALSE
      <4>1. j \in Q
        BY <1>9, <3>1 DEF Answers, Positions
      <4> QED BY <1>9, <2>1, <3>1, <4>1
    <3> QED BY <1>9, <3>1 DEF Kept
  <2>4. PICK b \in 1..m : e[b] = q
    BY <1>6, <2>3
  <2>5. b \in (i + 1)..Len(input)
    <3>1. p \in Nat /\ q \in Nat
      BY <1>2, <1>5, <1>8, <1>9
    <3>2. ~(b < i) /\ b # i
      BY <1>6, <1>8, <2>2, <2>4, <3>1
    <3> QED BY <1>7, <1>8, <3>2
  <2>6. b \in Answers(input, id)
    BY <1>10, <2>4
  <2>7. ASSUME NEW j \in Answers(input, id) PROVE j = b
    <3>1. CASE j \in 1..m
      <4>1. e[j] \in Q /\ e[j] \in Kept(items) /\ e[j] \in Nat
        BY <1>5, <1>9, <1>10, <3>1
      <4>2. e[j] <= q
        BY <2>1, <4>1
      <4>3. ~(q > e[j])
        BY <1>9, <4>1 DEF Kept, Outputs, Answers
      <4>4. e[j] = e[b] /\ e[b] \in Nat
        BY <1>9, <2>4, <4>1, <4>2, <4>3
      <4>5. ~(j < b) /\ ~(b < j)
        BY <1>6, <3>1, <4>4
      <4> QED BY <3>1, <4>5
    <3>2. CASE \E k \in 1..n : j = m + k
      <4>1. PICK k \in 1..n : j = m + k
        BY <3>2
      <4>2. items[o[k]].id = id
        BY <1>11, <4>1
      <4>3. id \notin Ids(items, "output")
        BY <1>5, <4>2 DEF Orphans
      <4>4. id \in Ids(items, "output")
        BY <1>9 DEF Ids, Outputs
      <4> QED BY <4>3, <4>4
    <3> QED BY <1>12, <3>1, <3>2
  <2>8. ASSUME NEW k \in Q PROVE items[k].body[1] <= input[b].body[1]
    <3>1. input[b] = items[q]
      BY <1>7, <2>4
    <3>2. k <= q /\ k \in Outputs /\ q \in Outputs /\ k \in Nat /\ q \in Nat
      BY <1>9, <2>1
    <3>3. items[k].body[1] \in Int /\ items[q].body[1] \in Int
      BY <3>2 DEF PairInv
    <3>4. k < q => items[k].body[1] < items[q].body[1]
      BY <3>2 DEF PairInv
    <3> QED BY <3>1, <3>2, <3>3, <3>4
  <2>9. Answers(input, id) = {b}
    BY <2>6, <2>7
  <2> QED BY <2>5, <2>8, <2>9 DEF input, id
<1>15. CASE Q = {}
  <2>1. id \notin Ids(items, "output")
    BY <1>15 DEF Ids, Answers, Positions
  <2>2. p \in Orphans(items)
    <3>1. \A j \in Positions(items, "call") : j < p => items[j].id # items[p].id
      <4> SUFFICES ASSUME NEW j \in Calls, j < p, items[j].id = items[p].id PROVE FALSE
        BY DEF Calls
      <4>1. j = p /\ p \in Nat
        BY <1>2, <1>5, <1>8, <1>13
      <4> QED BY <4>1
    <3> QED BY <1>8, <2>1, <3>1 DEF Orphans, Calls
  <2>3. PICK k \in 1..n : o[k] = p
    BY <1>6, <2>2
  <2> DEFINE b == m + k
  <2>4. b \in (i + 1)..Len(input)
    BY <1>7, <1>8
  <2>5. b \in Answers(input, id)
    BY <1>8, <1>11, <2>3
  <2>6. ASSUME NEW j \in Answers(input, id) PROVE j = b
    <3>1. CASE j \in 1..m
      BY <1>10, <1>15, <3>1
    <3>2. CASE \E l \in 1..n : j = m + l
      <4>1. PICK l \in 1..n : j = m + l
        BY <3>2
      <4>2. o[l] = p /\ p \in Nat
        BY <1>2, <1>5, <1>8, <1>11, <1>13, <4>1
      <4>3. ~(l < k) /\ ~(k < l)
        BY <1>6, <2>3, <4>2
      <4> QED BY <4>1, <4>3
    <3> QED BY <1>12, <3>1, <3>2
  <2> HIDE DEF b
  <2>7. Answers(input, id) = {b}
    BY <2>5, <2>6
  <2> QED BY <1>15, <2>4, <2>7 DEF input, id
<1> QED BY <1>14, <1>15

(* What is posted for the client that resends its items answers every call  *)
(* once, after it, with its freshest output.                                *)
THEOREM AnsweredOnce == Spec => []CallsAnsweredOnce
<1>1. AnswerIInv /\ PairInv => CallsAnsweredOnce
  <2> DEFINE input == Repair(items)
  <2> SUFFICES ASSUME AnswerIInv, PairInv, NEW i \in DOMAIN input, input[i].type = "call"
               PROVE  /\ \E j \in (i + 1)..Len(input) : input[j].type = "output" /\ input[j].id = input[i].id
                      /\ \A j \in DOMAIN input : input[j].type = "output" /\ input[j].id = input[i].id =>
                           \A k \in DOMAIN items : items[k].type = "output" /\ items[k].id = input[i].id =>
                             items[k].body[1] <= input[j].body[1]
                      /\ Cardinality({j \in DOMAIN input : input[j].type = "output" /\ input[j].id = input[i].id}) = 1
    BY DEF CallsAnsweredOnce
  <2>1. PICK b \in (i + 1)..Len(input) :
           /\ Answers(input, input[i].id) = {b}
           /\ \A k \in Answers(items, input[i].id) : items[k].body[1] <= input[b].body[1]
    BY PairsRepaired
  <2> HIDE DEF input
  <2>2. \A j \in DOMAIN input : input[j].type = "output" /\ input[j].id = input[i].id <=> j = b
    BY <2>1 DEF Answers
  <2>3. b \in DOMAIN input /\ input[b].type = "output" /\ input[b].id = input[i].id
    BY <2>1 DEF Answers
  <2>4. Cardinality({j \in DOMAIN input : input[j].type = "output" /\ input[j].id = input[i].id}) = 1
    BY <2>1, FS_Singleton DEF Answers
  <2>5. \A k \in DOMAIN items : items[k].type = "output" /\ items[k].id = input[i].id =>
          items[k].body[1] <= input[b].body[1]
    BY <2>1 DEF Answers
  <2> QED BY <2>1, <2>2, <2>3, <2>4, <2>5
<1>2. Spec => [](AnswerIInv /\ PairInv)
  <2>1. Init => AnswerIInv /\ PairInv
    BY InitAnswer, PairInvInit
  <2>2. AnswerIInv /\ PairInv /\ [Next]_vars => (AnswerIInv /\ PairInv)'
    BY StepAnswer, StepPair
  <2> QED BY <2>1, <2>2, PTL DEF Spec
<1> QED BY <1>1, <1>2, PTL

-----------------------------------------------------------------------------
(* Sums of sizes *)

Pairs(sizes, positions) == UNION {{i} \X (1..sizes[i]) : i \in positions}

LEMMA SumAsPairs ==
  ASSUME NEW sizes, NEW positions, IsFiniteSet(positions), \A i \in positions : sizes[i] \in Nat
  PROVE  /\ IsFiniteSet(Pairs(sizes, positions))
         /\ SumAt(sizes, positions) = Cardinality(Pairs(sizes, positions))
         /\ SumAt(sizes, positions) \in Nat
<1> DEFINE pair == [i \in positions |-> {i} \X (1..sizes[i])]
           all == {{i} \X (1..sizes[i]) : i \in positions}
<1>1. pair \in Surjection(positions, all)
  BY DEF Surjection
<1>2. IsFiniteSet(all)
  <2> HIDE DEF pair, all
  <2> QED BY <1>1, FS_Surjection
<1>3. \A T \in all : IsFiniteSet(T)
  <2> SUFFICES ASSUME NEW i \in positions PROVE IsFiniteSet({i} \X (1..sizes[i]))
    OBVIOUS
  <2> DEFINE n == sizes[i]
  <2>1. n \in Int
    OBVIOUS
  <2> HIDE DEF n
  <2>4. IsFiniteSet({i})
    BY FS_Singleton
  <2>5. IsFiniteSet(1..n)
    BY <2>1, FS_Interval
  <2>2. IsFiniteSet({i}) /\ IsFiniteSet(1..n)
    BY <2>4, <2>5
  <2>3. IsFiniteSet({i} \X (1..n))
    BY <2>2, FS_Product
  <2> QED BY <2>3 DEF n
<1>4. IsFiniteSet(UNION all)
  <2> HIDE DEF all
  <2> QED BY <1>2, <1>3, FS_UNION
<1>5. UNION all = Pairs(sizes, positions)
  BY Zenon DEF Pairs
<1>6. SumAt(sizes, positions) = Cardinality(Pairs(sizes, positions))
  BY Zenon DEF Pairs, SumAt
<1> HIDE DEF all
<1> QED BY <1>4, <1>5, <1>6, FS_CardinalityType

LEMMA SumOfNone ==
  ASSUME NEW sizes
  PROVE  SumAt(sizes, {}) = 0
<1>1. UNION {{i} \X (1..sizes[i]) : i \in {}} = {}
  OBVIOUS
<1> QED BY <1>1, FS_EmptySet DEF SumAt

LEMMA SumOfOne ==
  ASSUME NEW sizes, NEW i, sizes[i] \in Nat
  PROVE  SumAt(sizes, {i}) = sizes[i]
<1>1. UNION {{j} \X (1..sizes[j]) : j \in {i}} = {i} \X (1..sizes[i])
  OBVIOUS
<1> DEFINE n == sizes[i]
<1>2. n \in Nat
  OBVIOUS
<1> HIDE DEF n
<1>3. IsFiniteSet({i}) /\ Cardinality({i}) = 1
  BY FS_Singleton
<1>4. IsFiniteSet(1..n) /\ Cardinality(1..n) = n
  BY <1>2, FS_Interval
<1>5. Cardinality({i} \X (1..n)) = 1 * n
  <2> DEFINE a == {i}
             b == 1..n
  <2>1. IsFiniteSet(a) /\ IsFiniteSet(b) /\ Cardinality(a) = 1 /\ Cardinality(b) = n
    BY <1>3, <1>4
  <2> HIDE DEF a, b
  <2>2. Cardinality(a \X b) = Cardinality(a) * Cardinality(b)
    BY <2>1, FS_Product
  <2> QED BY <2>1, <2>2 DEF a, b
<1>6. SumAt(sizes, {i}) = Cardinality({i} \X (1..n))
  BY <1>1 DEF SumAt, n
<1> QED BY <1>2, <1>5, <1>6 DEF n

LEMMA SumOfBoth ==
  ASSUME NEW sizes, NEW S, NEW T, IsFiniteSet(S), IsFiniteSet(T), S \cap T = {},
         \A i \in S : sizes[i] \in Nat, \A i \in T : sizes[i] \in Nat
  PROVE  SumAt(sizes, S \cup T) = SumAt(sizes, S) + SumAt(sizes, T)
<1>1. Pairs(sizes, S \cup T) = Pairs(sizes, S) \cup Pairs(sizes, T)
  BY DEF Pairs
<1>2. Pairs(sizes, S) \cap Pairs(sizes, T) = {}
  BY DEF Pairs
<1>3. IsFiniteSet(S \cup T) /\ \A i \in S \cup T : sizes[i] \in Nat
  BY FS_Union
<1>4. /\ SumAt(sizes, S \cup T) = Cardinality(Pairs(sizes, S \cup T))
      /\ SumAt(sizes, S) = Cardinality(Pairs(sizes, S)) /\ IsFiniteSet(Pairs(sizes, S))
      /\ SumAt(sizes, T) = Cardinality(Pairs(sizes, T)) /\ IsFiniteSet(Pairs(sizes, T))
      /\ SumAt(sizes, S) \in Nat /\ SumAt(sizes, T) \in Nat
  BY <1>3, SumAsPairs
<1>5. Cardinality(Pairs(sizes, S) \cup Pairs(sizes, T))
        = Cardinality(Pairs(sizes, S)) + Cardinality(Pairs(sizes, T)) - Cardinality({})
  BY <1>2, <1>4, FS_Union
<1>6. Cardinality({}) = 0
  BY FS_EmptySet
<1> DEFINE s == Cardinality(Pairs(sizes, S))
           t == Cardinality(Pairs(sizes, T))
<1>7. s \in Nat /\ t \in Nat /\ SumAt(sizes, S \cup T) = s + t - 0
  BY <1>1, <1>4, <1>5, <1>6
<1>8. SumAt(sizes, S) = s /\ SumAt(sizes, T) = t
  BY <1>4
<1> HIDE DEF s, t
<1> QED BY <1>7, <1>8

LEMMA SumGrows ==
  ASSUME NEW sizes, NEW T, IsFiniteSet(T), NEW S \in SUBSET T, \A i \in T : sizes[i] \in Nat
  PROVE  SumAt(sizes, S) <= SumAt(sizes, T)
<1>1. IsFiniteSet(S) /\ IsFiniteSet(T \ S) /\ S \cap (T \ S) = {} /\ S \cup (T \ S) = T
  BY FS_Subset, FS_Difference
<1>2. SumAt(sizes, T) = SumAt(sizes, S) + SumAt(sizes, T \ S)
  <2> DEFINE R == T \ S
  <2> HIDE DEF R
  <2>1. IsFiniteSet(R) /\ S \cap R = {} /\ S \cup R = T /\ \A i \in R : sizes[i] \in Nat
    BY <1>1 DEF R
  <2>2. SumAt(sizes, S \cup R) = SumAt(sizes, S) + SumAt(sizes, R)
    BY <1>1, <2>1, SumOfBoth
  <2> QED BY <2>1, <2>2 DEF R
<1>3. SumAt(sizes, S) \in Nat /\ SumAt(sizes, T \ S) \in Nat
  BY <1>1, SumAsPairs
<1> QED BY <1>2, <1>3

(* Sums of the same sizes at other positions are the same. *)
LEMMA SumMoved ==
  ASSUME NEW a, NEW b, NEW S, NEW T, NEW h \in Bijection(S, T), IsFiniteSet(S),
         \A i \in S : a[i] \in Nat /\ b[h[i]] = a[i]
  PROVE  SumAt(a, S) = SumAt(b, T)
<1> DEFINE f == [p \in Pairs(a, S) |-> <<h[p[1]], p[2]>>]
<1>1. /\ h \in [S -> T]
      /\ \A i, j \in S : h[i] = h[j] => i = j
      /\ \A t \in T : \E i \in S : h[i] = t
  BY Fun_IsBij DEF Bijection, Injection, Surjection, IsInjective
<1>2. /\ \A p \in Pairs(a, S) : p = <<p[1], p[2]>> /\ p[1] \in S /\ p[2] \in 1..a[p[1]]
      /\ \A i \in S, n \in Nat : n \in 1..a[i] => <<i, n>> \in Pairs(a, S)
  BY DEF Pairs
<1>3. /\ \A p \in Pairs(b, T) : p = <<p[1], p[2]>> /\ p[1] \in T /\ p[2] \in 1..b[p[1]]
      /\ \A i \in T, n \in Nat : n \in 1..b[i] => <<i, n>> \in Pairs(b, T)
  BY DEF Pairs
<1>4. ASSUME NEW p \in Pairs(a, S) PROVE <<h[p[1]], p[2]>> \in Pairs(b, T)
  <2>1. p[1] \in S /\ p[2] \in 1..a[p[1]]
    BY <1>2
  <2>2. h[p[1]] \in T /\ p[2] \in 1..b[h[p[1]]] /\ p[2] \in Nat
    BY <1>1, <2>1
  <2> QED BY <1>3, <2>2
<1>5. f \in [Pairs(a, S) -> Pairs(b, T)]
  BY <1>4
<1>6. ASSUME NEW p \in Pairs(a, S), NEW q \in Pairs(a, S), f[p] = f[q] PROVE p = q
  <2>1. h[p[1]] = h[q[1]] /\ p[2] = q[2]
    BY <1>6
  <2>2. p[1] = q[1]
    BY <1>1, <1>2, <2>1
  <2> QED BY <1>2, <2>1, <2>2
<1>7. ASSUME NEW q \in Pairs(b, T) PROVE \E p \in Pairs(a, S) : f[p] = q
  <2>1. q = <<q[1], q[2]>> /\ q[1] \in T /\ q[2] \in 1..b[q[1]]
    BY <1>3
  <2>2. PICK i \in S : h[i] = q[1]
    BY <1>1, <2>1
  <2>3. <<i, q[2]>> \in Pairs(a, S)
    <3>1. q[2] \in 1..a[i] /\ q[2] \in Nat
      BY <2>1, <2>2
    <3> QED BY <1>2, <3>1
  <2>4. f[<<i, q[2]>>] = q
    BY <2>1, <2>2, <2>3
  <2> QED BY <2>3, <2>4
<1> HIDE DEF f
<1>8. f \in Bijection(Pairs(a, S), Pairs(b, T))
  BY <1>5, <1>6, <1>7, Fun_IsBij
<1>9. IsFiniteSet(Pairs(a, S)) /\ SumAt(a, S) = Cardinality(Pairs(a, S))
  BY SumAsPairs
<1>10. Cardinality(Pairs(b, T)) = Cardinality(Pairs(a, S))
  BY <1>8, <1>9, FS_Bijection DEF ExistsBijection
<1>11. SumAt(b, T) = Cardinality(Pairs(b, T))
  BY Zenon DEF Pairs, SumAt
<1> QED BY <1>9, <1>10, <1>11

-----------------------------------------------------------------------------
(* Messages *)

MessageType ==
  [role : {"system", "user", "assistant", "tool"}, id : IdType, body : Seq(Nat), calls : Seq(CallType),
   thought : BOOLEAN]

(* An assistant message says something or calls something. *)
Speaks(m) == m.role = "assistant" => m.body # <<>> \/ m.calls # <<>>

LEMMA PickType ==
  ASSUME NEW S, NEW seq \in Seq(S), NEW positions \in SUBSET DOMAIN seq
  PROVE  /\ Pick(seq, positions) \in Seq(S)
         /\ \A k \in DOMAIN Pick(seq, positions) : \E i \in positions : Pick(seq, positions)[k] = seq[i]
<1>1. IsFiniteSet(positions) /\ \A p \in positions : p \in Nat
  BY PositionsFinite
<1> DEFINE picked == Pick(seq, positions)
<1> HIDE DEF picked
<1>2. PICK m \in Nat : \E e : Lists(e, m, positions) /\ picked = [k \in 1..m |-> seq[e[k]]]
  BY <1>1, PickLists DEF picked
<1>3. PICK e : Lists(e, m, positions) /\ picked = [k \in 1..m |-> seq[e[k]]]
  BY <1>2
<1>4. \A k \in 1..m : e[k] \in positions /\ seq[e[k]] \in S
  BY <1>3 DEF Lists
<1>5. picked \in Seq(S) /\ DOMAIN picked = 1..m
  BY <1>3, <1>4
<1>6. \A k \in DOMAIN picked : \E i \in positions : picked[k] = seq[i]
  BY <1>3, <1>4, <1>5
<1> QED BY <1>5, <1>6 DEF picked

LEMMA RepairType ==
  ASSUME NEW input \in Seq(ItemType)
  PROVE  Repair(input) \in Seq(ItemType)
<1>1. DOMAIN input = 1..Len(input) /\ Len(input) \in Nat
  BY LenProperties
<1>2. IsFiniteSet(DOMAIN input)
  BY <1>1, FS_Interval
<1>3. \A p \in DOMAIN input : p \in Nat
  BY <1>1
<1>4. PICK m \in Nat, n \in Nat : \E e, o :
           /\ Lists(e, m, Kept(input)) /\ Lists(o, n, Orphans(input))
           /\ Repair(input) = [k \in 1..m |-> input[e[k]]]
                                \o [k \in 1..n |-> Item("output", input[o[k]].id, <<0>>, FALSE)]
  BY <1>2, <1>3, RepairIs
<1>5. PICK e, o :
           /\ Lists(e, m, Kept(input)) /\ Lists(o, n, Orphans(input))
           /\ Repair(input) = [k \in 1..m |-> input[e[k]]]
                                \o [k \in 1..n |-> Item("output", input[o[k]].id, <<0>>, FALSE)]
  BY <1>4
<1>6. /\ \A k \in 1..m : e[k] \in DOMAIN input
      /\ \A k \in 1..n : o[k] \in DOMAIN input
  BY <1>5 DEF Lists, Kept, Orphans, Positions
<1>7. [k \in 1..m |-> input[e[k]]] \in Seq(ItemType)
  BY <1>6
<1>8. \A k \in 1..n : Item("output", input[o[k]].id, <<0>>, FALSE) \in ItemType
  <2>1. \A k \in 1..n : input[o[k]] \in ItemType
    BY <1>6
  <2> QED BY <2>1 DEF Item, ItemType
<1>9. [k \in 1..n |-> Item("output", input[o[k]].id, <<0>>, FALSE)] \in Seq(ItemType)
  <2> DEFINE missing == [k \in 1..n |-> Item("output", input[o[k]].id, <<0>>, FALSE)]
  <2>1. missing = [k \in 1..n |-> missing[k]] /\ \A k \in 1..n : missing[k] \in ItemType
    BY <1>8
  <2> HIDE DEF missing
  <2>2. missing \in Seq(ItemType)
    BY <2>1, ListType
  <2> QED BY <2>2 DEF missing
<1> QED BY <1>5, <1>7, <1>9, ConcatProperties

LEMMA GroupType ==
  ASSUME NEW input \in Seq(ItemType)
  PROVE  Group(input) \in Seq(MessageType)
<1> DEFINE IsCall(i) == i \in Positions(input, "call")
           Row(i) == {j \in i..Len(input) : \A k \in i..j : IsCall(k)}
           calls(i) == [k \in 1..Cardinality(Row(i)) |-> Call(input[i + k - 1].id, input[i + k - 1].body)]
           thought(i) == \E k \in 1..Cardinality(Row(i)) : input[i + k - 1].thought
           message(i) == IF IsCall(i) THEN ChatMessage("assistant", NoId, <<>>, calls(i), thought(i))
                         ELSE AsMessage(input[i])
           all == [i \in DOMAIN input |-> message(i)]
           first == {i \in DOMAIN input : input[i].type # "other" /\ (IsCall(i) => ~ IsCall(i - 1))}
<1>1. Group(input) = Pick(all, first)
  BY Zenon DEF Group
<1>2. DOMAIN input = 1..Len(input) /\ Len(input) \in Nat /\ \A i \in 1..Len(input) : input[i] \in ItemType
  BY LenProperties
<1>3. ASSUME NEW i \in 1..Len(input) PROVE calls(i) \in Seq(CallType)
  <2> DEFINE n == Cardinality(Row(i))
             stop == Len(input)
  <2>1. n \in Nat /\ n <= stop - i + 1
    <3> DEFINE row == Row(i)
    <3>1. row \in SUBSET (i..stop)
      OBVIOUS
    <3>2. i \in Int /\ stop \in Int /\ i <= stop
      BY <1>2
    <3> HIDE DEF row, stop
    <3>3. IsFiniteSet(i..stop) /\ Cardinality(i..stop) = stop - i + 1
      BY <3>2, FS_Interval
    <3>4. IsFiniteSet(row) /\ Cardinality(row) <= Cardinality(i..stop)
      BY <3>1, <3>3, FS_Subset
    <3>5. Cardinality(row) \in Nat
      BY <3>4, FS_CardinalityType
    <3> QED BY <3>3, <3>4, <3>5 DEF row
  <2>2. ASSUME NEW k \in 1..n PROVE Call(input[i + k - 1].id, input[i + k - 1].body) \in CallType
    <3> HIDE DEF n
    <3>1. i + k - 1 \in 1..Len(input)
      BY <1>2, <2>1
    <3>2. input[i + k - 1] \in ItemType
      BY <1>2, <3>1
    <3> QED BY <3>2 DEF Call, CallType, ItemType
  <2> HIDE DEF n
  <2>3. [k \in 1..n |-> Call(input[i + k - 1].id, input[i + k - 1].body)] \in Seq(CallType)
    BY <2>1, <2>2
  <2> QED BY <2>3 DEF n
<1>4. ASSUME NEW i \in 1..Len(input) PROVE message(i) \in MessageType
  <2>1. CASE IsCall(i)
    <3>0. thought(i) \in BOOLEAN
      OBVIOUS
    <3> HIDE DEF calls, thought
    <3>1. calls(i) \in Seq(CallType)
      BY <1>3
    <3>2. ChatMessage("assistant", NoId, <<>>, calls(i), thought(i)) \in MessageType
      BY <3>0, <3>1 DEF ChatMessage, MessageType, NoId, IdType
    <3> QED BY <2>1, <3>2
  <2>2. CASE ~ IsCall(i)
    <3>1. input[i] \in ItemType /\ input[i].type \in {"user", "other", "message", "output"}
      BY <1>2, <2>2 DEF Positions, ItemType
    <3> DEFINE role == [user |-> "user", other |-> "user", message |-> "assistant", output |-> "tool"][input[i].type]
               id == IF input[i].type = "output" THEN input[i].id ELSE NoId
    <3>2. role \in {"user", "assistant", "tool"}
      BY <3>1
    <3>3. id \in IdType /\ input[i].body \in Seq(Nat) /\ input[i].thought \in BOOLEAN
      BY <3>1 DEF ItemType, NoId, IdType
    <3>4. AsMessage(input[i]) = ChatMessage(role, id, input[i].body, <<>>, input[i].thought)
      BY DEF AsMessage
    <3> HIDE DEF role, id
    <3>5. AsMessage(input[i]) \in MessageType
      BY <3>2, <3>3, <3>4 DEF ChatMessage, MessageType
    <3> QED BY <2>2, <3>5
  <2> QED BY <2>1, <2>2
<1> HIDE DEF message
<1>5. all \in Seq(MessageType) /\ DOMAIN all = DOMAIN input
  BY <1>2, <1>4
<1>6. first \in SUBSET DOMAIN all
  BY <1>5
<1> HIDE DEF all, first
<1> QED BY <1>1, <1>5, <1>6, PickType

LEMMA NormalizeType ==
  ASSUME NEW messages \in Seq(MessageType)
  PROVE  /\ Normalize(messages) \in Seq(MessageType)
         /\ \A k \in DOMAIN Normalize(messages) : Speaks(Normalize(messages)[k])
<1> DEFINE spoken == {i \in DOMAIN messages :
                        messages[i].role = "assistant" => messages[i].body # <<>> \/ messages[i].calls # <<>>}
<1>1. Normalize(messages) = Pick(messages, spoken)
  BY Zenon DEF Normalize
<1>2. spoken \in SUBSET DOMAIN messages /\ \A i \in spoken : Speaks(messages[i])
  BY DEF Speaks
<1> HIDE DEF spoken
<1>3. /\ Pick(messages, spoken) \in Seq(MessageType)
      /\ \A k \in DOMAIN Pick(messages, spoken) : \E i \in spoken : Pick(messages, spoken)[k] = messages[i]
  BY <1>2, PickType
<1> QED BY <1>1, <1>2, <1>3

LEMMA SpeakTogether ==
  ASSUME NEW a \in Seq(MessageType), NEW b \in Seq(MessageType),
         \A k \in DOMAIN a : Speaks(a[k]), \A k \in DOMAIN b : Speaks(b[k])
  PROVE  a \o b \in Seq(MessageType) /\ \A k \in DOMAIN (a \o b) : Speaks((a \o b)[k])
<1> DEFINE c == a \o b
<1>1. /\ c \in Seq(MessageType) /\ Len(c) = Len(a) + Len(b)
      /\ \A k \in 1..(Len(a) + Len(b)) : c[k] = IF k <= Len(a) THEN a[k] ELSE b[k - Len(a)]
  BY ConcatProperties
<1>2. /\ DOMAIN a = 1..Len(a) /\ DOMAIN b = 1..Len(b) /\ DOMAIN c = 1..Len(c)
      /\ Len(a) \in Nat /\ Len(b) \in Nat
  BY <1>1, LenProperties
<1> HIDE DEF c
<1>3. ASSUME NEW k \in DOMAIN c PROVE Speaks(c[k])
  <2>1. CASE k <= Len(a)
    <3>1. c[k] = a[k] /\ k \in DOMAIN a
      BY <1>1, <1>2, <2>1
    <3> QED BY <3>1
  <2>2. CASE ~(k <= Len(a))
    <3>1. c[k] = b[k - Len(a)] /\ k - Len(a) \in DOMAIN b
      BY <1>1, <1>2, <2>2
    <3> QED BY <3>1
  <2> QED BY <2>1, <2>2
<1> QED BY <1>1, <1>3 DEF c

LEMMA UnthoughtType ==
  ASSUME NEW input \in Seq(ItemType)
  PROVE  Unthought(input) \in Seq(ItemType)
<1>1. DOMAIN input = 1..Len(input) /\ Len(input) \in Nat /\ \A i \in 1..Len(input) : input[i] \in ItemType
  BY LenProperties
<1>2. ASSUME NEW x \in ItemType PROVE [x EXCEPT !.thought = FALSE] \in ItemType
  BY DEF ItemType
<1> DEFINE said(i) == IF input[i].type = "message" THEN [input[i] EXCEPT !.thought = FALSE] ELSE input[i]
<1>3. \A i \in 1..Len(input) : said(i) \in ItemType
  BY <1>1, <1>2
<1>4. Unthought(input) = [i \in 1..Len(input) |-> said(i)]
  BY <1>1 DEF Unthought
<1> HIDE DEF said
<1> QED BY <1>1, <1>3, <1>4

LEMMA RequestType ==
  ASSUME NEW history \in Seq(MessageType), NEW input \in Seq(ItemType), NEW first \in BOOLEAN
  PROVE  /\ Request(history, input, first) \in Seq(MessageType)
         /\ \A k \in DOMAIN Request(history, input, first) : Speaks(Request(history, input, first)[k])
<1> DEFINE before == Normalize(history)
           system == Instructions(first)
           added == IF \E i \in DOMAIN before : before[i] = system THEN <<>> ELSE <<system>>
           new == Normalize(Group(Unthought(Repair(input))))
<1>1. Request(history, input, first) = before \o added \o new
  BY DEF Request, InputToMessages
<1>2. before \in Seq(MessageType) /\ \A k \in DOMAIN before : Speaks(before[k])
  BY NormalizeType
<1>3. new \in Seq(MessageType) /\ \A k \in DOMAIN new : Speaks(new[k])
  <2>1. Group(Unthought(Repair(input))) \in Seq(MessageType)
    BY RepairType, UnthoughtType, GroupType
  <2> QED BY <2>1, NormalizeType
<1>4. system \in MessageType /\ Speaks(system)
  BY DEF Instructions, ChatMessage, MessageType, Speaks, NoId, IdType
<1>5. added \in Seq(MessageType) /\ \A k \in DOMAIN added : Speaks(added[k])
  BY <1>4
<1> HIDE DEF before, added, new, system
<1>6. before \o added \in Seq(MessageType) /\ \A k \in DOMAIN (before \o added) : Speaks((before \o added)[k])
  BY <1>2, <1>5, SpeakTogether
<1>7. /\ (before \o added) \o new \in Seq(MessageType)
      /\ \A k \in DOMAIN ((before \o added) \o new) : Speaks(((before \o added) \o new)[k])
  BY <1>3, <1>6, SpeakTogether
<1> QED BY <1>1, <1>7

-----------------------------------------------------------------------------
(* The loop that truncates *)

(* Induction over a set of numbers. *)
LEMMA NumbersFrom0 ==
  ASSUME NEW S, 0 \in S, \A n \in Nat : n \in S => n + 1 \in S
  PROVE  \A n \in Nat : n \in S
<1> SUFFICES ASSUME NEW n \in Nat, n \notin S PROVE FALSE
  OBVIOUS
<1> DEFINE missing == {k \in 0..n : k \notin S}
<1>1. IsFiniteSet(missing) /\ n \in missing
  <2>1. IsFiniteSet(0..n)
    BY FS_Interval
  <2>2. missing \in SUBSET (0..n)
    OBVIOUS
  <2> HIDE DEF missing
  <2>3. IsFiniteSet(missing)
    BY <2>1, <2>2, FS_Subset
  <2> QED BY <2>3 DEF missing
<1>2. \A p \in missing : p \in Nat
  OBVIOUS
<1>3. PICK q \in missing : \A p \in missing : q <= p
  <2> DEFINE m == Cardinality(missing)
  <2>1. m \in Nat /\ \E e : Lists(e, m, missing)
    <3> HIDE DEF missing
    <3> QED BY <1>1, <1>2, CanBeListed
  <2> HIDE DEF missing, m
  <2>2. PICK e : Lists(e, m, missing)
    BY <2>1
  <2>3. /\ \A p \in missing : \E k \in 1..m : e[k] = p
        /\ \A k \in 1..m : e[k] \in missing /\ e[k] \in Nat
        /\ \A a, b \in 1..m : a < b => e[a] < e[b]
    BY <1>2, <2>2 DEF Lists
  <2>4. 1 \in 1..m
    BY <1>1, <2>1, <2>3
  <2>5. \A k \in 1..m : e[1] <= e[k]
    BY <2>1, <2>3, <2>4
  <2> QED BY <2>3, <2>4, <2>5
<1>4. q \in Nat /\ q # 0 /\ q \notin S
  OBVIOUS
<1>5. q - 1 \in Nat /\ q - 1 \in 0..n /\ ~(q <= q - 1)
  BY <1>4
<1>6. q - 1 \in S
  BY <1>3, <1>5
<1>7. (q - 1) + 1 = q
  BY <1>4
<1> QED BY <1>4, <1>5, <1>6, <1>7

Nothing == [full |-> FALSE, kept |-> {}]

WalkStep(messages, budget, acc, i) ==
  IF acc.full \/ i \notin OthersAt(messages) \/ (Sizes(messages)[i] > budget /\ acc.kept # {}) THEN acc
  ELSE IF HaveRoom(Sizes(messages), acc.kept \cup {i}, budget) THEN [acc EXCEPT !.kept = @ \cup {i}]
  ELSE [acc EXCEPT !.full = TRUE]

IsWalk(w, messages, budget, n) ==
  w = [k \in 0..n |-> IF k = 0 THEN Nothing
                      ELSE WalkStep(messages, budget, w[k - 1], Len(messages) + 1 - k)]

LEMMA WalkGoesOn ==
  ASSUME NEW messages, NEW budget, NEW n \in Nat, NEW w, IsWalk(w, messages, budget, n)
  PROVE  \E v : IsWalk(v, messages, budget, n + 1)
<1> DEFINE v == [k \in 0..(n + 1) |->
                   IF k <= n THEN w[k] ELSE WalkStep(messages, budget, w[n], Len(messages) + 1 - (n + 1))]
<1>1. \A k \in 0..n : w[k] = IF k = 0 THEN Nothing
                             ELSE WalkStep(messages, budget, w[k - 1], Len(messages) + 1 - k)
  BY DEF IsWalk
<1>2. ASSUME NEW k \in 0..(n + 1)
      PROVE  v[k] = IF k = 0 THEN Nothing
                    ELSE WalkStep(messages, budget, v[k - 1], Len(messages) + 1 - k)
  <2>1. CASE k = 0
    BY <1>1, <2>1
  <2>2. CASE k \in 1..n
    <3>1. k - 1 \in 0..n /\ v[k - 1] = w[k - 1] /\ v[k] = w[k]
      BY <2>2
    <3> QED BY <1>1, <2>2, <3>1
  <2>3. CASE k = n + 1
    <3>1. k - 1 = n /\ v[k - 1] = w[n] /\ k # 0
      BY <2>3
    <3>2. v[k] = WalkStep(messages, budget, w[n], Len(messages) + 1 - k)
      BY <2>3
    <3> QED BY <3>1, <3>2
  <2> QED BY <2>1, <2>2, <2>3
<1>3. DOMAIN v = 0..(n + 1) /\ v = [k \in DOMAIN v |-> v[k]]
  OBVIOUS
<1> HIDE DEF v
<1>4. v = [k \in 0..(n + 1) |-> IF k = 0 THEN Nothing
                      ELSE WalkStep(messages, budget, v[k - 1], Len(messages) + 1 - k)]
  BY <1>2, <1>3
<1> QED BY <1>4 DEF IsWalk

LEMMA WalkIs ==
  ASSUME NEW messages, NEW budget, Len(messages) \in Nat
  PROVE  /\ Walk(messages, budget)[0] = Nothing
         /\ \A k \in 1..Len(messages) :
              Walk(messages, budget)[k]
                = WalkStep(messages, budget, Walk(messages, budget)[k - 1], Len(messages) + 1 - k)
<1> DEFINE n == Len(messages)
           walk == Walk(messages, budget)
           S == {k \in Nat : \E w : IsWalk(w, messages, budget, k)}
<1>1. 0 \in S
  <2> DEFINE w == [k \in 0..0 |-> Nothing]
  <2>1. w = [k \in 0..0 |-> IF k = 0 THEN Nothing
                      ELSE WalkStep(messages, budget, w[k - 1], Len(messages) + 1 - k)]
    OBVIOUS
  <2> HIDE DEF w
  <2> QED BY <2>1 DEF IsWalk
<1>2. \A k \in Nat : k \in S => k + 1 \in S
  BY WalkGoesOn
<1>3. n \in S
  <2> HIDE DEF S
  <2> QED BY <1>1, <1>2, NumbersFrom0
<1>4. \E w : IsWalk(w, messages, budget, n)
  BY <1>3
<1>5. walk = CHOOSE w : IsWalk(w, messages, budget, n)
  BY Zenon DEF Walk, IsWalk, WalkStep, Nothing
<1> HIDE DEF walk, S
<1>6. IsWalk(walk, messages, budget, n)
  BY <1>4, <1>5
<1>7. walk = [k \in 0..n |-> IF k = 0 THEN Nothing
                      ELSE WalkStep(messages, budget, walk[k - 1], Len(messages) + 1 - k)]
  BY <1>6 DEF IsWalk
<1> HIDE DEF n
<1>8. n \in Nat
  BY DEF n
<1>9. walk[0] = Nothing /\ \A k \in 1..n : walk[k] = WalkStep(messages, budget, walk[k - 1], Len(messages) + 1 - k)
  BY <1>7, <1>8
<1> QED BY <1>9 DEF walk, n

LEMMA MaxIs ==
  ASSUME NEW positions, \A p \in positions : p \in Nat, IsFiniteSet(positions), positions # {}
  PROVE  Max(positions) \in positions /\ \A p \in positions : p <= Max(positions)
<1>1. \E q \in positions : \A p \in positions : p <= q
  BY LastOf
<1> QED BY <1>1 DEF Max

Kinds(messages) ==
  /\ SystemAt(messages) \in SUBSET DOMAIN messages /\ OthersAt(messages) \in SUBSET DOMAIN messages
  /\ SystemAt(messages) \cap OthersAt(messages) = {}
  /\ SystemAt(messages) \cup OthersAt(messages) = DOMAIN messages

LEMMA KindsOf ==
  ASSUME NEW messages
  PROVE  Kinds(messages)
  BY DEF Kinds, SystemAt, OthersAt

LEMMA WalkType ==
  ASSUME NEW messages, NEW budget, Len(messages) \in Nat, NEW k \in 0..Len(messages)
  PROVE  Walk(messages, budget)[k] \in [full : BOOLEAN, kept : SUBSET OthersAt(messages)]
<1> DEFINE n == Len(messages)
           walk == Walk(messages, budget)
           T == [full : BOOLEAN, kept : SUBSET OthersAt(messages)]
           S == {i \in Nat : i <= n => walk[i] \in T}
<1>1. /\ walk[0] = Nothing
      /\ \A i \in 1..n : walk[i] = WalkStep(messages, budget, walk[i - 1], n + 1 - i)
  BY WalkIs
<1> HIDE DEF walk
<1>2. Nothing \in T
  BY DEF Nothing
<1>3. \A acc \in T : \A i : WalkStep(messages, budget, acc, i) \in T
  <2> SUFFICES ASSUME NEW acc \in T, NEW i PROVE WalkStep(messages, budget, acc, i) \in T
    OBVIOUS
  <2>1. acc \in T /\ [acc EXCEPT !.full = TRUE] \in T
    OBVIOUS
  <2>2. CASE i \notin OthersAt(messages)
    BY <2>1, <2>2 DEF WalkStep
  <2>3. CASE i \in OthersAt(messages)
    <3>1. acc.kept \cup {i} \in SUBSET OthersAt(messages)
      BY <2>3
    <3>2. [acc EXCEPT !.kept = @ \cup {i}] \in T
      BY <3>1
    <3> QED BY <2>1, <3>2 DEF WalkStep
  <2> QED BY <2>2, <2>3
<1> HIDE DEF T
<1>4. 0 \in S
  BY <1>1, <1>2
<1>5. ASSUME NEW i \in Nat, i \in S PROVE i + 1 \in S
  <2> SUFFICES ASSUME i + 1 <= n PROVE walk[i + 1] \in T
    OBVIOUS
  <2>1. i + 1 \in 1..n /\ (i + 1) - 1 = i /\ walk[i] \in T
    BY <1>5
  <2>2. walk[i + 1] = WalkStep(messages, budget, walk[i], n + 1 - (i + 1))
    BY <1>1, <2>1
  <2> QED BY <1>3, <2>1, <2>2
<1>6. k \in S
  <2> HIDE DEF S
  <2> QED BY <1>4, <1>5, NumbersFrom0
<1> QED BY <1>6 DEF T, walk

LEMMA ClipType ==
  ASSUME NEW m \in MessageType
  PROVE  /\ Clip(m) \in MessageType /\ Clip(m).role = m.role
         /\ Speaks(m) => Speaks(Clip(m))
<1> DEFINE n == Len(m.body)
           from == n - (MaxChars + 1) \div 2 + 1
           body == SubSeq(m.body, from, n)
<1>1. m.body \in Seq(Nat) /\ n \in Nat /\ MaxChars \in Nat \ {0}
  BY BoundsAssumption DEF MessageType
<1>2. CASE n > MaxChars \div 2
  <2>1. from \in 1..n
    BY <1>1, <1>2
  <2> HIDE DEF from
  <2>2. body \in Seq(Nat) /\ Len(body) = n - from + 1
    BY <1>1, <2>1, SubSeqProperties
  <2>4. Clip(m) = [m EXCEPT !.body = body]
    BY <1>2 DEF Clip, from
  <2> HIDE DEF body, n
  <2>3. body # <<>>
    <3>1. Len(body) # 0
      BY <1>1, <2>1, <2>2
    <3> QED BY <3>1, <2>2
  <2> QED BY <2>2, <2>3, <2>4 DEF MessageType, Speaks
<1>3. CASE ~(n > MaxChars \div 2)
  BY <1>3 DEF Clip
<1> QED BY <1>2, <1>3

LEMMA TruncateType ==
  ASSUME NEW messages \in Seq(MessageType), \A k \in DOMAIN messages : Speaks(messages[k])
  PROVE  /\ Truncate(messages) \in Seq(MessageType)
         /\ \A k \in DOMAIN Truncate(messages) : Speaks(Truncate(messages)[k])
<1> DEFINE budget == MaxChars - SumAt(Sizes(messages), SystemAt(messages))
           system == SystemAt(messages)
           others == OthersAt(messages)
           kept == Walk(messages, budget)[Len(messages)].kept
           rest == IF kept = {} /\ others # {} THEN <<Clip(messages[Max(others)])>> ELSE Pick(messages, kept)
<1>1. Truncate(messages) = IF Chars(messages) <= MaxChars THEN messages ELSE Pick(messages, system) \o rest
  BY DEF Truncate, Shorten
<1>2. Len(messages) \in Nat
  BY LenProperties
<1>3. system \in SUBSET DOMAIN messages /\ others \in SUBSET DOMAIN messages
  BY KindsOf DEF Kinds
<1> HIDE DEF budget
<1>4. kept \in SUBSET DOMAIN messages
  <2>1. Walk(messages, budget)[Len(messages)] \in [full : BOOLEAN, kept : SUBSET OthersAt(messages)]
    BY <1>2, WalkType
  <2> QED BY <1>3, <2>1
<1> HIDE DEF system, others, kept
<1>5. \A S \in SUBSET DOMAIN messages :
        /\ Pick(messages, S) \in Seq(MessageType)
        /\ \A k \in DOMAIN Pick(messages, S) : Speaks(Pick(messages, S)[k])
  <2> SUFFICES ASSUME NEW S \in SUBSET DOMAIN messages
               PROVE  /\ Pick(messages, S) \in Seq(MessageType)
                      /\ \A k \in DOMAIN Pick(messages, S) : Speaks(Pick(messages, S)[k])
    OBVIOUS
  <2>1. /\ Pick(messages, S) \in Seq(MessageType)
        /\ \A k \in DOMAIN Pick(messages, S) : \E i \in S : Pick(messages, S)[k] = messages[i]
    BY PickType
  <2> QED BY <2>1
<1>6. rest \in Seq(MessageType) /\ \A k \in DOMAIN rest : Speaks(rest[k])
  <2>1. CASE kept = {} /\ others # {}
    <3>1. IsFiniteSet(others) /\ \A p \in others : p \in Nat
      BY <1>3, PositionsFinite
    <3>2. Max(others) \in others
      BY <2>1, <3>1, MaxIs
    <3>3. messages[Max(others)] \in MessageType /\ Speaks(messages[Max(others)])
      BY <1>3, <3>2
    <3>4. Clip(messages[Max(others)]) \in MessageType /\ Speaks(Clip(messages[Max(others)]))
      BY <3>3, ClipType
    <3>5. rest = <<Clip(messages[Max(others)])>>
      BY <2>1
    <3> HIDE DEF rest
    <3> QED BY <3>4, <3>5
  <2>2. CASE ~(kept = {} /\ others # {})
    <3>1. rest = Pick(messages, kept)
      BY <2>2
    <3> HIDE DEF rest
    <3> QED BY <1>4, <1>5, <3>1
  <2> QED BY <2>1, <2>2
<1>7. /\ Pick(messages, system) \in Seq(MessageType)
      /\ \A k \in DOMAIN Pick(messages, system) : Speaks(Pick(messages, system)[k])
  BY <1>3, <1>5
<1> DEFINE first == Pick(messages, system)
<1> HIDE DEF first, rest
<1>8. first \o rest \in Seq(MessageType) /\ \A k \in DOMAIN (first \o rest) : Speaks((first \o rest)[k])
  BY <1>6, <1>7, SpeakTogether DEF first
<1>9. CASE Chars(messages) <= MaxChars
  BY <1>1, <1>9
<1>10. CASE ~(Chars(messages) <= MaxChars)
  <2>1. Truncate(messages) = first \o rest
    BY <1>1, <1>10 DEF first, rest
  <2> QED BY <1>8, <2>1
<1> QED BY <1>9, <1>10

-----------------------------------------------------------------------------
(* The inductive invariant of the messages *)

Spoken(messages) == messages \in Seq(MessageType) /\ \A k \in DOMAIN messages : Speaks(messages[k])

(* What is posted is well formed, and while the answer streams it is what   *)
(* the items make.                                                          *)
MessagesInv ==
  /\ stored \in Seq(MessageType)
  /\ Spoken(resent) /\ Spoken(chained)
  /\ phase = "stream" => resent = Truncate(Request(<<>>, items, TRUE))

LEMMA InitMessages == Init => MessagesInv
  BY DEF Init, MessagesInv, Spoken

LEMMA PostMessages ==
  ASSUME AnswerIInv, MessagesInv, Post
  PROVE  MessagesInv'
<1>1. items \in Seq(ItemType) /\ fresh \in Seq(ItemType) /\ stored \in Seq(MessageType)
  BY DEF AnswerIInv, Types, MessagesInv
<1> DEFINE first == posts = 0
           whole == Request(<<>>, items, TRUE)
           part == Request(stored, fresh, first)
<1>2. /\ resent' = Truncate(whole) /\ chained' = Truncate(part)
      /\ UNCHANGED <<items, stored>>
  BY DEF Post, client
<1>3. first \in BOOLEAN /\ <<>> \in Seq(MessageType)
  OBVIOUS
<1>4. whole' = whole
  BY <1>2 DEF Request, Instructions
<1>5. Spoken(whole)
  BY <1>1, <1>3, RequestType DEF Spoken
<1>6. Spoken(part)
  <2> HIDE DEF first
  <2> QED BY <1>1, <1>3, RequestType DEF Spoken
<1>7. resent' = Truncate(Request(<<>>, items', TRUE))
  BY <1>2
<1> HIDE DEF whole, part, first
<1>8. Spoken(Truncate(whole)) /\ Spoken(Truncate(part))
  BY <1>5, <1>6, TruncateType DEF Spoken
<1>9. Spoken(resent') /\ Spoken(chained')
  BY <1>2, <1>8
<1> QED BY <1>1, <1>2, <1>7, <1>9 DEF MessagesInv, Spoken

LEMMA StreamEndsMessages ==
  ASSUME AnswerIInv, MessagesInv, StreamEnds
  PROVE  MessagesInv'
<1> DEFINE text == IF agg.calls = <<>> THEN agg.text ELSE <<>>
           calls == agg.calls
           order == Ordered(calls)
           m == Len(order)
           thought == agg.thought
           output == ToResponses(text, calls, 1, FALSE, thought)
<1>1. stored' = chained \o Group(output) /\ phase' = "client" /\ UNCHANGED <<resent, chained>>
  BY DEF StreamEnds, Receives, BodyToMessages
<1>2. /\ text \in Seq(Nat) /\ calls \in OfCalls(CallType) /\ thought \in BOOLEAN
      /\ posts \in Nat /\ 1 \in 0..2 /\ FALSE \in BOOLEAN
  BY DEF AnswerIInv, Types
<1>3. order = Ordered(calls) /\ m = Len(order) /\ output = ToResponses(text, calls, 1, FALSE, thought)
  OBVIOUS
<1> HIDE DEF text, calls, thought, order, m, output
<1>4. output \in Seq(ItemType)
  BY <1>2, <1>3, ConvertedAnswer
<1>5. Group(output) \in Seq(MessageType) /\ chained \in Seq(MessageType)
  BY <1>4, GroupType DEF MessagesInv, Spoken
<1>6. stored' \in Seq(MessageType)
  BY <1>1, <1>5
<1> QED BY <1>1, <1>6 DEF MessagesInv, Spoken

LEMMA JsonAnswerMessages ==
  ASSUME AnswerIInv, MessagesInv, JsonAnswer
  PROVE  MessagesInv'
<1> DEFINE order == Ordered(agg.calls)
           calls == [k \in DOMAIN order |-> agg.calls[order[k]]]
           message == ChatMessage("assistant", NoId, agg.text, calls, agg.thought)
<1>1. stored' = Append(chained, message)
  BY DEF JsonAnswer
<1>2. phase' = "client" /\ UNCHANGED <<resent, chained>>
  BY DEF JsonAnswer, Receives
<1>3. agg.text \in Seq(Nat) /\ agg.calls \in OfCalls(CallType) /\ agg.thought \in BOOLEAN
  BY DEF AnswerIInv, Types
<1>4. \A i \in DOMAIN agg.calls : agg.calls[i] \in CallType
  BY <1>3 DEF OfCalls
<1>5. order \in Seq(DOMAIN agg.calls)
  BY <1>3, OrderedLists
<1> HIDE DEF order
<1>6. calls \in Seq(CallType)
  BY <1>4, <1>5
<1> HIDE DEF calls
<1>7. message \in MessageType
  BY <1>3, <1>6 DEF ChatMessage, MessageType, NoId, IdType
<1> HIDE DEF message
<1>8. stored' \in Seq(MessageType)
  BY <1>1, <1>7 DEF MessagesInv, Spoken
<1> QED BY <1>2, <1>8 DEF MessagesInv, Spoken

LEMMA StepMessages == AnswerIInv /\ MessagesInv /\ [Next]_vars => MessagesInv'
<1> SUFFICES ASSUME AnswerIInv, MessagesInv, [Next]_vars PROVE MessagesInv'
  OBVIOUS
<1>1. ASSUME UNCHANGED <<proxy, phase, items>> PROVE MessagesInv'
  BY <1>1 DEF MessagesInv, Spoken, proxy, Request, Instructions
<1>2. ASSUME UNCHANGED proxy, phase' # "stream" PROVE MessagesInv'
  BY <1>2 DEF MessagesInv, Spoken, proxy
<1>3. CASE UserSays
  BY <1>2, <1>3 DEF UserSays, Says
<1>11. CASE SendsOther
  BY <1>2, <1>11 DEF SendsOther, Says
<1>12. CASE ThoughtDelta
  BY <1>1, <1>12 DEF ThoughtDelta, client
<1>4. CASE SendsOutput
  BY <1>2, <1>4 DEF SendsOutput, Says
<1>5. CASE Post
  BY <1>5, PostMessages
<1>6. CASE TextDelta
  BY <1>1, <1>6 DEF TextDelta, client
<1>7. CASE \E i \in Indices : CallDelta(i)
  BY <1>1, <1>7 DEF CallDelta, client
<1>8. CASE StreamEnds
  BY <1>8, StreamEndsMessages
<1>9. CASE JsonAnswer
  BY <1>9, JsonAnswerMessages
<1>10. CASE UNCHANGED vars
  BY <1>1, <1>10 DEF vars, client
<1> QED BY <1>3, <1>4, <1>5, <1>6, <1>7, <1>8, <1>9, <1>10, <1>11, <1>12 DEF Next

(* Types; an assistant message that is posted has text or calls.            *)
THEOREM TypeCorrect == Spec => []TypeOK
<1>1. AnswerIInv /\ MessagesInv => TypeOK
  <2> SUFFICES ASSUME AnswerIInv, MessagesInv PROVE TypeOK
    OBVIOUS
  <2>1. phase \in {"client", "stream"} /\ posts \in 0..MaxPosts /\ plain \in BOOLEAN
    BY DEF AnswerIInv, Types
  <2>2. \A i \in DOMAIN items :
          items[i].type \in {"user", "other", "message", "call", "output"} /\ items[i].id \in Nat \X (0..2) \X Nat
    <3>1. items \in Seq(ItemType)
      BY DEF AnswerIInv, Types
    <3>2. \A i \in DOMAIN items : items[i] \in ItemType
      BY <3>1
    <3> QED BY <3>2 DEF ItemType, IdType
  <2>3. DOMAIN sent.calls = DOMAIN agg.calls /\ DOMAIN agg.calls \subseteq Indices
    BY DEF AnswerIInv, Types, AggInv, OfCalls
  <2>4. ASSUME NEW m \in ToSet(resent) \cup ToSet(chained)
        PROVE  m \in MessageType /\ Speaks(m)
    BY DEF MessagesInv, Spoken, ToSet
  <2>5. \A m \in ToSet(resent) \cup ToSet(chained) :
          /\ m.role \in {"system", "user", "assistant", "tool"}
          /\ m.role = "assistant" => m.body # <<>> \/ m.calls # <<>>
    BY <2>4 DEF MessageType, Speaks
  <2> QED BY <2>1, <2>2, <2>3, <2>5 DEF TypeOK
<1>2. Spec => [](AnswerIInv /\ MessagesInv)
  <2>1. Init => AnswerIInv /\ MessagesInv
    BY InitAnswer, InitMessages
  <2>2. AnswerIInv /\ MessagesInv /\ [Next]_vars => (AnswerIInv /\ MessagesInv)'
    BY StepAnswer, StepMessages
  <2> QED BY <2>1, <2>2, PTL DEF Spec
<1> QED BY <1>1, <1>2, PTL

-----------------------------------------------------------------------------
(* What the loop keeps *)

(* The others that are not too large, and those among them from i on. *)
Fitting(messages, budget) == {i \in OthersAt(messages) : Sizes(messages)[i] <= budget}
NewerThan(messages, budget, i) == {j \in OthersAt(messages) : j >= i /\ Sizes(messages)[j] <= budget}
RoomFor(messages, budget, i) == HaveRoom(Sizes(messages), NewerThan(messages, budget, i), budget)

(* What the list of some messages takes. *)
ListedSum(sizes, positions) ==
  SumAt(sizes, positions) + IF Cardinality(positions) > 1 THEN 2 * Cardinality(positions) ELSE 0

LEMMA RoomIsListed ==
  ASSUME NEW sizes, NEW S, IsFiniteSet(S), \A i \in S : sizes[i] \in Nat, NEW budget \in Int
  PROVE  HaveRoom(sizes, S, budget) <=> ListedSum(sizes, S) <= budget
<1>1. Cardinality(S) \in Nat /\ SumAt(sizes, S) \in Nat
  BY FS_CardinalityType, SumAsPairs
<1> QED BY <1>1 DEF HaveRoom, ListedSum

(* Where some have room, fewer have. *)
LEMMA FewerHaveRoom ==
  ASSUME NEW sizes, NEW T, IsFiniteSet(T), NEW S \in SUBSET T, \A i \in T : sizes[i] \in Nat,
         NEW budget \in Int, HaveRoom(sizes, T, budget)
  PROVE  HaveRoom(sizes, S, budget)
<1>1. IsFiniteSet(S) /\ Cardinality(S) <= Cardinality(T)
  BY FS_Subset
<1>2. Cardinality(S) \in Nat /\ Cardinality(T) \in Nat
  BY <1>1, FS_CardinalityType
<1>3. SumAt(sizes, S) \in Nat /\ SumAt(sizes, T) \in Nat
  BY <1>1, SumAsPairs
<1>4. SumAt(sizes, S) <= SumAt(sizes, T)
  BY SumGrows
<1> QED BY <1>1, <1>2, <1>3, <1>4 DEF HaveRoom

(* After the messages from i on. *)
WalkInv(messages, budget, acc, i) ==
  /\ acc.full \in BOOLEAN
  /\ acc.kept = {j \in Fitting(messages, budget) : j >= i /\ RoomFor(messages, budget, j)}
  /\ acc.full <=> \E j \in Fitting(messages, budget) : j >= i /\ ~ RoomFor(messages, budget, j)
  /\ SumAt(Sizes(messages), acc.kept) <= budget

LEMMA SizeType ==
  ASSUME NEW m \in MessageType
  PROVE  Size(m) \in Nat
<1> DEFINE sizes == [j \in DOMAIN m.calls |-> 1 + Len(m.calls[j].body)]
           D == DOMAIN m.calls
<1>1. m.body \in Seq(Nat) /\ m.calls \in Seq(CallType)
  BY DEF MessageType
<1>2. IsFiniteSet(D)
  <2>1. D = 1..Len(m.calls) /\ Len(m.calls) \in Nat
    BY <1>1, LenProperties
  <2> QED BY <2>1, FS_Interval
<1>3. \A j \in D : sizes[j] \in Nat
  <2> SUFFICES ASSUME NEW j \in D PROVE 1 + Len(m.calls[j].body) \in Nat
    OBVIOUS
  <2>1. m.calls[j] \in CallType
    BY <1>1
  <2>2. m.calls[j].body \in Seq(Nat)
    BY <2>1 DEF CallType
  <2> QED BY <2>2, LenProperties
<1>4. Size(m) = (IF m.thought THEN 2 ELSE 1) + Len(m.body) + SumAt(sizes, D)
  BY Zenon DEF Size
<1>5. Len(m.body) \in Nat
  BY <1>1, LenProperties
<1> DEFINE frame == IF m.thought THEN 2 ELSE 1
<1>7. frame \in Nat /\ Size(m) = frame + Len(m.body) + SumAt(sizes, D)
  BY <1>4
<1> HIDE DEF sizes, D, frame
<1>6. SumAt(sizes, D) \in Nat
  BY <1>2, <1>3, SumAsPairs
<1> QED BY <1>5, <1>6, <1>7

LEMMA SizesType ==
  ASSUME NEW messages \in Seq(MessageType)
  PROVE  /\ DOMAIN Sizes(messages) = DOMAIN messages
         /\ \A i \in DOMAIN messages : Sizes(messages)[i] = Size(messages[i]) /\ Sizes(messages)[i] \in Nat
<1>1. \A i \in DOMAIN messages : Size(messages[i]) \in Nat
  BY SizeType
<1> QED BY <1>1 DEF Sizes

LEMMA WalkStepKeeps ==
  ASSUME NEW messages \in Seq(MessageType), NEW budget \in Int, NEW newest \in OthersAt(messages),
         \A j \in OthersAt(messages) : j <= newest, Sizes(messages)[newest] <= budget,
         NEW i \in 1..Len(messages), NEW acc \in [full : BOOLEAN, kept : SUBSET OthersAt(messages)],
         WalkInv(messages, budget, acc, i + 1)
  PROVE  WalkInv(messages, budget, WalkStep(messages, budget, acc, i), i)
<1> DEFINE sizes == Sizes(messages)
           others == OthersAt(messages)
           Fit == Fitting(messages, budget)
           Newer(j) == NewerThan(messages, budget, j)
           Room(j) == RoomFor(messages, budget, j)
           next == WalkStep(messages, budget, acc, i)
<1>1. Fit = {j \in others : sizes[j] <= budget} /\ \A j : Newer(j) = {k \in Fit : k >= j}
  BY DEF Fitting, NewerThan
<1>2. \A j : Room(j) <=> HaveRoom(sizes, Newer(j), budget)
  BY DEF RoomFor
<1>3. /\ acc.full \in BOOLEAN
      /\ acc.kept = {j \in Fit : j >= i + 1 /\ Room(j)}
      /\ acc.full <=> \E j \in Fit : j >= i + 1 /\ ~ Room(j)
      /\ SumAt(sizes, acc.kept) <= budget
  BY DEF WalkInv
<1>4. next = IF acc.full \/ i \notin others \/ (sizes[i] > budget /\ acc.kept # {}) THEN acc
             ELSE IF HaveRoom(sizes, acc.kept \cup {i}, budget) THEN [acc EXCEPT !.kept = @ \cup {i}]
             ELSE [acc EXCEPT !.full = TRUE]
  BY DEF WalkStep
<1>5. others \in SUBSET DOMAIN messages /\ i \in Nat
  <2>1. others \in SUBSET DOMAIN messages
    BY KindsOf DEF Kinds
  <2>2. Len(messages) \in Nat
    BY LenProperties
  <2> QED BY <2>1, <2>2
<1>6. IsFiniteSet(others) /\ \A j \in others : j \in Nat
  BY <1>5, PositionsFinite
<1>7. \A j \in others : sizes[j] \in Nat
  BY <1>5, SizesType
<1>8. \A j : Newer(j) \in SUBSET others /\ IsFiniteSet(Newer(j))
  <2> SUFFICES ASSUME NEW j PROVE Newer(j) \in SUBSET others /\ IsFiniteSet(Newer(j))
    OBVIOUS
  <2> DEFINE N == Newer(j)
  <2>1. N \in SUBSET others
    BY <1>1
  <2> HIDE DEF N, others, sizes
  <2>2. IsFiniteSet(N)
    BY <1>6, <2>1, FS_Subset
  <2> QED BY <2>1, <2>2 DEF N
<1>9. newest \in others /\ sizes[newest] <= budget /\ \A j \in others : j <= newest
  OBVIOUS
<1>10. SUFFICES /\ next.full \in BOOLEAN
                /\ next.kept = {j \in Fit : j >= i /\ Room(j)}
                /\ next.full <=> \E j \in Fit : j >= i /\ ~ Room(j)
                /\ SumAt(sizes, next.kept) <= budget
  BY DEF WalkInv
<1>11. acc.kept \in SUBSET others
  OBVIOUS
<1> HIDE DEF sizes, others, Fit, Newer, Room, next
<1>12. \A j \in Fit : j \in others /\ j \in Nat /\ sizes[j] <= budget
  BY <1>1, <1>6
<1>13. CASE acc.full
  <2>1. PICK j \in Fit : j >= i + 1 /\ ~ Room(j)
    BY <1>3, <1>13
  <2>3. ~ Room(i)
    <3> DEFINE S == Newer(j)
               T == Newer(i)
    <3>1. S \in SUBSET T
      BY <1>1, <1>5, <1>12, <2>1
    <3>2. IsFiniteSet(T) /\ \A k \in T : sizes[k] \in Nat
      BY <1>7, <1>8
    <3>3. ~ HaveRoom(sizes, S, budget)
      BY <1>2, <2>1
    <3> HIDE DEF S, T
    <3>4. ~ HaveRoom(sizes, T, budget)
      BY <3>1, <3>2, <3>3, FewerHaveRoom
    <3> QED BY <1>2, <3>4 DEF T
  <2>4. next = acc
    BY <1>4, <1>13
  <2>5. acc.kept = {k \in Fit : k >= i /\ Room(k)}
    BY <1>3, <1>5, <1>12, <2>3
  <2>6. \E k \in Fit : k >= i /\ ~ Room(k)
    BY <1>5, <1>12, <2>1
  <2> QED BY <1>3, <1>13, <2>4, <2>5, <2>6
<1>14. CASE ~acc.full
  <2>1. \A j \in Fit : j >= i + 1 => Room(j)
    BY <1>3, <1>14
  <2>2. acc.kept = {j \in Fit : j >= i + 1}
    BY <1>3, <2>1
  <2>3. CASE i \notin Fit
    <3>1. next = acc
      <4>1. CASE i \notin others
        BY <1>4, <4>1
      <4>2. CASE i \in others
        <5>1. sizes[i] > budget
          BY <1>1, <1>7, <2>3, <4>2
        <5>2. newest \in Fit /\ newest >= i /\ newest # i
          BY <1>1, <1>6, <1>9, <2>3, <4>2
        <5>3. newest \in acc.kept
          BY <1>5, <1>12, <2>2, <5>2
        <5> QED BY <1>4, <5>1, <5>3
      <4> QED BY <4>1, <4>2
    <3>2. \A j \in Fit : j >= i <=> j >= i + 1
      BY <1>5, <1>12, <2>3
    <3>3. acc.kept = {k \in Fit : k >= i /\ Room(k)}
      BY <2>1, <2>2, <3>2
    <3>4. ~ \E k \in Fit : k >= i /\ ~ Room(k)
      BY <2>1, <3>2
    <3> QED BY <1>3, <1>14, <3>1, <3>3, <3>4
  <2>4. CASE i \in Fit
    <3>1. i \in others /\ sizes[i] <= budget /\ sizes[i] \in Nat
      BY <1>7, <1>12, <2>4
    <3>2. \A j \in Fit : j >= i <=> j >= i + 1 \/ j = i
      BY <1>5, <1>12
    <3>3. Newer(i) = acc.kept \cup {i} /\ acc.kept \cap {i} = {}
      BY <1>1, <1>5, <2>2, <2>4, <3>2
    <3>4. Room(i) <=> HaveRoom(sizes, acc.kept \cup {i}, budget)
      BY <1>2, <3>3
    <3>5. next = IF Room(i) THEN [acc EXCEPT !.kept = @ \cup {i}] ELSE [acc EXCEPT !.full = TRUE]
      BY <1>4, <1>14, <3>1, <3>4
    <3>6. CASE ~ Room(i)
      <4>2. next = [acc EXCEPT !.full = TRUE]
        BY <3>5, <3>6
      <4>3. next.full = TRUE /\ next.kept = acc.kept
        BY <4>2
      <4>4. acc.kept = {k \in Fit : k >= i /\ Room(k)}
        BY <2>1, <2>2, <3>2, <3>6
      <4>5. \E k \in Fit : k >= i /\ ~ Room(k)
        BY <1>5, <2>4, <3>6
      <4> QED BY <1>3, <4>3, <4>4, <4>5
    <3>7. CASE Room(i)
      <4>2. next = [acc EXCEPT !.kept = @ \cup {i}]
        BY <3>5, <3>7
      <4>3. next.full = acc.full /\ next.kept = acc.kept \cup {i}
        BY <4>2
      <4>4. next.kept = {k \in Fit : k >= i /\ Room(k)}
        BY <1>5, <2>1, <2>2, <2>4, <3>2, <3>7, <4>3
      <4>5. ~ \E k \in Fit : k >= i /\ ~ Room(k)
        BY <2>1, <3>2, <3>7
      <4>6. SumAt(sizes, next.kept) <= budget
        BY <3>4, <3>7, <4>3 DEF HaveRoom
      <4> QED BY <1>3, <1>14, <4>3, <4>4, <4>5, <4>6
    <3> QED BY <3>6, <3>7
  <2> QED BY <2>3, <2>4
<1> QED BY <1>3, <1>13, <1>14

(* All that fit in with what is newer are kept. *)
LEMMA WalkKeeps ==
  ASSUME NEW messages \in Seq(MessageType), NEW budget \in Int, OthersAt(messages) # {},
         Sizes(messages)[Max(OthersAt(messages))] <= budget
  PROVE  LET kept == Walk(messages, budget)[Len(messages)].kept
         IN /\ kept = {i \in Fitting(messages, budget) : RoomFor(messages, budget, i)}
            /\ SumAt(Sizes(messages), kept) <= budget
<1> DEFINE n == Len(messages)
           walk == Walk(messages, budget)
           S == {k \in Nat : k <= n => WalkInv(messages, budget, walk[k], n + 1 - k)}
           others == OthersAt(messages)
           newest == Max(others)
<1>1. n \in Nat /\ DOMAIN messages = 1..n
  BY LenProperties
<1>2. others \in SUBSET DOMAIN messages
  BY KindsOf DEF Kinds
<1>3. IsFiniteSet(others) /\ \A p \in others : p \in Nat
  BY <1>2, PositionsFinite
<1>4. newest \in others /\ \A j \in others : j <= newest
  <2> HIDE DEF others
  <2> QED BY <1>3, MaxIs DEF others
<1>5. /\ walk[0] = Nothing
      /\ \A i \in 1..n : walk[i] = WalkStep(messages, budget, walk[i - 1], n + 1 - i)
  BY <1>1, WalkIs
<1>6. \A k \in 0..n : walk[k] \in [full : BOOLEAN, kept : SUBSET OthersAt(messages)]
  BY <1>1, WalkType
<1>7. Sizes(messages)[newest] <= budget /\ newest \in OthersAt(messages)
      /\ \A j \in OthersAt(messages) : j <= newest
  BY <1>4
<1>8. Sizes(messages)[newest] \in Nat
  BY <1>2, <1>4, SizesType
<1>9. 0 <= budget
  BY <1>7, <1>8
<1> HIDE DEF walk, n, newest
<1>10. WalkInv(messages, budget, walk[0], n + 1)
  <2>1. \A j \in Fitting(messages, budget) : ~(j >= n + 1)
    BY <1>1, <1>2 DEF Fitting
  <2>2. walk[0].full = FALSE /\ walk[0].kept = {}
    BY <1>5 DEF Nothing
  <2>3. SumAt(Sizes(messages), {}) = 0
    BY SumOfNone
  <2> QED BY <1>9, <2>1, <2>2, <2>3 DEF WalkInv
<1>11. 0 \in S
  BY <1>1, <1>10
<1>12. ASSUME NEW k \in Nat, k \in S PROVE k + 1 \in S
  <2> SUFFICES ASSUME k + 1 <= n PROVE WalkInv(messages, budget, walk[k + 1], n + 1 - (k + 1))
    OBVIOUS
  <2> DEFINE i == n - k
             acc == walk[k]
  <2>1. i \in 1..n /\ n + 1 - (k + 1) = i /\ n + 1 - k = i + 1 /\ k + 1 \in 1..n /\ k \in 0..n /\ (k + 1) - 1 = k
    BY <1>1
  <2>2. walk[k + 1] = WalkStep(messages, budget, acc, i)
    BY <1>5, <2>1
  <2>3. WalkInv(messages, budget, acc, i + 1)
    BY <1>12, <2>1
  <2>4. acc \in [full : BOOLEAN, kept : SUBSET OthersAt(messages)]
    BY <1>6, <2>1
  <2> HIDE DEF i, acc
  <2>5. i \in 1..Len(messages)
    BY <2>1 DEF n
  <2>6. WalkInv(messages, budget, WalkStep(messages, budget, acc, i), i)
    BY <1>7, <2>3, <2>4, <2>5, WalkStepKeeps
  <2> QED BY <2>1, <2>2, <2>6
<1>13. n \in S
  <2> HIDE DEF S
  <2> QED BY <1>1, <1>11, <1>12, NumbersFrom0
<1>14. WalkInv(messages, budget, walk[n], n + 1 - n)
  BY <1>1, <1>13
<1>15. WalkInv(messages, budget, walk[n], 1)
  BY <1>1, <1>14
<1>16. \A j \in Fitting(messages, budget) : j >= 1
  BY <1>1, <1>2 DEF Fitting
<1>17. /\ walk[n].kept = {i \in Fitting(messages, budget) : RoomFor(messages, budget, i)}
       /\ SumAt(Sizes(messages), walk[n].kept) <= budget
  BY <1>15, <1>16 DEF WalkInv
<1> QED BY <1>17 DEF walk, n

-----------------------------------------------------------------------------
(* What is posted *)

LEMMA CharsOfPick ==
  ASSUME NEW messages \in Seq(MessageType), NEW positions \in SUBSET DOMAIN messages
  PROVE  Chars(Pick(messages, positions)) = SumAt(Sizes(messages), positions)
<1>1. IsFiniteSet(positions) /\ \A p \in positions : p \in Nat
  BY PositionsFinite
<1> DEFINE picked == Pick(messages, positions)
<1>2. picked \in Seq(MessageType)
  BY PickType
<1> HIDE DEF picked
<1>3. PICK m \in Nat : \E e : Lists(e, m, positions) /\ picked = [k \in 1..m |-> messages[e[k]]]
  BY <1>1, PickLists DEF picked
<1>4. PICK e : Lists(e, m, positions) /\ picked = [k \in 1..m |-> messages[e[k]]]
  BY <1>3
<1>5. DOMAIN picked = 1..m /\ IsFiniteSet(1..m)
  BY <1>4, FS_Interval
<1>6. e \in Bijection(1..m, positions)
  <2>1. \A a, b \in 1..m : a < b => e[a] < e[b]
    BY <1>4 DEF Lists
  <2>2. \A a \in 1..m : e[a] \in Nat
    BY <1>1, <1>4 DEF Lists
  <2>3. \A a, b \in 1..m : e[a] = e[b] => a = b
    BY <2>1, <2>2
  <2> QED BY <1>4, <2>3, Fun_IsBij DEF Lists
<1>7. \A k \in 1..m : Sizes(picked)[k] \in Nat /\ Sizes(messages)[e[k]] = Sizes(picked)[k]
  <2> SUFFICES ASSUME NEW k \in 1..m
               PROVE  Sizes(picked)[k] \in Nat /\ Sizes(messages)[e[k]] = Sizes(picked)[k]
    OBVIOUS
  <2>1. e[k] \in DOMAIN messages /\ picked[k] = messages[e[k]]
    BY <1>4 DEF Lists
  <2>2. Sizes(picked)[k] = Size(picked[k]) /\ Sizes(picked)[k] \in Nat
    BY <1>2, <1>5, SizesType
  <2>3. Sizes(messages)[e[k]] = Size(messages[e[k]])
    BY <2>1, SizesType
  <2> QED BY <2>1, <2>2, <2>3
<1> DEFINE a == Sizes(picked)
           b == Sizes(messages)
           S == 1..m
<1> HIDE DEF a, b, S
<1>8. SumAt(a, S) = SumAt(b, positions)
  <2>1. e \in Bijection(S, positions) /\ IsFiniteSet(S)
    BY <1>5, <1>6 DEF S
  <2>2. \A k \in S : a[k] \in Nat /\ b[e[k]] = a[k]
    BY <1>7 DEF S, a, b
  <2> QED BY <2>1, <2>2, SumMoved
<1> QED BY <1>5, <1>8 DEF Chars, a, b, S, picked

(* System messages followed by others. *)
LEMMA PartsOf ==
  ASSUME NEW a \in Seq(MessageType), NEW b \in Seq(MessageType),
         \A k \in DOMAIN a : a[k].role = "system", \A k \in DOMAIN b : b[k].role # "system"
  PROVE  /\ Pick(a \o b, SystemAt(a \o b)) = a
         /\ Pick(a \o b, OthersAt(a \o b)) = b
         /\ Chars(a \o b) = Chars(a) + Chars(b)
<1> DEFINE c == a \o b
           m == Len(a)
           n == Len(b)
<1>1. /\ c \in Seq(MessageType) /\ Len(c) = m + n
      /\ \A k \in 1..(m + n) : c[k] = IF k <= m THEN a[k] ELSE b[k - m]
  BY ConcatProperties
<1>2. /\ DOMAIN a = 1..m /\ DOMAIN b = 1..n /\ DOMAIN c = 1..(m + n) /\ m \in Nat /\ n \in Nat
      /\ a = [k \in 1..m |-> a[k]] /\ b = [k \in 1..n |-> b[k]]
  BY <1>1, LenProperties
<1> HIDE DEF c, m, n
<1>3. \A k \in 1..m : k \in 1..(m + n) /\ c[k] = a[k]
  BY <1>1, <1>2
<1>4. \A k \in 1..n : m + k \in 1..(m + n) /\ c[m + k] = b[k]
  <2> SUFFICES ASSUME NEW k \in 1..n PROVE m + k \in 1..(m + n) /\ c[m + k] = b[k]
    OBVIOUS
  <2> DEFINE j == m + k
  <2>1. j \in 1..(m + n) /\ ~(j <= m) /\ j - m = k
    BY <1>2
  <2> HIDE DEF j
  <2>2. c[j] = b[k]
    BY <1>1, <2>1
  <2> QED BY <2>1, <2>2 DEF j
<1> DEFINE later == {m + k : k \in 1..n}
<1>5. SystemAt(c) = 1..m
  <2>1. ASSUME NEW k \in SystemAt(c) PROVE k \in 1..m
    <3>1. k \in 1..(m + n) /\ c[k].role = "system"
      BY <1>2 DEF SystemAt
    <3>2. CASE ~(k <= m)
      <4>1. c[k] = b[k - m] /\ k - m \in 1..n
        BY <1>1, <1>2, <3>1, <3>2
      <4> QED BY <1>2, <3>1, <4>1
    <3> QED BY <1>2, <3>1, <3>2
  <2>2. ASSUME NEW k \in 1..m PROVE k \in SystemAt(c)
    BY <1>2, <1>3 DEF SystemAt
  <2> QED BY <2>1, <2>2
<1>6. OthersAt(c) = later
  <2>1. ASSUME NEW k \in OthersAt(c) PROVE k \in later
    <3>1. k \in 1..(m + n) /\ ~(k <= m)
      BY <1>2, <1>5 DEF OthersAt
    <3>2. k - m \in 1..n /\ k = m + (k - m)
      BY <1>2, <3>1
    <3> QED BY <3>2
  <2>2. ASSUME NEW k \in later PROVE k \in OthersAt(c)
    <3>1. PICK j \in 1..n : k = m + j
      OBVIOUS
    <3>2. k \in 1..(m + n) /\ k \notin 1..m
      BY <1>2, <3>1
    <3> QED BY <1>2, <1>5, <3>2 DEF OthersAt
  <2> QED BY <2>1, <2>2
<1> DEFINE e == [k \in 1..m |-> k]
           f == [k \in 1..n |-> m + k]
<1>7. Lists(e, m, 1..m) /\ Lists(f, n, later)
  BY <1>2 DEF Lists
<1>8. (\A p \in 1..m : p \in Nat) /\ (\A p \in later : p \in Nat)
  BY <1>2
<1>15. (\A k \in 1..m : e[k] = k) /\ (\A k \in 1..n : f[k] = m + k)
  OBVIOUS
<1> HIDE DEF later, e, f
<1>9. Pick(c, 1..m) = a
  <2> DEFINE S == 1..m
  <2>1. Lists(e, m, S) /\ \A p \in S : p \in Nat
    BY <1>7, <1>8
  <2> HIDE DEF S
  <2>2. Pick(c, S) = [k \in 1..m |-> c[e[k]]]
    BY <1>2, <2>1, PickIs
  <2>3. \A k \in 1..m : c[e[k]] = a[k]
    BY <1>3, <1>15
  <2> QED BY <1>2, <2>2, <2>3 DEF S
<1>10. Pick(c, later) = b
  <2>1. Pick(c, later) = [k \in 1..n |-> c[f[k]]]
    BY <1>2, <1>7, <1>8, PickIs
  <2>2. \A k \in 1..n : c[f[k]] = b[k]
    BY <1>4, <1>15
  <2> QED BY <1>2, <2>1, <2>2
<1> DEFINE S == SystemAt(c)
           T == OthersAt(c)
           sizes == Sizes(c)
<1>11. S \in SUBSET DOMAIN c /\ T \in SUBSET DOMAIN c /\ S \cap T = {} /\ S \cup T = DOMAIN c
  BY KindsOf DEF Kinds
<1>12. \A k \in DOMAIN c : sizes[k] \in Nat
  BY <1>1, SizesType
<1>13. Chars(c) = SumAt(sizes, S \cup T)
  BY <1>11 DEF Chars
<1>14. SumAt(sizes, S \cup T) = SumAt(sizes, S) + SumAt(sizes, T)
  <2> HIDE DEF S, T, sizes
  <2>1. IsFiniteSet(S)
    BY <1>1, <1>11, PositionsFinite
  <2>2. IsFiniteSet(T)
    BY <1>1, <1>11, PositionsFinite
  <2>3. (\A k \in S : sizes[k] \in Nat) /\ (\A k \in T : sizes[k] \in Nat)
    BY <1>11, <1>12
  <2> QED BY <1>11, <2>1, <2>2, <2>3, SumOfBoth
<1>16. Chars(a) = SumAt(sizes, S)
  <2> HIDE DEF S, T
  <2>1. Chars(Pick(c, S)) = SumAt(sizes, S)
    BY <1>1, <1>11, CharsOfPick
  <2> QED BY <1>5, <1>9, <2>1 DEF S
<1>17. Chars(b) = SumAt(sizes, T)
  <2> HIDE DEF S, T
  <2>1. Chars(Pick(c, T)) = SumAt(sizes, T)
    BY <1>1, <1>11, CharsOfPick
  <2> QED BY <1>6, <1>10, <2>1 DEF T
<1> QED BY <1>5, <1>6, <1>9, <1>10, <1>13, <1>14, <1>16, <1>17 DEF c

Expected(messages) ==
  LET others == OthersAt(messages)
      sizes == Sizes(messages)
      budget == MaxChars - SumAt(sizes, SystemAt(messages))
      newest == sizes[Max(others)]
      Newer(i) == {j \in others : j >= i /\ sizes[j] <= budget}
      posted == Truncate(messages)
  IN /\ Pick(posted, SystemAt(posted)) = Pick(messages, SystemAt(messages))
     /\ others # {} /\ newest <= budget =>
          /\ Chars(posted) <= MaxChars
          /\ Pick(posted, OthersAt(posted))
               = Pick(messages, {i \in others :
                    /\ sizes[i] <= budget
                    /\ ListedSum(sizes, Newer(i)) <= budget \/ Chars(messages) <= MaxChars})

LEMMA TruncateIsSound ==
  ASSUME NEW messages \in Seq(MessageType)
  PROVE  Expected(messages)
<1> DEFINE others == OthersAt(messages)
           system == SystemAt(messages)
           sizes == Sizes(messages)
           room == SumAt(sizes, system)
           budget == MaxChars - room
           newest == sizes[Max(others)]
           Newer(i) == {j \in others : j >= i /\ sizes[j] <= budget}
           posted == Truncate(messages)
           fitting == {i \in others :
                    /\ sizes[i] <= budget
                    /\ ListedSum(sizes, Newer(i)) <= budget \/ Chars(messages) <= MaxChars}
           kept == Walk(messages, budget)[Len(messages)].kept
           first == Pick(messages, system)
           rest == IF kept = {} /\ others # {} THEN <<Clip(messages[Max(others)])>> ELSE Pick(messages, kept)
<1>1. SUFFICES /\ Pick(posted, SystemAt(posted)) = first
               /\ others # {} /\ newest <= budget =>
                    /\ Chars(posted) <= MaxChars
                    /\ Pick(posted, OthersAt(posted)) = Pick(messages, fitting)
  BY DEF Expected
<1>2. posted = IF Chars(messages) <= MaxChars THEN messages ELSE first \o rest
  BY DEF Truncate, Shorten
<1>3. /\ system \in SUBSET DOMAIN messages /\ others \in SUBSET DOMAIN messages
      /\ system \cap others = {} /\ system \cup others = DOMAIN messages
      /\ (\A i \in system : messages[i].role = "system")
      /\ (\A i \in others : messages[i].role # "system")
  BY DEF SystemAt, OthersAt
<1>4. /\ IsFiniteSet(system)
      /\ IsFiniteSet(others)
      /\ \A p \in others : p \in Nat
  <2> HIDE DEF system, others
  <2>1. IsFiniteSet(system)
    BY <1>3, PositionsFinite
  <2>2. IsFiniteSet(others) /\ \A p \in others : p \in Nat
    BY <1>3, PositionsFinite
  <2> QED BY <2>1, <2>2
<1>5. \A i \in DOMAIN messages : sizes[i] \in Nat
  BY SizesType
<1>6. room \in Nat
  <2> HIDE DEF system, sizes
  <2> QED BY <1>3, <1>4, <1>5, SumAsPairs
<1>7. budget \in Int /\ room + budget = MaxChars /\ MaxChars \in Nat
  <2> HIDE DEF room
  <2> QED BY <1>6, BoundsAssumption
<1>8. Len(messages) \in Nat
  BY LenProperties
<1>9. kept \in SUBSET others
  <2> HIDE DEF budget
  <2>1. Walk(messages, budget)[Len(messages)] \in [full : BOOLEAN, kept : SUBSET OthersAt(messages)]
    BY <1>8, WalkType
  <2> QED BY <2>1
<1>10. CASE Chars(messages) <= MaxChars
  <2>1. posted = messages
    BY <1>2, <1>10
  <2>2. ASSUME NEW i \in others PROVE sizes[i] <= budget
    <3> DEFINE T == {i}
               c == SumAt(sizes, DOMAIN messages)
    <3>1. T \in SUBSET others /\ SumAt(sizes, T) = sizes[i] /\ sizes[i] \in Nat
      BY <1>3, <1>5, SumOfOne
    <3>2. c <= MaxChars
      BY <1>10 DEF Chars
    <3> HIDE DEF T, system, others, sizes, budget
    <3>3. IsFiniteSet(T)
      BY <1>4, <3>1, FS_Subset
    <3>4. SumAt(sizes, system \cup T) = SumAt(sizes, system) + SumAt(sizes, T)
      <4>1. system \cap T = {}
        BY <1>3, <3>1
      <4>2. (\A k \in system : sizes[k] \in Nat) /\ (\A k \in T : sizes[k] \in Nat)
        BY <1>3, <1>5, <3>1
      <4> QED BY <1>4, <3>3, <4>1, <4>2, SumOfBoth
    <3>5. SumAt(sizes, system \cup T) <= c
      <4> DEFINE both == system \cup T
                 all == DOMAIN messages
      <4>1. both \in SUBSET all /\ \A k \in all : sizes[k] \in Nat
        BY <1>3, <1>5, <3>1
      <4>2. IsFiniteSet(all)
        <5>1. all = 1..Len(messages)
          BY LenProperties
        <5> QED BY <1>8, <5>1, FS_Interval
      <4> HIDE DEF both, all
      <4>3. SumAt(sizes, both) <= SumAt(sizes, all)
        BY <4>1, <4>2, SumGrows
      <4> QED BY <4>3 DEF both, all
    <3>6. c \in Nat
      <4> DEFINE all == DOMAIN messages
      <4>1. IsFiniteSet(all)
        <5>1. all = 1..Len(messages)
          BY LenProperties
        <5> QED BY <1>8, <5>1, FS_Interval
      <4>2. \A k \in all : sizes[k] \in Nat
        BY <1>5
      <4> HIDE DEF all
      <4>3. SumAt(sizes, all) \in Nat
        BY <4>1, <4>2, SumAsPairs
      <4> QED BY <4>3 DEF all
    <3>7. room + sizes[i] <= c
      BY <3>1, <3>4, <3>5
    <3> HIDE DEF room, c
    <3> QED BY <1>6, <1>7, <3>1, <3>2, <3>6, <3>7
  <2>3. fitting = others
    <3> HIDE DEF budget
    <3> QED BY <1>10, <2>2
  <2>4. posted = messages /\ Chars(posted) <= MaxChars /\ SystemAt(posted) = system /\ OthersAt(posted) = others
    BY <1>10, <2>1
  <2> HIDE DEF posted, others, system, sizes, fitting, budget, newest
  <2> QED BY <2>3, <2>4
<1>11. CASE ~(Chars(messages) <= MaxChars)
  <2>1. posted = first \o rest
    BY <1>2, <1>11
  <2>2. /\ first \in Seq(MessageType)
        /\ \A k \in DOMAIN first : \E i \in system : first[k] = messages[i]
    <3> HIDE DEF system
    <3> QED BY <1>3, PickType
  <2>3. \A k \in DOMAIN first : first[k].role = "system"
    BY <1>3, <2>2
  <2>4. rest \in Seq(MessageType) /\ \A k \in DOMAIN rest : rest[k].role # "system"
    <3>1. CASE kept = {} /\ others # {}
      <4> DEFINE last == messages[Max(others)]
      <4>1. rest = <<Clip(last)>>
        BY <3>1
      <4>2. Max(others) \in others
        <5> HIDE DEF others
        <5> QED BY <1>4, <3>1, MaxIs
      <4>3. last \in MessageType /\ last.role # "system"
        BY <1>3, <4>2
      <4> HIDE DEF last, rest
      <4>4. Clip(last) \in MessageType /\ Clip(last).role # "system"
        BY <4>3, ClipType
      <4> QED BY <4>1, <4>4
    <3>2. CASE ~(kept = {} /\ others # {})
      <4>1. rest = Pick(messages, kept)
        BY <3>2
      <4> HIDE DEF rest
      <4>2. kept \in SUBSET DOMAIN messages
        BY <1>3, <1>9
      <4> HIDE DEF kept
      <4>3. /\ Pick(messages, kept) \in Seq(MessageType)
            /\ \A k \in DOMAIN Pick(messages, kept) : \E i \in kept : Pick(messages, kept)[k] = messages[i]
        BY <4>2, PickType
      <4> QED BY <1>3, <1>9, <4>1, <4>3 DEF kept
    <3> QED BY <3>1, <3>2
  <2> HIDE DEF first, rest
  <2>5. /\ Pick(first \o rest, SystemAt(first \o rest)) = first
        /\ Pick(first \o rest, OthersAt(first \o rest)) = rest
        /\ Chars(first \o rest) = Chars(first) + Chars(rest)
    BY <2>2, <2>3, <2>4, PartsOf
  <2>6. ASSUME others # {}, newest <= budget
        PROVE  Chars(posted) <= MaxChars /\ Pick(posted, OthersAt(posted)) = Pick(messages, fitting)
    <3> DEFINE b == budget
    <3>1. b \in Int /\ sizes[Max(others)] <= b
      BY <1>7, <2>6
    <3> HIDE DEF b
    <3>2. /\ Walk(messages, b)[Len(messages)].kept
               = {i \in Fitting(messages, b) : RoomFor(messages, b, i)}
          /\ SumAt(Sizes(messages), Walk(messages, b)[Len(messages)].kept) <= b
      BY <2>6, <3>1, WalkKeeps
    <3>3. kept = {i \in others : sizes[i] <= b /\ HaveRoom(sizes, {j \in others : j >= i /\ sizes[j] <= b}, b)}
      BY <3>2 DEF Fitting, RoomFor, NewerThan, b
    <3>15. ASSUME NEW i \in others
           PROVE  HaveRoom(sizes, {j \in others : j >= i /\ sizes[j] <= b}, b)
                    <=> ListedSum(sizes, {j \in others : j >= i /\ sizes[j] <= b}) <= b
      <4> DEFINE S == {j \in others : j >= i /\ sizes[j] <= b}
      <4>1. S \in SUBSET others /\ \A j \in S : sizes[j] \in Nat
        BY <1>3, <1>5
      <4> HIDE DEF S, others, sizes
      <4>2. IsFiniteSet(S)
        BY <1>4, <4>1, FS_Subset
      <4>3. HaveRoom(sizes, S, b) <=> ListedSum(sizes, S) <= b
        BY <3>1, <4>1, <4>2, RoomIsListed
      <4> QED BY <4>3 DEF S
    <3>4. kept = fitting
      BY <1>11, <3>3, <3>15 DEF b
    <3>5. Max(others) \in kept
      <4> DEFINE last == Max(others)
                 newer == {j \in others : j >= last /\ sizes[j] <= b}
      <4>1. last \in others /\ \A p \in others : p <= last
        <5> HIDE DEF others
        <5> QED BY <1>4, <2>6, MaxIs
      <4>2. \A p \in others : p >= last <=> p = last
        BY <1>4, <4>1
      <4>3. newer = {last}
        BY <3>1, <4>1, <4>2
      <4>4. SumAt(sizes, {last}) = sizes[last]
        BY <1>3, <1>5, <4>1, SumOfOne
      <4>5. Cardinality({last}) = 1
        BY FS_Singleton
      <4>6. HaveRoom(sizes, {last}, b)
        BY <3>1, <4>4, <4>5 DEF HaveRoom
      <4> QED BY <3>1, <3>3, <4>1, <4>3, <4>6
    <3>6. rest = Pick(messages, kept)
      BY <3>5 DEF rest
    <3>7. kept \in SUBSET DOMAIN messages
      BY <1>3, <1>9
    <3>8. SumAt(sizes, kept) <= budget
      BY <3>2 DEF b
    <3> HIDE DEF kept, fitting, posted
    <3>9. Chars(rest) = SumAt(Sizes(messages), kept)
      BY <3>6, <3>7, CharsOfPick
    <3>10. Chars(first) = room
      <4> DEFINE S == system
      <4>1. S \in SUBSET DOMAIN messages /\ first = Pick(messages, S)
        BY <1>3 DEF first
      <4> HIDE DEF S
      <4>2. Chars(first) = SumAt(Sizes(messages), S)
        BY <4>1, CharsOfPick
      <4> QED BY <4>2 DEF S
    <3>11. SumAt(sizes, kept) \in Nat
      <4>1. IsFiniteSet(kept) /\ \A i \in kept : sizes[i] \in Nat
        BY <1>5, <3>7, PositionsFinite
      <4> HIDE DEF sizes
      <4> QED BY <4>1, SumAsPairs
    <3> DEFINE s == SumAt(sizes, kept)
    <3>12. Chars(posted) = room + s /\ s <= budget /\ s \in Nat
      BY <2>1, <2>5, <3>8, <3>9, <3>10, <3>11
    <3> HIDE DEF s, room
    <3>13. Chars(posted) <= MaxChars
      <4> DEFINE r == budget
      <4>1. room + r = MaxChars /\ s <= r /\ r \in Int
        BY <1>7, <3>12
      <4> HIDE DEF r
      <4> QED BY <1>6, <1>7, <3>12, <4>1
    <3>14. Pick(posted, OthersAt(posted)) = Pick(messages, fitting)
      BY <2>1, <2>5, <3>4, <3>6
    <3> QED BY <3>13, <3>14
  <2>7. Pick(posted, SystemAt(posted)) = first
    <3> HIDE DEF posted
    <3> QED BY <2>1, <2>5
  <2> QED BY <2>6, <2>7 DEF first
<1> QED BY <1>10, <1>11

(* What is posted fits the limit and has all system messages, unless even   *)
(* the newest message does not fit beside them; nothing else is left out    *)
(* than what the loop of _truncate_chat_messages has no room for, be it by  *)
(* the sizes of the messages or by that of their list.                      *)
THEOREM SoundTruncation == Spec => []TruncationIsSound
<1>1. AnswerIInv /\ MessagesInv => TruncationIsSound
  <2> SUFFICES ASSUME AnswerIInv, MessagesInv PROVE TruncationIsSound
    OBVIOUS
  <2> DEFINE messages == Request(<<>>, items, TRUE)
  <2>1. messages \in Seq(MessageType)
    <3>1. items \in Seq(ItemType) /\ <<>> \in Seq(MessageType) /\ TRUE \in BOOLEAN
      BY DEF AnswerIInv, Types
    <3> QED BY <3>1, RequestType
  <2>2. JustPosted => resent = Truncate(messages)
    BY DEF MessagesInv, JustPosted
  <2>3. Expected(messages)
    <3> HIDE DEF messages
    <3> QED BY <2>1, TruncateIsSound
  <2> QED BY <2>2, <2>3 DEF TruncationIsSound, Expected, ListedSum
<1>2. Spec => [](AnswerIInv /\ MessagesInv)
  <2>1. Init => AnswerIInv /\ MessagesInv
    BY InitAnswer, InitMessages
  <2>2. AnswerIInv /\ MessagesInv /\ [Next]_vars => (AnswerIInv /\ MessagesInv)'
    BY StepAnswer, StepMessages
  <2> QED BY <2>1, <2>2, PTL DEF Spec
<1> QED BY <1>1, <1>2, PTL

-----------------------------------------------------------------------------
(* Sequences one after the other *)

(* The positions of b when it follows m others. *)
After(m, positions) == {m + k : k \in positions}

Together(c, a, b) ==
  /\ DOMAIN a = 1..Len(a) /\ DOMAIN b = 1..Len(b) /\ DOMAIN c = 1..(Len(a) + Len(b))
  /\ Len(a) \in Nat /\ Len(b) \in Nat /\ Len(c) = Len(a) + Len(b)
  /\ \A k \in DOMAIN a : k \in DOMAIN c /\ c[k] = a[k]
  /\ \A k \in DOMAIN b : Len(a) + k \in DOMAIN c /\ c[Len(a) + k] = b[k]
  /\ \A i \in DOMAIN c : i \notin DOMAIN a => \E k \in DOMAIN b : i = Len(a) + k

LEMMA ConcatIs ==
  ASSUME NEW S, NEW a \in Seq(S), NEW b \in Seq(S)
  PROVE  a \o b \in Seq(S) /\ Together(a \o b, a, b)
<1> DEFINE c == a \o b
           m == Len(a)
           n == Len(b)
<1>1. /\ c \in Seq(S) /\ Len(c) = m + n
      /\ \A k \in 1..(m + n) : c[k] = IF k <= m THEN a[k] ELSE b[k - m]
  BY ConcatProperties
<1>2. DOMAIN a = 1..m /\ DOMAIN b = 1..n /\ DOMAIN c = 1..(m + n) /\ m \in Nat /\ n \in Nat
  BY <1>1, LenProperties
<1> HIDE DEF c, m, n
<1>3. \A k \in 1..m : k \in 1..(m + n) /\ c[k] = a[k]
  BY <1>1, <1>2
<1>4. \A k \in 1..n : m + k \in 1..(m + n) /\ c[m + k] = b[k]
  <2> SUFFICES ASSUME NEW k \in 1..n PROVE m + k \in 1..(m + n) /\ c[m + k] = b[k]
    OBVIOUS
  <2> DEFINE j == m + k
  <2>1. j \in 1..(m + n) /\ ~(j <= m) /\ j - m = k
    BY <1>2
  <2> HIDE DEF j
  <2>2. c[j] = b[k]
    BY <1>1, <2>1
  <2> QED BY <2>1, <2>2 DEF j
<1>5. ASSUME NEW i \in 1..(m + n), i \notin 1..m PROVE \E k \in 1..n : i = m + k
  <2>1. i - m \in 1..n /\ i = m + (i - m)
    BY <1>2, <1>5
  <2> QED BY <2>1
<1> QED BY <1>1, <1>2, <1>3, <1>4, <1>5 DEF Together, c, m, n

LEMMA PickListed ==
  ASSUME NEW seq, NEW positions, \A p \in positions : p \in Nat, IsFiniteSet(positions)
  PROVE  \E m \in Nat : \E e : Lists(e, m, positions) /\ Listed(Pick(seq, positions), seq, e, m)
<1>1. PICK m \in Nat : \E e : Lists(e, m, positions)
                           /\ Pick(seq, positions) = [k \in 1..m |-> seq[e[k]]]
  BY PickLists
<1>2. PICK e : Lists(e, m, positions) /\ Pick(seq, positions) = [k \in 1..m |-> seq[e[k]]]
  BY <1>1
<1>3. Lists(e, m, positions) /\ Listed(Pick(seq, positions), seq, e, m)
  BY <1>2 DEF Listed
<1> QED BY <1>3, Zenon

Joined(whole, a, b) == whole = a \o b

(* What is picked of both is picked of each. *)
LEMMA PickTogether ==
  ASSUME NEW c, NEW a, NEW b, NEW m \in Nat, NEW n \in Nat, NEW S \in SUBSET (1..m), NEW T \in SUBSET (1..n),
         \A k \in S : c[k] = a[k], \A k \in T : c[m + k] = b[k]
  PROVE  Joined(Pick(c, S \cup After(m, T)), Pick(a, S), Pick(b, T))
<1>1. /\ IsFiniteSet(S)
      /\ IsFiniteSet(T)
      /\ \A i \in S : i \in Nat
      /\ \A i \in T : i \in Nat
      /\ \A i \in S : i <= m
      /\ \A i \in T : i > 0
  <2>1. IsFiniteSet(1..m) /\ IsFiniteSet(1..n)
    BY FS_Interval
  <2>2. IsFiniteSet(S)
    BY <2>1, FS_Subset
  <2>3. IsFiniteSet(T)
    BY <2>1, FS_Subset
  <2> QED BY <2>2, <2>3
<1>21. ASSUME NEW i \in S PROVE i \in Nat
  BY <1>1
<1>22. ASSUME NEW i \in T PROVE i \in Nat
  BY <1>1
<1>23. IsFiniteSet(S) /\ IsFiniteSet(T)
  BY <1>1
<1>2. PICK p \in Nat : \E e : Lists(e, p, S) /\ Listed(Pick(a, S), a, e, p)
  BY <1>21, <1>23, PickListed
<1>24. PICK e : Lists(e, p, S) /\ Listed(Pick(a, S), a, e, p)
  BY <1>2
<1>3. Lists(e, p, S) /\ Pick(a, S) = [k \in 1..p |-> a[e[k]]]
  BY <1>24 DEF Listed
<1>4. PICK q \in Nat : \E f : Lists(f, q, T) /\ Listed(Pick(b, T), b, f, q)
  BY <1>22, <1>23, PickListed
<1>25. PICK f : Lists(f, q, T) /\ Listed(Pick(b, T), b, f, q)
  BY <1>4
<1>5. Lists(f, q, T) /\ Pick(b, T) = [k \in 1..q |-> b[f[k]]]
  BY <1>25 DEF Listed
<1> DEFINE U == S \cup After(m, T)
           g == [k \in 1..(p + q) |-> IF k <= p THEN e[k] ELSE m + f[k - p]]
<1>6. /\ \A k \in 1..p : e[k] \in S
      /\ \A i, j \in 1..p : i < j => e[i] < e[j]
      /\ \A i \in S : \E k \in 1..p : e[k] = i
  BY <1>3 DEF Lists
<1>7. /\ \A k \in 1..q : f[k] \in T
      /\ \A i, j \in 1..q : i < j => f[i] < f[j]
      /\ \A i \in T : \E k \in 1..q : f[k] = i
  BY <1>5 DEF Lists
<1>8. \A k \in 1..p : k \in 1..(p + q) /\ g[k] = e[k]
  OBVIOUS
<1>9. \A k \in 1..q : p + k \in 1..(p + q) /\ g[p + k] = m + f[k]
  <2> SUFFICES ASSUME NEW k \in 1..q PROVE p + k \in 1..(p + q) /\ g[p + k] = m + f[k]
    OBVIOUS
  <2> DEFINE j == p + k
  <2>1. j \in 1..(p + q) /\ ~(j <= p) /\ j - p = k
    OBVIOUS
  <2> HIDE DEF j
  <2>2. g[j] = m + f[k]
    BY <2>1
  <2> QED BY <2>1, <2>2 DEF j
<1>10. \A k \in 1..(p + q) : k \in 1..p \/ \E j \in 1..q : k = p + j
  <2> SUFFICES ASSUME NEW k \in 1..(p + q), k \notin 1..p PROVE \E j \in 1..q : k = p + j
    OBVIOUS
  <2>1. k - p \in 1..q /\ k = p + (k - p)
    OBVIOUS
  <2> QED BY <2>1
<1>11. DOMAIN g = 1..(p + q) /\ g = [k \in 1..(p + q) |-> g[k]]
  OBVIOUS
<1> HIDE DEF g
<1>12. ASSUME NEW k \in 1..(p + q) PROVE g[k] \in U
  <2>1. CASE k \in 1..p
    BY <1>6, <1>8, <2>1
  <2>2. CASE k \notin 1..p
    <3>1. PICK j \in 1..q : k = p + j
      BY <1>10, <2>2
    <3>2. g[k] = m + f[j] /\ f[j] \in T
      BY <1>7, <1>9, <3>1
    <3> QED BY <3>2 DEF After
  <2> QED BY <2>1, <2>2
<1>13. \A i, j \in 1..(p + q) : i < j => g[i] < g[j]
  <2> SUFFICES ASSUME NEW i \in 1..(p + q), NEW j \in 1..(p + q), i < j PROVE g[i] < g[j]
    OBVIOUS
  <2>1. CASE i \in 1..p /\ j \in 1..p
    BY <1>6, <1>8, <2>1
  <2>2. CASE i \in 1..p /\ j \notin 1..p
    <3>1. PICK l \in 1..q : j = p + l
      BY <1>10, <2>2
    <3>2. g[i] = e[i] /\ e[i] \in Nat /\ e[i] <= m
      BY <1>1, <1>6, <1>8, <2>2
    <3>3. g[j] = m + f[l] /\ f[l] \in Nat /\ f[l] > 0
      BY <1>1, <1>7, <1>9, <3>1
    <3> QED BY <3>2, <3>3
  <2>3. CASE i \notin 1..p
    <3>1. PICK k \in 1..q : i = p + k
      BY <1>10, <2>3
    <3>2. j \notin 1..p
      BY <2>3
    <3>3. PICK l \in 1..q : j = p + l
      BY <1>10, <3>2
    <3>4. k < l
      BY <3>1, <3>3
    <3>5. f[k] < f[l] /\ f[k] \in Nat /\ f[l] \in Nat
      BY <1>1, <1>7, <3>4
    <3>6. g[i] = m + f[k] /\ g[j] = m + f[l]
      BY <1>9, <3>1, <3>3
    <3> QED BY <3>5, <3>6
  <2> QED BY <2>1, <2>2, <2>3
<1>14. \A i \in U : \E k \in 1..(p + q) : g[k] = i
  <2> SUFFICES ASSUME NEW i \in U PROVE \E k \in 1..(p + q) : g[k] = i
    OBVIOUS
  <2>1. CASE i \in S
    BY <1>6, <1>8, <2>1
  <2>2. CASE i \in After(m, T)
    <3>1. PICK t \in T : i = m + t
      BY <2>2 DEF After
    <3>2. PICK k \in 1..q : f[k] = t
      BY <1>7
    <3> QED BY <1>9, <3>1, <3>2
  <2> QED BY <2>1, <2>2
<1>15. Lists(g, p + q, U)
  BY <1>11, <1>12, <1>13, <1>14 DEF Lists
<1>16. ASSUME NEW i \in U PROVE i \in Nat
  BY <1>1 DEF After
<1> HIDE DEF U
<1>17. Pick(c, U) = [k \in 1..(p + q) |-> c[g[k]]]
  <2> DEFINE r == p + q
  <2>1. r \in Nat
    OBVIOUS
  <2>2. Lists(g, r, U)
    BY <1>15
  <2> HIDE DEF r
  <2>4. Listed(Pick(c, U), c, g, r)
    BY <1>16, <2>1, <2>2, ListedBy
  <2>3. Pick(c, U) = [k \in 1..r |-> c[g[k]]]
    BY <2>4 DEF Listed
  <2> QED BY <2>3 DEF r
<1> DEFINE x == Pick(a, S)
           y == Pick(b, T)
<1>18. /\ Len(x) = p /\ Len(y) = q
       /\ x \o y = [k \in 1..(p + q) |-> IF k <= p THEN x[k] ELSE y[k - p]]
       /\ \A k \in 1..p : x[k] = a[e[k]]
       /\ \A k \in 1..q : y[k] = b[f[k]]
  BY <1>3, <1>5
<1> HIDE DEF x, y
<1>19. ASSUME NEW k \in 1..(p + q)
       PROVE  c[g[k]] = IF k <= p THEN x[k] ELSE y[k - p]
  <2>1. CASE k \in 1..p
    <3>1. g[k] = e[k] /\ e[k] \in S /\ k <= p
      BY <1>6, <1>8, <2>1
    <3>2. c[e[k]] = a[e[k]] /\ x[k] = a[e[k]]
      BY <1>18, <2>1, <3>1
    <3> QED BY <3>1, <3>2
  <2>2. CASE k \notin 1..p
    <3>1. PICK j \in 1..q : k = p + j
      BY <1>10, <2>2
    <3>2. c[g[k]] = b[f[j]]
      BY <1>7, <1>9, <3>1
    <3>3. ~(k <= p) /\ k - p = j
      BY <3>1
    <3> QED BY <1>18, <3>2, <3>3
  <2> QED BY <2>1, <2>2
<1>20. Pick(c, U) = x \o y
  BY <1>17, <1>18, <1>19
<1> QED BY <1>20 DEF x, y, U, Joined

LEMMA PickAll ==
  ASSUME NEW S, NEW a \in Seq(S)
  PROVE  Pick(a, DOMAIN a) = a
<1> DEFINE m == Len(a)
           e == [k \in 1..m |-> k]
           D == DOMAIN a
<1>1. D = 1..m /\ m \in Nat /\ a = [k \in 1..m |-> a[k]]
  BY LenProperties
<1> HIDE DEF m, D
<1>2. Lists(e, m, D)
  BY <1>1 DEF Lists
<1>6. ASSUME NEW p \in D PROVE p \in Nat
  BY <1>1
<1>3. \A k \in 1..m : e[k] = k
  OBVIOUS
<1> HIDE DEF e
<1>4. m \in Nat
  BY <1>1
<1>5. Pick(a, D) = [k \in 1..m |-> a[e[k]]]
  BY <1>2, <1>4, <1>6, PickIs
<1> QED BY <1>1, <1>3, <1>5 DEF D

SpokenAt(messages) == {i \in DOMAIN messages : Speaks(messages[i])}

LEMMA NormalizeSplits ==
  ASSUME NEW a \in Seq(MessageType), NEW b \in Seq(MessageType)
  PROVE  Normalize(a \o b) = Normalize(a) \o Normalize(b)
<1> DEFINE c == a \o b
           m == Len(a)
           n == Len(b)
           S == SpokenAt(a)
           T == SpokenAt(b)
<1>1. Together(c, a, b)
  BY ConcatIs
<1> HIDE DEF c, m, n
<1>2. /\ DOMAIN a = 1..m /\ DOMAIN b = 1..n /\ m \in Nat /\ n \in Nat
      /\ \A k \in 1..m : k \in DOMAIN c /\ c[k] = a[k]
      /\ \A k \in 1..n : m + k \in DOMAIN c /\ c[m + k] = b[k]
      /\ \A i \in DOMAIN c : i \notin 1..m => \E k \in 1..n : i = m + k
  BY <1>1 DEF Together, m, n
<1>3. SpokenAt(c) = S \cup After(m, T)
  <2>1. ASSUME NEW i \in SpokenAt(c) PROVE i \in S \cup After(m, T)
    <3>1. i \in DOMAIN c /\ Speaks(c[i])
      BY DEF SpokenAt
    <3>2. CASE i \in 1..m
      <4>1. c[i] = a[i]
        BY <1>2, <3>2
      <4> QED BY <1>2, <3>1, <3>2, <4>1 DEF SpokenAt
    <3>3. CASE i \notin 1..m
      <4>1. PICK k \in 1..n : i = m + k
        BY <1>2, <3>1, <3>3
      <4>2. c[i] = b[k]
        BY <1>2, <4>1
      <4>3. k \in T
        BY <1>2, <3>1, <4>2 DEF SpokenAt
      <4> QED BY <4>1, <4>3 DEF After
    <3> QED BY <3>2, <3>3
  <2>2. ASSUME NEW i \in S PROVE i \in SpokenAt(c)
    <3>1. i \in 1..m /\ Speaks(a[i])
      BY <1>2 DEF SpokenAt
    <3>2. c[i] = a[i] /\ i \in DOMAIN c
      BY <1>2, <3>1
    <3> QED BY <3>1, <3>2 DEF SpokenAt
  <2>3. ASSUME NEW i \in After(m, T) PROVE i \in SpokenAt(c)
    <3>1. PICK k \in T : i = m + k
      BY DEF After
    <3>2. k \in 1..n /\ Speaks(b[k])
      BY <1>2 DEF SpokenAt
    <3>3. c[i] = b[k] /\ i \in DOMAIN c
      BY <1>2, <3>1, <3>2
    <3> QED BY <3>2, <3>3 DEF SpokenAt
  <2> QED BY <2>1, <2>2, <2>3
<1>4. \A x : Normalize(x) = Pick(x, SpokenAt(x))
  BY Zenon DEF Normalize, SpokenAt, Speaks
<1>5. S \in SUBSET (1..m) /\ T \in SUBSET (1..n)
  BY <1>2 DEF SpokenAt
<1>6. (\A k \in S : c[k] = a[k]) /\ (\A k \in T : c[m + k] = b[k])
  BY <1>2, <1>5
<1> HIDE DEF S, T
<1>7. Joined(Pick(c, S \cup After(m, T)), Pick(a, S), Pick(b, T))
  <2>1. m \in Nat /\ n \in Nat
    BY <1>2
  <2>2. ASSUME NEW k \in S PROVE c[k] = a[k]
    BY <1>6
  <2>3. ASSUME NEW k \in T PROVE c[m + k] = b[k]
    BY <1>6
  <2> QED BY <2>1, <2>2, <2>3, <1>5, PickTogether
<1> QED BY <1>3, <1>4, <1>7 DEF c, S, T, Joined

LEMMA NormalizeSpoken ==
  ASSUME NEW a, Spoken(a)
  PROVE  Normalize(a) = a
<1>1. Normalize(a) = Pick(a, SpokenAt(a))
  BY Zenon DEF Normalize, SpokenAt, Speaks
<1>2. SpokenAt(a) = DOMAIN a
  BY DEF Spoken, SpokenAt
<1>3. a \in Seq(MessageType)
  BY DEF Spoken
<1> QED BY <1>1, <1>2, <1>3, PickAll

(* The items without superseded outputs. *)
Dedupe(input) == Pick(input, Kept(input))

LEMMA DedupeSplits ==
  ASSUME NEW a \in Seq(ItemType), NEW b \in Seq(ItemType), Ids(a, "output") \cap Ids(b, "output") = {}
  PROVE  Dedupe(a \o b) = Dedupe(a) \o Dedupe(b)
<1> DEFINE c == a \o b
           m == Len(a)
           n == Len(b)
           S == Kept(a)
           T == Kept(b)
<1>1. Together(c, a, b)
  BY ConcatIs
<1> HIDE DEF c, m, n
<1>2. /\ DOMAIN a = 1..m /\ DOMAIN b = 1..n /\ m \in Nat /\ n \in Nat
      /\ \A k \in 1..m : k \in DOMAIN c /\ c[k] = a[k]
      /\ \A k \in 1..n : m + k \in DOMAIN c /\ c[m + k] = b[k]
      /\ \A i \in DOMAIN c : i \notin 1..m => \E k \in 1..n : i = m + k
  BY <1>1 DEF Together, m, n
<1>3. \A x, i : i \in Kept(x) <=>
        /\ i \in DOMAIN x
        /\ x[i].type = "output" =>
             \A j \in DOMAIN x : j > i => ~(x[j].type = "output" /\ x[j].id = x[i].id)
  BY DEF Kept, Positions
<1>4. \A i \in 1..m, j \in 1..n :
        ~(a[i].type = "output" /\ b[j].type = "output" /\ b[j].id = a[i].id)
  BY <1>2 DEF Ids, Positions
<1>5. Kept(c) = S \cup After(m, T)
  <2>1. ASSUME NEW i \in 1..m PROVE i \in Kept(c) <=> i \in S
    <3>1. c[i] = a[i] /\ i \in DOMAIN c /\ i \in DOMAIN a
      BY <1>2
    <3>2. ASSUME i \in Kept(c), a[i].type = "output", NEW j \in DOMAIN a, j > i
          PROVE  ~(a[j].type = "output" /\ a[j].id = a[i].id)
      <4>1. c[j] = a[j] /\ j \in DOMAIN c
        BY <1>2
      <4> QED BY <1>3, <3>1, <3>2, <4>1
    <3>3. ASSUME i \in S, c[i].type = "output", NEW j \in DOMAIN c, j > i
          PROVE  ~(c[j].type = "output" /\ c[j].id = c[i].id)
      <4>1. CASE j \in 1..m
        <5>1. c[j] = a[j] /\ j \in DOMAIN a
          BY <1>2, <4>1
        <5> QED BY <1>3, <3>1, <3>3, <5>1
      <4>2. CASE j \notin 1..m
        <5>1. PICK k \in 1..n : j = m + k
          BY <1>2, <4>2
        <5>2. c[j] = b[k]
          BY <1>2, <5>1
        <5> QED BY <1>4, <3>1, <3>3, <5>2
      <4> QED BY <4>1, <4>2
    <3>4. i \in Kept(c) => i \in S
      BY <1>3, <3>1, <3>2
    <3>5. i \in S => i \in Kept(c)
      BY <1>3, <3>1, <3>3
    <3> QED BY <3>4, <3>5
  <2>2. ASSUME NEW k \in 1..n PROVE m + k \in Kept(c) <=> k \in T
    <3> DEFINE i == m + k
    <3>1. c[i] = b[k] /\ i \in DOMAIN c /\ k \in DOMAIN b /\ i \notin 1..m
      BY <1>2
    <3>2. ASSUME i \in Kept(c), b[k].type = "output", NEW j \in DOMAIN b, j > k
          PROVE  ~(b[j].type = "output" /\ b[j].id = b[k].id)
      <4> DEFINE l == m + j
      <4>1. c[l] = b[j] /\ l \in DOMAIN c /\ l > i
        BY <1>2, <3>2
      <4> HIDE DEF l, i
      <4> QED BY <1>3, <3>1, <3>2, <4>1
    <3>3. ASSUME k \in T, c[i].type = "output", NEW j \in DOMAIN c, j > i
          PROVE  ~(c[j].type = "output" /\ c[j].id = c[i].id)
      <4>1. j \notin 1..m
        BY <1>2, <3>3
      <4>2. PICK l \in 1..n : j = m + l
        BY <1>2, <4>1
      <4>3. c[j] = b[l] /\ l \in DOMAIN b /\ l > k
        BY <1>2, <3>3, <4>2
      <4> HIDE DEF i
      <4> QED BY <1>3, <3>1, <3>3, <4>3
    <3> HIDE DEF i
    <3>4. i \in Kept(c) => k \in T
      BY <1>3, <3>1, <3>2
    <3>5. k \in T => i \in Kept(c)
      BY <1>3, <3>1, <3>3
    <3> QED BY <3>4, <3>5 DEF i
  <2>3. \A i \in Kept(c) : i \in DOMAIN c
    BY <1>3
  <2>4. (\A i \in S : i \in 1..m) /\ (\A i \in T : i \in 1..n)
    BY <1>2, <1>3
  <2>5. \A i \in After(m, T) : \E k \in T : i = m + k
    BY DEF After
  <2>6. \A k \in T : m + k \in After(m, T)
    BY DEF After
  <2>7. ASSUME NEW i \in Kept(c) PROVE i \in S \cup After(m, T)
    <3>1. CASE i \in 1..m
      BY <2>1, <3>1
    <3>2. CASE i \notin 1..m
      <4>1. PICK k \in 1..n : i = m + k
        BY <1>2, <2>3, <3>2
      <4> QED BY <2>2, <2>6, <4>1
    <3> QED BY <3>1, <3>2
  <2>8. ASSUME NEW i \in S PROVE i \in Kept(c)
    BY <2>1, <2>4
  <2>9. ASSUME NEW i \in After(m, T) PROVE i \in Kept(c)
    BY <2>2, <2>4, <2>5
  <2> QED BY <2>7, <2>8, <2>9
<1>6. S \in SUBSET (1..m) /\ T \in SUBSET (1..n)
  BY <1>2, <1>3
<1>7. (\A k \in S : c[k] = a[k]) /\ (\A k \in T : c[m + k] = b[k])
  BY <1>2, <1>6
<1> HIDE DEF S, T
<1>8. Joined(Pick(c, S \cup After(m, T)), Pick(a, S), Pick(b, T))
  <2>1. m \in Nat /\ n \in Nat
    BY <1>2
  <2>2. ASSUME NEW k \in S PROVE c[k] = a[k]
    BY <1>7
  <2>3. ASSUME NEW k \in T PROVE c[m + k] = b[k]
    BY <1>7
  <2> QED BY <2>1, <2>2, <2>3, <1>6, PickTogether
<1> QED BY <1>5, <1>8 DEF Dedupe, c, S, T, Joined

-----------------------------------------------------------------------------
(* Rows of calls *)

CallAt(input, i) == i \in Positions(input, "call")
RowAt(input, i) == {j \in i..Len(input) : \A k \in i..j : CallAt(input, k)}
MessageAt(input, i) ==
  IF CallAt(input, i)
  THEN ChatMessage("assistant", NoId, <<>>,
         [k \in 1..Cardinality(RowAt(input, i)) |-> Call(input[i + k - 1].id, input[i + k - 1].body)],
         \E k \in 1..Cardinality(RowAt(input, i)) : input[i + k - 1].thought)
  ELSE AsMessage(input[i])
FirstAt(input) == {i \in DOMAIN input : input[i].type # "other" /\ (CallAt(input, i) => ~ CallAt(input, i - 1))}

LEMMA GroupIs ==
  ASSUME NEW input
  PROVE  Group(input) = Pick([i \in DOMAIN input |-> MessageAt(input, i)], FirstAt(input))
  BY Zenon DEF Group, MessageAt, FirstAt, RowAt, CallAt

LEMMA RowBound ==
  ASSUME NEW input \in Seq(ItemType), NEW i \in 1..Len(input)
  PROVE  /\ IsFiniteSet(RowAt(input, i))
         /\ Cardinality(RowAt(input, i)) \in Nat
         /\ Cardinality(RowAt(input, i)) <= Len(input) - i + 1
<1> DEFINE row == RowAt(input, i)
           stop == Len(input)
<1>1. row \in SUBSET (i..stop)
  BY DEF RowAt
<1>2. i \in Int /\ stop \in Int /\ i <= stop
  BY LenProperties
<1> HIDE DEF row, stop
<1>3. IsFiniteSet(i..stop) /\ Cardinality(i..stop) = stop - i + 1
  BY <1>2, FS_Interval
<1>4. IsFiniteSet(row) /\ Cardinality(row) <= Cardinality(i..stop)
  BY <1>1, <1>3, FS_Subset
<1>5. Cardinality(row) \in Nat
  BY <1>4, FS_CardinalityType
<1> QED BY <1>3, <1>4, <1>5 DEF row, stop

(* Calls do not meet where two lists of items do. *)
Apart(a, b) == ~ CallAt(a, Len(a)) \/ ~ CallAt(b, 1)

LEMMA CallsSplit ==
  ASSUME NEW c, NEW a, NEW b, Together(c, a, b)
  PROVE  /\ \A i \in 0..Len(a) : CallAt(c, i) <=> CallAt(a, i)
         /\ \A i \in 1..Len(b) : CallAt(c, Len(a) + i) <=> CallAt(b, i)
         /\ ~ CallAt(a, 0) /\ ~ CallAt(b, 0)
<1> DEFINE m == Len(a)
           n == Len(b)
<1>1. /\ DOMAIN a = 1..m /\ DOMAIN b = 1..n /\ DOMAIN c = 1..(m + n) /\ m \in Nat /\ n \in Nat
      /\ \A k \in 1..m : k \in DOMAIN c /\ c[k] = a[k]
      /\ \A k \in 1..n : m + k \in DOMAIN c /\ c[m + k] = b[k]
  BY DEF Together
<1> HIDE DEF m, n
<1>2. \A x, i : CallAt(x, i) <=> i \in DOMAIN x /\ x[i].type = "call"
  BY DEF CallAt, Positions
<1>3. ASSUME NEW i \in 0..m PROVE CallAt(c, i) <=> CallAt(a, i)
  <2>1. CASE i = 0
    BY <1>1, <1>2, <2>1
  <2>2. CASE i \in 1..m
    BY <1>1, <1>2, <2>2
  <2> QED BY <2>1, <2>2
<1>4. ASSUME NEW i \in 1..n PROVE CallAt(c, m + i) <=> CallAt(b, i)
  <2> DEFINE j == m + i
  <2>1. j \in DOMAIN c /\ c[j] = b[i] /\ i \in DOMAIN b
    BY <1>1
  <2> HIDE DEF j
  <2>2. CallAt(c, j) <=> CallAt(b, i)
    BY <1>2, <2>1
  <2> QED BY <2>2 DEF j
<1>5. ~ CallAt(a, 0) /\ ~ CallAt(b, 0)
  BY <1>1, <1>2
<1> QED BY <1>3, <1>4, <1>5 DEF m, n

LEMMA RowsSplit ==
  ASSUME NEW a \in Seq(ItemType), NEW b \in Seq(ItemType), NEW c, Together(c, a, b), Apart(a, b)
  PROVE  /\ \A i \in 1..Len(a) : RowAt(c, i) = RowAt(a, i)
         /\ \A i \in 1..Len(b) : Cardinality(RowAt(c, Len(a) + i)) = Cardinality(RowAt(b, i))
<1> DEFINE m == Len(a)
           n == Len(b)
<1>1. m \in Nat /\ n \in Nat /\ Len(c) = m + n
  BY DEF Together
<1>2. /\ \A i \in 0..m : CallAt(c, i) <=> CallAt(a, i)
      /\ \A i \in 1..n : CallAt(c, m + i) <=> CallAt(b, i)
  BY CallsSplit
<1>3. ~ CallAt(a, m) \/ ~ CallAt(b, 1)
  BY DEF Apart
<1>13. Len(a) = m /\ Len(b) = n
  OBVIOUS
<1> HIDE DEF m, n
<1>4. ASSUME NEW i \in 1..m PROVE RowAt(c, i) = RowAt(a, i)
  <2>1. ASSUME NEW j \in RowAt(a, i) PROVE j \in RowAt(c, i)
    <3>1. j \in i..m /\ \A k \in i..j : CallAt(a, k)
      BY <1>13 DEF RowAt
    <3>2. j \in i..(m + n) /\ \A k \in i..j : CallAt(c, k)
      BY <1>1, <1>2, <3>1
    <3> QED BY <1>1, <3>2 DEF RowAt
  <2>2. ASSUME NEW j \in RowAt(c, i) PROVE j \in RowAt(a, i)
    <3>1. j \in i..(m + n) /\ \A k \in i..j : CallAt(c, k)
      BY <1>1 DEF RowAt
    <3>2. j <= m
      <4> SUFFICES ASSUME ~(j <= m) PROVE FALSE
        OBVIOUS
      <4>1. m \in i..j /\ m + 1 \in i..j /\ 1 \in 1..n /\ m \in 0..m
        BY <1>1, <3>1
      <4>2. CallAt(c, m) /\ CallAt(c, m + 1)
        BY <3>1, <4>1
      <4> QED BY <1>2, <1>3, <4>1, <4>2
    <3>3. j \in i..m /\ \A k \in i..j : CallAt(a, k)
      BY <1>1, <1>2, <3>1, <3>2
    <3> QED BY <1>13, <3>3 DEF RowAt
  <2> QED BY <2>1, <2>2
<1>5. ASSUME NEW i \in 1..n PROVE Cardinality(RowAt(c, m + i)) = Cardinality(RowAt(b, i))
  <2> DEFINE s == RowAt(b, i)
             t == RowAt(c, m + i)
             h == [j \in s |-> m + j]
  <2>1. \A j : j \in s <=> j \in i..n /\ \A k \in i..j : CallAt(b, k)
    BY <1>13 DEF RowAt
  <2>2. \A j : j \in t <=> j \in (m + i)..(m + n) /\ \A k \in (m + i)..j : CallAt(c, k)
    BY <1>1 DEF RowAt
  <2>3. IsFiniteSet(s)
    BY <1>13, RowBound
  <2> HIDE DEF s, t
  <2>4. ASSUME NEW j \in s PROVE m + j \in t
    <3>1. j \in i..n /\ \A k \in i..j : CallAt(b, k)
      BY <2>1
    <3>2. ASSUME NEW k \in (m + i)..(m + j) PROVE CallAt(c, k)
      <4>1. k - m \in i..j /\ k - m \in 1..n /\ m + (k - m) = k
        BY <1>1, <3>1
      <4>2. CallAt(c, m + (k - m))
        BY <1>2, <3>1, <4>1
      <4> QED BY <4>1, <4>2
    <3>3. m + j \in (m + i)..(m + n)
      BY <1>1, <3>1
    <3> QED BY <2>2, <3>2, <3>3
  <2>5. ASSUME NEW l \in t PROVE \E j \in s : m + j = l
    <3>1. l \in (m + i)..(m + n) /\ \A k \in (m + i)..l : CallAt(c, k)
      BY <2>2
    <3> DEFINE j == l - m
    <3>2. j \in i..n /\ m + j = l
      BY <1>1, <3>1
    <3> HIDE DEF j
    <3>3. ASSUME NEW k \in i..j PROVE CallAt(b, k)
      <4>1. m + k \in (m + i)..l /\ k \in 1..n
        BY <1>1, <3>2
      <4> QED BY <1>2, <3>1, <4>1
    <3>4. j \in s
      BY <2>1, <3>2, <3>3
    <3> QED BY <3>2, <3>4
  <2>6. \A j \in s : j \in Int
    BY <2>1
  <2>7. h \in [s -> t]
    BY <2>4
  <2>8. \A j, k \in s : h[j] = h[k] => j = k
    BY <1>1, <2>6
  <2>9. \A l \in t : \E j \in s : h[j] = l
    BY <2>5
  <2> HIDE DEF h
  <2>10. h \in Bijection(s, t)
    BY <2>7, <2>8, <2>9, Fun_IsBij
  <2>11. Cardinality(t) = Cardinality(s)
    BY <2>3, <2>10, FS_Bijection DEF ExistsBijection
  <2> QED BY <2>11 DEF s, t
<1> QED BY <1>4, <1>5 DEF m, n

LEMMA MessagesSplit ==
  ASSUME NEW a \in Seq(ItemType), NEW b \in Seq(ItemType), NEW c, Together(c, a, b), Apart(a, b)
  PROVE  /\ \A i \in 1..Len(a) : MessageAt(c, i) = MessageAt(a, i)
         /\ \A i \in 1..Len(b) : MessageAt(c, Len(a) + i) = MessageAt(b, i)
<1> DEFINE m == Len(a)
           n == Len(b)
           CallOf(x, i, k) == Call(x[i + k - 1].id, x[i + k - 1].body)
           Row(x, i) == [k \in 1..Cardinality(RowAt(x, i)) |-> CallOf(x, i, k)]
           Thought(x, i) == \E k \in 1..Cardinality(RowAt(x, i)) : x[i + k - 1].thought
<1>1. /\ m \in Nat /\ n \in Nat
      /\ \A k \in 1..m : c[k] = a[k]
      /\ \A k \in 1..n : c[m + k] = b[k]
  BY DEF Together
<1>2. /\ \A i \in 0..m : CallAt(c, i) <=> CallAt(a, i)
      /\ \A i \in 1..n : CallAt(c, m + i) <=> CallAt(b, i)
  BY CallsSplit
<1>3. /\ \A i \in 1..m : RowAt(c, i) = RowAt(a, i)
      /\ \A i \in 1..n : Cardinality(RowAt(c, m + i)) = Cardinality(RowAt(b, i))
  BY RowsSplit
<1>4. \A i \in 1..m : Cardinality(RowAt(a, i)) \in Nat /\ Cardinality(RowAt(a, i)) <= m - i + 1
  BY RowBound
<1>5. \A i \in 1..n : Cardinality(RowAt(b, i)) \in Nat /\ Cardinality(RowAt(b, i)) <= n - i + 1
  BY RowBound
<1>6. \A x, i : MessageAt(x, i) = IF CallAt(x, i)
                                  THEN ChatMessage("assistant", NoId, <<>>, Row(x, i), Thought(x, i))
                                  ELSE AsMessage(x[i])
  BY DEF MessageAt
<1> HIDE DEF m, n
<1>7. ASSUME NEW i \in 1..m PROVE MessageAt(c, i) = MessageAt(a, i)
  <2> DEFINE r == Cardinality(RowAt(a, i))
  <2>1. r \in Nat /\ r <= m - i + 1 /\ Cardinality(RowAt(c, i)) = r
    BY <1>3, <1>4
  <2>2. Row(c, i) = [k \in 1..r |-> CallOf(c, i, k)] /\ Row(a, i) = [k \in 1..r |-> CallOf(a, i, k)]
    BY <2>1
  <2>6. /\ Thought(c, i) = \E k \in 1..r : c[i + k - 1].thought
        /\ Thought(a, i) = \E k \in 1..r : a[i + k - 1].thought
    BY <2>1
  <2> HIDE DEF r, Row, Thought
  <2>7. \A k \in 1..r : c[i + k - 1] = a[i + k - 1]
    <3> SUFFICES ASSUME NEW k \in 1..r PROVE c[i + k - 1] = a[i + k - 1]
      OBVIOUS
    <3> DEFINE j == i + k - 1
    <3>1. j \in 1..m
      BY <1>1, <2>1
    <3> HIDE DEF j
    <3>2. c[j] = a[j]
      BY <1>1, <3>1
    <3> QED BY <3>2 DEF j
  <2>3. \A k \in 1..r : CallOf(c, i, k) = CallOf(a, i, k)
    BY <2>7, Zenon
  <2>4. Row(c, i) = Row(a, i)
    BY <2>2, <2>3
  <2>8. Thought(c, i) = Thought(a, i)
    BY <2>6, <2>7, Zenon
  <2>5. c[i] = a[i] /\ (CallAt(c, i) <=> CallAt(a, i))
    BY <1>1, <1>2
  <2> QED BY <1>6, <2>4, <2>5, <2>8
<1>8. ASSUME NEW i \in 1..n PROVE MessageAt(c, m + i) = MessageAt(b, i)
  <2> DEFINE r == Cardinality(RowAt(b, i))
             l == m + i
  <2>1. r \in Nat /\ r <= n - i + 1 /\ Cardinality(RowAt(c, l)) = r
    BY <1>3, <1>5
  <2>2. Row(c, l) = [k \in 1..r |-> CallOf(c, l, k)] /\ Row(b, i) = [k \in 1..r |-> CallOf(b, i, k)]
    BY <2>1
  <2>5. c[l] = b[i] /\ (CallAt(c, l) <=> CallAt(b, i))
    BY <1>1, <1>2
  <2>7. /\ Thought(c, l) = \E k \in 1..r : c[l + k - 1].thought
        /\ Thought(b, i) = \E k \in 1..r : b[i + k - 1].thought
    BY <2>1
  <2> HIDE DEF r, Row, Thought
  <2>8. \A k \in 1..r : c[l + k - 1] = b[i + k - 1]
    <3> SUFFICES ASSUME NEW k \in 1..r PROVE c[l + k - 1] = b[i + k - 1]
      OBVIOUS
    <3> DEFINE j == i + k - 1
    <3>1. j \in 1..n /\ l + k - 1 = m + j
      BY <1>1, <2>1
    <3> HIDE DEF j, l
    <3>2. c[l + k - 1] = b[j]
      BY <1>1, <3>1
    <3> QED BY <3>2 DEF j
  <2>3. \A k \in 1..r : CallOf(c, l, k) = CallOf(b, i, k)
    BY <2>8, Zenon
  <2>4. Row(c, l) = Row(b, i)
    BY <2>2, <2>3
  <2>9. Thought(c, l) = Thought(b, i)
    BY <2>7, <2>8, Zenon
  <2> HIDE DEF l
  <2>6. MessageAt(c, l) = MessageAt(b, i)
    BY <1>6, <2>4, <2>5, <2>9
  <2> QED BY <2>6 DEF l
<1> QED BY <1>7, <1>8 DEF m, n

LEMMA GroupSplits ==
  ASSUME NEW a \in Seq(ItemType), NEW b \in Seq(ItemType), Apart(a, b)
  PROVE  Group(a \o b) = Group(a) \o Group(b)
<1> DEFINE c == a \o b
           m == Len(a)
           n == Len(b)
           S == FirstAt(a)
           T == FirstAt(b)
           All(x) == [i \in DOMAIN x |-> MessageAt(x, i)]
<1>1. Together(c, a, b)
  BY ConcatIs
<1> HIDE DEF c, m, n
<1>2. /\ DOMAIN a = 1..m /\ DOMAIN b = 1..n /\ m \in Nat /\ n \in Nat
      /\ \A k \in 1..m : k \in DOMAIN c /\ c[k] = a[k]
      /\ \A k \in 1..n : m + k \in DOMAIN c /\ c[m + k] = b[k]
      /\ \A i \in DOMAIN c : i \notin 1..m => \E k \in 1..n : i = m + k
  BY <1>1 DEF Together, m, n
<1>3. /\ \A i \in 0..m : CallAt(c, i) <=> CallAt(a, i)
      /\ \A i \in 1..n : CallAt(c, m + i) <=> CallAt(b, i)
      /\ ~ CallAt(b, 0)
  BY <1>1, CallsSplit DEF m, n
<1>4. ~ CallAt(a, m) \/ ~ CallAt(b, 1)
  BY DEF Apart, m
<1>5. /\ \A i \in 1..m : MessageAt(c, i) = MessageAt(a, i)
      /\ \A i \in 1..n : MessageAt(c, m + i) = MessageAt(b, i)
  BY <1>1, MessagesSplit DEF m, n
<1>6. \A x, i : i \in FirstAt(x) <=>
                   i \in DOMAIN x /\ x[i].type # "other" /\ (CallAt(x, i) => ~ CallAt(x, i - 1))
  BY DEF FirstAt
<1>7. FirstAt(c) = S \cup After(m, T)
  <2>1. ASSUME NEW i \in 1..m PROVE i \in FirstAt(c) <=> i \in S
    <3>1. i \in 0..m /\ i - 1 \in 0..m /\ i \in DOMAIN c /\ i \in DOMAIN a /\ c[i] = a[i]
      BY <1>2
    <3>2. (CallAt(c, i) <=> CallAt(a, i)) /\ (CallAt(c, i - 1) <=> CallAt(a, i - 1))
      BY <1>3, <3>1
    <3> QED BY <1>6, <3>1, <3>2
  <2>2. ASSUME NEW k \in 1..n PROVE m + k \in FirstAt(c) <=> k \in T
    <3> DEFINE i == m + k
    <3>1. i \in DOMAIN c /\ k \in DOMAIN b /\ c[i] = b[k] /\ (CallAt(c, i) <=> CallAt(b, k))
      BY <1>2, <1>3
    <3>2. CASE k = 1
      <4>1. i - 1 = m /\ m \in 0..m /\ k - 1 = 0
        BY <1>2, <3>2
      <4> HIDE DEF i
      <4>2. CallAt(c, i) => ~ CallAt(c, i - 1)
        BY <1>3, <1>4, <3>1, <3>2, <4>1
      <4>3. i \in FirstAt(c) <=> k \in T
        BY <1>3, <1>6, <3>1, <4>1, <4>2
      <4> QED BY <4>3 DEF i
    <3>3. CASE k # 1
      <4>1. i - 1 = m + (k - 1) /\ k - 1 \in 1..n
        BY <1>2, <3>3
      <4> HIDE DEF i
      <4>2. CallAt(c, i - 1) <=> CallAt(b, k - 1)
        BY <1>3, <4>1
      <4>3. i \in FirstAt(c) <=> k \in T
        BY <1>6, <3>1, <4>2
      <4> QED BY <4>3 DEF i
    <3> QED BY <3>2, <3>3
  <2>3. \A i \in FirstAt(c) : i \in DOMAIN c
    BY <1>6
  <2>4. (\A i \in S : i \in 1..m) /\ (\A i \in T : i \in 1..n)
    BY <1>2, <1>6
  <2>5. \A i \in After(m, T) : \E k \in T : i = m + k
    BY DEF After
  <2>6. \A k \in T : m + k \in After(m, T)
    BY DEF After
  <2>7. ASSUME NEW i \in FirstAt(c) PROVE i \in S \cup After(m, T)
    <3>1. CASE i \in 1..m
      BY <2>1, <3>1
    <3>2. CASE i \notin 1..m
      <4>1. PICK k \in 1..n : i = m + k
        BY <1>2, <2>3, <3>2
      <4> QED BY <2>2, <2>6, <4>1
    <3> QED BY <3>1, <3>2
  <2>8. ASSUME NEW i \in S PROVE i \in FirstAt(c)
    BY <2>1, <2>4
  <2>9. ASSUME NEW i \in After(m, T) PROVE i \in FirstAt(c)
    BY <2>2, <2>4, <2>5
  <2> QED BY <2>7, <2>8, <2>9
<1> DEFINE x == All(a)
           y == All(b)
           z == All(c)
<1>8. S \in SUBSET (1..m) /\ T \in SUBSET (1..n)
  BY <1>2, <1>6
<1>9. ASSUME NEW k \in S PROVE z[k] = x[k]
  BY <1>2, <1>5, <1>8
<1>10. ASSUME NEW k \in T PROVE z[m + k] = y[k]
  BY <1>2, <1>5, <1>8
<1>11. Group(a) = Pick(x, S) /\ Group(b) = Pick(y, T) /\ Group(c) = Pick(z, FirstAt(c))
  BY GroupIs
<1>12. m \in Nat /\ n \in Nat
  BY <1>2
<1> HIDE DEF x, y, z, S, T
<1>13. Joined(Pick(z, S \cup After(m, T)), Pick(x, S), Pick(y, T))
  BY <1>8, <1>9, <1>10, <1>12, PickTogether
<1> QED BY <1>7, <1>11, <1>13 DEF c, Joined

LEMMA PickFew ==
  ASSUME NEW seq
  PROVE  /\ Pick(seq, {}) = <<>>
         /\ Pick(seq, {1}) = <<seq[1]>>
<1>1. Pick(seq, {}) = <<>>
  <2>1. Cardinality({}) = 0
    BY FS_EmptySet
  <2> QED BY <2>1 DEF Pick
<1>2. Pick(seq, {1}) = <<seq[1]>>
  <2> DEFINE e == [k \in 1..1 |-> 1]
             S == {1}
             m == 1
  <2>1. Lists(e, m, S)
    BY DEF Lists
  <2>2. m \in Nat
    OBVIOUS
  <2>3. ASSUME NEW p \in S PROVE p \in Nat
    OBVIOUS
  <2>4. e[1] = 1
    OBVIOUS
  <2> HIDE DEF e, S, m
  <2>5. Listed(Pick(seq, S), seq, e, m)
    BY <2>1, <2>2, <2>3, ListedBy
  <2>6. Pick(seq, S) = [k \in 1..m |-> seq[e[k]]]
    BY <2>5 DEF Listed
  <2>7. Pick(seq, S) = [k \in 1..1 |-> seq[1]]
    BY <2>4, <2>6 DEF m
  <2>8. [k \in 1..1 |-> seq[1]] = <<seq[1]>>
    OBVIOUS
  <2> QED BY <2>7, <2>8 DEF S
<1> QED BY <1>1, <1>2

LEMMA NormalizeFew ==
  /\ Normalize(<<>>) = <<>>
  /\ \A m : ~ Speaks(m) => Normalize(<<m>>) = <<>>
<1>1. \A x : Normalize(x) = Pick(x, SpokenAt(x))
  BY Zenon DEF Normalize, SpokenAt, Speaks
<1>2. SpokenAt(<<>>) = {}
  BY DEF SpokenAt
<1>3. ASSUME NEW m, ~ Speaks(m) PROVE Normalize(<<m>>) = <<>>
  <2> DEFINE x == <<m>>
  <2>1. DOMAIN x = {1} /\ x[1] = m
    OBVIOUS
  <2> HIDE DEF x
  <2>2. SpokenAt(x) = {}
    BY <1>3, <2>1 DEF SpokenAt
  <2>3. Normalize(x) = <<>>
    BY <1>1, <2>2, PickFew
  <2> QED BY <2>3 DEF x
<1>4. Normalize(<<>>) = <<>>
  BY <1>1, <1>2, PickFew
<1> QED BY <1>3, <1>4

LEMMA GroupFew ==
  /\ Group(<<>>) = <<>>
  /\ \A x : x.type \notin {"call", "other"} => Group(<<x>>) = <<AsMessage(x)>>
<1>1. FirstAt(<<>>) = {}
  BY DEF FirstAt
<1>2. Group(<<>>) = <<>>
  <2>1. Group(<<>>) = Pick([i \in DOMAIN <<>> |-> MessageAt(<<>>, i)], {})
    BY <1>1, GroupIs
  <2> QED BY <2>1, PickFew
<1>3. ASSUME NEW x, x.type \notin {"call", "other"} PROVE Group(<<x>>) = <<AsMessage(x)>>
  <2> DEFINE input == <<x>>
             all == [i \in DOMAIN input |-> MessageAt(input, i)]
  <2>1. DOMAIN input = {1} /\ input[1] = x
    OBVIOUS
  <2>2. Group(input) = Pick(all, FirstAt(input))
    BY GroupIs
  <2> HIDE DEF input
  <2>3. \A i : ~ CallAt(input, i)
    BY <1>3, <2>1 DEF CallAt, Positions
  <2>4. FirstAt(input) = {1}
    BY <1>3, <2>1, <2>3 DEF FirstAt
  <2>5. all[1] = AsMessage(x)
    BY <2>1, <2>3 DEF MessageAt
  <2> HIDE DEF all
  <2>6. Group(input) = <<AsMessage(x)>>
    BY <2>2, <2>4, <2>5, PickFew
  <2> QED BY <2>6 DEF input
<1> QED BY <1>2, <1>3

(* Calls in a row are one message. *)
LEMMA GroupCalls ==
  ASSUME NEW n \in Nat \ {0}, NEW input, DOMAIN input = 1..n, Len(input) = n,
         \A i \in 1..n : input[i].type = "call"
  PROVE  Group(input) = <<ChatMessage("assistant", NoId, <<>>,
                            [k \in 1..n |-> Call(input[k].id, input[k].body)],
                            \E k \in 1..n : input[k].thought)>>
<1> DEFINE all == [i \in DOMAIN input |-> MessageAt(input, i)]
           calls == [k \in 1..n |-> Call(input[k].id, input[k].body)]
           thought == \E k \in 1..n : input[k].thought
<1>1. Group(input) = Pick(all, FirstAt(input))
  BY GroupIs
<1>2. \A i : CallAt(input, i) <=> i \in 1..n
  BY DEF CallAt, Positions
<1>3. FirstAt(input) = {1}
  <2>1. ASSUME NEW i \in FirstAt(input) PROVE i = 1
    <3>1. i \in 1..n /\ i - 1 \notin 1..n
      BY <1>2 DEF FirstAt
    <3> QED BY <3>1
  <2>2. 1 \in 1..n /\ 1 - 1 \notin 1..n
    OBVIOUS
  <2>3. 1 \in FirstAt(input)
    BY <1>2, <2>2 DEF FirstAt
  <2> QED BY <2>1, <2>3
<1>4. RowAt(input, 1) = 1..n
  BY <1>2 DEF RowAt
<1>5. Cardinality(1..n) = n
  BY FS_Interval
<1>6. MessageAt(input, 1)
        = ChatMessage("assistant", NoId, <<>>,
            [k \in 1..n |-> Call(input[1 + k - 1].id, input[1 + k - 1].body)],
            \E k \in 1..n : input[1 + k - 1].thought)
  <2>1. 1 \in 1..n
    OBVIOUS
  <2> QED BY <1>2, <1>4, <1>5, <2>1, Zenon DEF MessageAt
<1>7. \A k \in 1..n : 1 + k - 1 = k
  OBVIOUS
<1>8. [k \in 1..n |-> Call(input[1 + k - 1].id, input[1 + k - 1].body)] = calls
  BY <1>7
<1>11. (\E k \in 1..n : input[1 + k - 1].thought) = thought
  BY <1>7
<1>12. all[1] = MessageAt(input, 1)
  OBVIOUS
<1> HIDE DEF all, calls, thought
<1>9. all[1] = ChatMessage("assistant", NoId, <<>>, calls, thought)
  BY <1>6, <1>8, <1>11, <1>12, Zenon
<1>10. Group(input) = <<ChatMessage("assistant", NoId, <<>>, calls, thought)>>
  BY <1>1, <1>3, <1>9, PickFew
<1> QED BY <1>10 DEF calls, thought

-----------------------------------------------------------------------------
(* Items without superseded outputs *)

LEMMA DedupeType ==
  ASSUME NEW input \in Seq(ItemType)
  PROVE  /\ Dedupe(input) \in Seq(ItemType)
         /\ \A k \in DOMAIN Dedupe(input) : \E i \in DOMAIN input : Dedupe(input)[k] = input[i]
<1> DEFINE kept == Kept(input)
<1>1. kept \in SUBSET DOMAIN input
  BY DEF Kept
<1> HIDE DEF kept
<1>2. /\ Pick(input, kept) \in Seq(ItemType)
      /\ \A k \in DOMAIN Pick(input, kept) : \E i \in kept : Pick(input, kept)[k] = input[i]
  BY <1>1, PickType
<1> QED BY <1>1, <1>2 DEF Dedupe, kept

LEMMA DedupeRepairs ==
  ASSUME NEW input \in Seq(ItemType), Ids(input, "call") \subseteq Ids(input, "output")
  PROVE  Repair(input) = Dedupe(input)
<1> DEFINE missing == Pick(input, Orphans(input))
<1>1. Repair(input) = Dedupe(input) \o [k \in DOMAIN missing |-> Item("output", missing[k].id, <<0>>, FALSE)]
  BY Zenon DEF Repair, Kept, Orphans, Dedupe
<1>2. Orphans(input) = {}
  BY DEF Orphans, Ids
<1>3. missing = <<>>
  BY <1>2, PickFew
<1>4. [k \in DOMAIN missing |-> Item("output", missing[k].id, <<0>>, FALSE)] = <<>>
  BY <1>3
<1>5. Dedupe(input) \in Seq(ItemType)
  BY DedupeType
<1>6. Dedupe(input) \o <<>> = Dedupe(input)
  BY <1>5
<1> QED BY <1>1, <1>4, <1>6

(* The last item stays. *)
LEMMA DedupeEnds ==
  ASSUME NEW input \in Seq(ItemType), input # <<>>
  PROVE  Dedupe(input) # <<>> /\ Dedupe(input)[Len(Dedupe(input))] = input[Len(input)]
<1> DEFINE n == Len(input)
           kept == Kept(input)
           result == Dedupe(input)
<1>1. DOMAIN input = 1..n /\ n \in Nat /\ n # 0
  BY LenProperties
<1> HIDE DEF n
<1>2. n \in kept /\ kept \in SUBSET DOMAIN input /\ \A i \in kept : i <= n
  BY <1>1 DEF Kept, Positions
<1> HIDE DEF kept
<1>3. IsFiniteSet(kept)
  BY <1>2, PositionsFinite
<1>4. ASSUME NEW p \in kept PROVE p \in Nat
  BY <1>1, <1>2
<1>5. PICK m \in Nat : \E e : Lists(e, m, kept) /\ Listed(Pick(input, kept), input, e, m)
  BY <1>3, <1>4, PickListed
<1>6. PICK e : Lists(e, m, kept) /\ Listed(Pick(input, kept), input, e, m)
  BY <1>5
<1>7. result = [k \in 1..m |-> input[e[k]]]
  BY <1>6 DEF Listed, Dedupe, kept
<1>8. /\ \A i \in kept : \E k \in 1..m : e[k] = i
      /\ \A k \in 1..m : e[k] \in kept
      /\ \A a, b \in 1..m : a < b => e[a] < e[b]
  BY <1>6 DEF Lists
<1>9. PICK k \in 1..m : e[k] = n
  BY <1>2, <1>8
<1>10. k = m
  <2>1. ASSUME k < m PROVE FALSE
    <3>1. m \in 1..m /\ e[k] < e[m] /\ e[m] \in kept
      BY <1>8, <2>1
    <3>2. e[m] <= n /\ e[m] \in Nat
      BY <1>2, <1>4, <3>1
    <3> QED BY <1>1, <1>9, <3>1, <3>2
  <2> QED BY <2>1
<1>11. Len(result) = m /\ m \in 1..m /\ result[m] = input[n]
  BY <1>7, <1>9, <1>10
<1> HIDE DEF result
<1>12. result # <<>>
  BY <1>11
<1> QED BY <1>11, <1>12 DEF result, n

LEMMA DedupeTypes ==
  ASSUME NEW input \in Seq(ItemType), NEW type, Positions(input, type) = {}
  PROVE  Positions(Dedupe(input), type) = {}
  BY DedupeType DEF Positions

(* Where there is no output nothing is superseded. *)
LEMMA DedupeAll ==
  ASSUME NEW input \in Seq(ItemType), Positions(input, "output") = {}
  PROVE  Dedupe(input) = input
<1>1. Kept(input) = DOMAIN input
  BY DEF Kept, Positions
<1> QED BY <1>1, PickAll DEF Dedupe

LEMMA QuietAppend ==
  ASSUME NEW seq \in Seq(ItemType), NEW x \in ItemType, Quiet(seq), x.type = "message" => ~ x.thought
  PROVE  Quiet(Append(seq, x))
<1> DEFINE n == Len(seq)
           y == Append(seq, x)
<1>1. n \in Nat /\ DOMAIN seq = 1..n /\ DOMAIN y = 1..(n + 1) /\ y[n + 1] = x /\ \A i \in 1..n : y[i] = seq[i]
  BY LenProperties, AppendProperties
<1> HIDE DEF n, y
<1>2. ASSUME NEW i \in DOMAIN y, y[i].type = "message" PROVE ~ y[i].thought
  <2>1. CASE i \in 1..n
    BY <1>1, <1>2, <2>1 DEF Quiet, Positions
  <2>2. CASE i \notin 1..n
    <3>1. i = n + 1
      BY <1>1, <2>2
    <3> QED BY <1>1, <1>2, <3>1
  <2> QED BY <2>1, <2>2
<1>3. Quiet(y)
  BY <1>2 DEF Quiet, Positions
<1> QED BY <1>3 DEF y

LEMMA QuietTogether ==
  ASSUME NEW a \in Seq(ItemType), NEW b \in Seq(ItemType), Quiet(a), Quiet(b)
  PROVE  Quiet(a \o b)
<1> DEFINE c == a \o b
<1>1. Together(c, a, b)
  BY ConcatIs
<1> HIDE DEF c
<1>2. ASSUME NEW i \in DOMAIN c, c[i].type = "message" PROVE ~ c[i].thought
  <2>1. CASE i \in DOMAIN a
    <3>1. c[i] = a[i]
      BY <1>1, <2>1 DEF Together
    <3> QED BY <1>2, <2>1, <3>1 DEF Quiet, Positions
  <2>2. CASE i \notin DOMAIN a
    <3>1. PICK k \in DOMAIN b : i = Len(a) + k
      BY <1>1, <2>2 DEF Together
    <3>2. c[i] = b[k]
      BY <1>1, <3>1 DEF Together
    <3> QED BY <1>2, <3>1, <3>2 DEF Quiet, Positions
  <2> QED BY <2>1, <2>2
<1>3. Quiet(c)
  BY <1>2 DEF Quiet, Positions
<1> QED BY <1>3 DEF c

(* Of quiet items _input_to_messages loses nothing. *)
LEMMA QuietUnthought ==
  ASSUME NEW input \in Seq(ItemType), Quiet(input)
  PROVE  Unthought(Dedupe(input)) = Dedupe(input)
<1> DEFINE d == Dedupe(input)
<1>1. d \in Seq(ItemType) /\ \A k \in DOMAIN d : \E i \in DOMAIN input : d[k] = input[i]
  BY DedupeType
<1> HIDE DEF d
<1>2. ASSUME NEW k \in DOMAIN d, d[k].type = "message" PROVE [d[k] EXCEPT !.thought = FALSE] = d[k]
  <2>1. PICK i \in DOMAIN input : d[k] = input[i]
    BY <1>1
  <2>2. ~ d[k].thought
    BY <1>2, <2>1 DEF Quiet, Positions
  <2>3. d[k] \in ItemType
    BY <1>1
  <2> DEFINE x == d[k]
  <2>4. x \in ItemType /\ ~ x.thought
    BY <2>2, <2>3
  <2> HIDE DEF x
  <2>5. x.thought = FALSE
    BY <2>4 DEF ItemType
  <2>6. [x EXCEPT !.thought = FALSE] = x
    BY <2>4, <2>5 DEF ItemType
  <2> QED BY <2>6 DEF x
<1>3. Unthought(d) = [k \in DOMAIN d |-> d[k]]
  BY <1>2 DEF Unthought
<1>4. [k \in DOMAIN d |-> d[k]] = d
  BY <1>1
<1> QED BY <1>3, <1>4 DEF d

LEMMA CharsGrow ==
  ASSUME NEW a \in Seq(MessageType), NEW b \in Seq(MessageType)
  PROVE  /\ Chars(a) <= Chars(a \o b)
         /\ Chars(a) \in Nat /\ Chars(a \o b) \in Nat
<1> DEFINE c == a \o b
           S == DOMAIN a
           T == DOMAIN c
           x == Sizes(a)
           y == Sizes(c)
           h == [i \in S |-> i]
<1>1. Together(c, a, b) /\ c \in Seq(MessageType)
  BY ConcatIs
<1>2. (\A i \in S : x[i] = Size(a[i]) /\ x[i] \in Nat) /\ (\A i \in T : y[i] = Size(c[i]) /\ y[i] \in Nat)
  BY <1>1, SizesType
<1>3. S \in SUBSET T /\ \A i \in S : c[i] = a[i]
  BY <1>1 DEF Together
<1>4. IsFiniteSet(T) /\ IsFiniteSet(S)
  <2>1. S = 1..Len(a) /\ T = 1..Len(c) /\ Len(a) \in Nat /\ Len(c) \in Nat
    BY <1>1, LenProperties
  <2>2. IsFiniteSet(1..Len(a)) /\ IsFiniteSet(1..Len(c))
    <3> DEFINE m == Len(a)
               n == Len(c)
    <3>1. m \in Nat /\ n \in Nat
      BY <2>1
    <3> HIDE DEF m, n
    <3>2. IsFiniteSet(1..m) /\ IsFiniteSet(1..n)
      BY <3>1, FS_Interval
    <3> QED BY <3>2 DEF m, n
  <2> QED BY <2>1, <2>2
<1>5. \A i \in S : x[i] \in Nat /\ y[h[i]] = x[i]
  BY <1>2, <1>3
<1>6. h \in Bijection(S, S)
  BY Fun_IsBij
<1>7. Chars(a) = SumAt(x, S) /\ Chars(c) = SumAt(y, T)
  BY DEF Chars
<1> HIDE DEF S, T, x, y, h, c
<1>8. SumAt(x, S) = SumAt(y, S)
  BY <1>4, <1>5, <1>6, SumMoved
<1>9. SumAt(y, S) <= SumAt(y, T)
  BY <1>2, <1>3, <1>4, SumGrows
<1>10. SumAt(x, S) \in Nat
  BY <1>2, <1>4, SumAsPairs
<1>11. SumAt(y, T) \in Nat
  BY <1>2, <1>4, SumAsPairs
<1> QED BY <1>7, <1>8, <1>9, <1>10, <1>11 DEF c

-----------------------------------------------------------------------------
(* What some items make *)

Prompt(input) == <<Instructions(TRUE)>> \o Normalize(Group(Dedupe(input)))
Brief(input) == Chars(Prompt(input)) <= MaxChars

LEMMA SystemType ==
  ASSUME NEW first \in BOOLEAN
  PROVE  Spoken(<<Instructions(first)>>)
<1>1. Instructions(first) \in MessageType /\ Speaks(Instructions(first))
  BY DEF Instructions, ChatMessage, MessageType, Speaks, NoId, IdType
<1> DEFINE m == Instructions(first)
<1> HIDE DEF m
<1>2. <<m>> \in Seq(MessageType) /\ \A k \in DOMAIN <<m>> : Speaks(<<m>>[k])
  BY <1>1 DEF m
<1> QED BY <1>2 DEF m, Spoken

LEMMA MessagesOf ==
  ASSUME NEW input \in Seq(ItemType)
  PROVE  Spoken(Normalize(Group(input)))
<1>1. Group(input) \in Seq(MessageType)
  BY GroupType
<1> QED BY <1>1, NormalizeType DEF Spoken

LEMMA PromptType ==
  ASSUME NEW input \in Seq(ItemType)
  PROVE  /\ Spoken(Prompt(input))
         /\ 1 \in DOMAIN Prompt(input) /\ Prompt(input)[1] = Instructions(TRUE)
<1> DEFINE a == <<Instructions(TRUE)>>
           b == Normalize(Group(Dedupe(input)))
<1>1. Spoken(a)
  BY SystemType
<1>2. Spoken(b)
  BY DedupeType, MessagesOf
<1>3. Len(a) = 1 /\ DOMAIN a = 1..1 /\ a[1] = Instructions(TRUE)
  OBVIOUS
<1>6. Prompt(input) = a \o b
  BY DEF Prompt
<1> HIDE DEF a, b
<1>4. a \in Seq(MessageType) /\ b \in Seq(MessageType)
  BY <1>1, <1>2 DEF Spoken
<1>5. Spoken(a \o b)
  BY <1>1, <1>2, SpeakTogether DEF Spoken
<1> DEFINE c == a \o b
<1>7. Together(c, a, b)
  BY <1>4, ConcatIs
<1> HIDE DEF c
<1>8. 1 \in DOMAIN c /\ c[1] = a[1]
  <2>1. 1 \in DOMAIN a
    BY <1>3
  <2> QED BY <1>7, <2>1 DEF Together
<1>9. Prompt(input) = c
  BY <1>6 DEF c
<1> QED BY <1>3, <1>5, <1>8, <1>9 DEF c

LEMMA PromptSplits ==
  ASSUME NEW a \in Seq(ItemType), NEW b \in Seq(ItemType),
         Ids(a, "output") \cap Ids(b, "output") = {}, Apart(Dedupe(a), Dedupe(b))
  PROVE  /\ Prompt(a \o b) = Prompt(a) \o Normalize(Group(Dedupe(b)))
         /\ Brief(a \o b) => Brief(a)
<1> DEFINE s == <<Instructions(TRUE)>>
           x == Normalize(Group(Dedupe(a)))
           y == Normalize(Group(Dedupe(b)))
<1>1. Dedupe(a) \in Seq(ItemType) /\ Dedupe(b) \in Seq(ItemType)
  BY DedupeType
<1>2. Group(Dedupe(a)) \in Seq(MessageType) /\ Group(Dedupe(b)) \in Seq(MessageType)
  BY <1>1, GroupType
<1>3. Dedupe(a \o b) = Dedupe(a) \o Dedupe(b)
  BY DedupeSplits
<1>4. Group(Dedupe(a) \o Dedupe(b)) = Group(Dedupe(a)) \o Group(Dedupe(b))
  BY <1>1, GroupSplits
<1>5. Normalize(Group(Dedupe(a)) \o Group(Dedupe(b))) = x \o y
  BY <1>2, NormalizeSplits
<1>6. Prompt(a \o b) = s \o (x \o y)
  BY <1>3, <1>4, <1>5 DEF Prompt
<1>7. Prompt(a) = s \o x
  BY DEF Prompt
<1>8. s \in Seq(MessageType)
  BY SystemType DEF Spoken
<1>9. x \in Seq(MessageType) /\ y \in Seq(MessageType)
  BY <1>1, MessagesOf DEF Spoken
<1> HIDE DEF s, x, y
<1>10. s \o (x \o y) = (s \o x) \o y
  BY <1>8, <1>9
<1>11. s \o x \in Seq(MessageType)
  BY <1>8, <1>9
<1>12. Prompt(a \o b) = Prompt(a) \o y
  BY <1>6, <1>7, <1>10
<1> DEFINE p == Prompt(a)
           q == Prompt(a \o b)
<1>13. p \in Seq(MessageType) /\ q = p \o y
  BY <1>7, <1>11, <1>12
<1> HIDE DEF p, q
<1>14. Chars(p) <= Chars(q) /\ Chars(p) \in Nat /\ Chars(q) \in Nat
  BY <1>9, <1>13, CharsGrow
<1>15. Brief(a \o b) => Brief(a)
  BY <1>14, BoundsAssumption DEF Brief, p, q
<1> QED BY <1>12, <1>15 DEF y

(* A request with all items, and one with a history that is what the items  *)
(* before make.                                                             *)
LEMMA RequestOfAll ==
  ASSUME NEW input \in Seq(ItemType), Quiet(input), Ids(input, "call") \subseteq Ids(input, "output")
  PROVE  Request(<<>>, input, TRUE) = Prompt(input)
<1> DEFINE before == Normalize(<<>>)
           system == Instructions(TRUE)
           new == Normalize(Group(Unthought(Repair(input))))
<1>1. before = <<>>
  BY NormalizeFew
<1>2. Request(<<>>, input, TRUE)
        = before \o (IF \E i \in DOMAIN before : before[i] = system THEN <<>> ELSE <<system>>) \o new
  BY DEF Request, InputToMessages
<1>3. ~ \E i \in DOMAIN before : before[i] = system
  <2> HIDE DEF before, system
  <2> QED BY <1>1
<1>4. Repair(input) = Dedupe(input)
  BY DedupeRepairs
<1>5. Prompt(input) = <<system>> \o new
  BY <1>4, QuietUnthought DEF Prompt
<1>6. <<system>> \in Seq(MessageType)
  BY SystemType DEF Spoken
<1> HIDE DEF before, system, new
<1>7. <<>> \o <<system>> = <<system>>
  BY <1>6
<1> QED BY <1>1, <1>2, <1>3, <1>5, <1>7

LEMMA RequestOfNew ==
  ASSUME PerModel = FALSE, NEW first \in BOOLEAN, NEW history,
         NEW past \in Seq(ItemType), NEW new \in Seq(ItemType),
         Normalize(history) = Prompt(past), Positions(new, "call") = {}, Quiet(new),
         Ids(past, "output") \cap Ids(new, "output") = {}
  PROVE  Request(history, new, first) = Prompt(past \o new)
<1> DEFINE system == Instructions(first)
           before == Prompt(past)
           added == Normalize(Group(Unthought(Repair(new))))
<1>1. system = Instructions(TRUE)
  BY DEF Instructions
<1>2. Request(history, new, first)
        = before \o (IF \E i \in DOMAIN before : before[i] = system THEN <<>> ELSE <<system>>) \o added
  BY DEF Request, InputToMessages
<1>3. 1 \in DOMAIN before /\ before[1] = system /\ before \in Seq(MessageType)
  BY <1>1, PromptType DEF Spoken
<1>4. Repair(new) = Dedupe(new)
  <2>1. Ids(new, "call") \subseteq Ids(new, "output")
    BY DEF Ids
  <2> QED BY <2>1, DedupeRepairs
<1>5. Apart(Dedupe(past), Dedupe(new))
  <2>1. Positions(Dedupe(new), "call") = {}
    BY DedupeTypes
  <2> QED BY <2>1 DEF Apart, CallAt
<1>6. Prompt(past \o new) = before \o added
  BY <1>4, <1>5, PromptSplits, QuietUnthought
<1> HIDE DEF system, before, added
<1>7. before \o <<>> = before
  BY <1>3
<1> QED BY <1>2, <1>3, <1>6, <1>7

-----------------------------------------------------------------------------
(* What an answer whose calls have ids makes *)

Said(text, blank, thought) == IF text # <<>> \/ blank THEN <<Item("message", NoId, text, thought)>> ELSE <<>>
CalledBy(calls, thought) ==
  [k \in 1..Len(Ordered(calls)) |->
     Item("call", calls[Ordered(calls)[k]].id, calls[Ordered(calls)[k]].body, thought)]

(* An answer is its calls, a number of them, and its text. *)
Parted(output, called, said, number) ==
  /\ output = called \o said
  /\ called \in Seq(ItemType) /\ Len(called) = number
  /\ \A k \in DOMAIN called : called[k].type = "call"
  /\ said \in Seq(ItemType)
  /\ \A k \in DOMAIN said : said[k].type = "message"

LEMMA AnswerParts ==
  ASSUME NEW text \in Seq(Nat), NEW calls \in OfCalls(CallType), NEW origin \in 0..2, NEW blank \in BOOLEAN,
         NEW thought \in BOOLEAN,
         \A i \in DOMAIN calls : calls[i].id # NoId
  PROVE  Parted(ToResponses(text, calls, origin, blank, thought), CalledBy(calls, thought),
                Said(text, blank, thought), Len(Ordered(calls)))
<1> DEFINE order == Ordered(calls)
           n == Len(order)
           id(i) == IF calls[i].id = NoId THEN MintedId(origin, i) ELSE calls[i].id
           all == [k \in DOMAIN order |-> Item("call", id(order[k]), calls[order[k]].body, thought)]
           called == CalledBy(calls, thought)
           said == Said(text, blank, thought)
<1>1. order \in Seq(DOMAIN calls) /\ n \in Nat
  BY OrderedLists
<1>2. ToResponses(text, calls, origin, blank, thought) = all \o said
  BY DEF ToResponses, Said
<1> HIDE DEF order, n
<1>3. DOMAIN order = 1..n /\ \A k \in 1..n : order[k] \in DOMAIN calls
  BY <1>1 DEF n
<1>4. called = [k \in 1..n |-> Item("call", calls[order[k]].id, calls[order[k]].body, thought)]
  BY DEF CalledBy, order, n
<1>5. \A k \in 1..n : id(order[k]) = calls[order[k]].id
  BY <1>3
<1>6. all = called
  BY <1>3, <1>4, <1>5
<1>7. \A i \in DOMAIN calls : calls[i] \in CallType
  BY DEF OfCalls
<1>8. \A k \in 1..n : Item("call", calls[order[k]].id, calls[order[k]].body, thought) \in ItemType
  BY <1>3, <1>7 DEF Item, ItemType, CallType
<1>9. called \in Seq(ItemType) /\ Len(called) = n
  <2>1. called = [k \in 1..n |-> called[k]] /\ \A k \in 1..n : called[k] \in ItemType
    BY <1>4, <1>8
  <2> HIDE DEF called
  <2> QED BY <1>1, <2>1, ListType
<1>10. \A k \in DOMAIN called : called[k].type = "call"
  BY <1>4 DEF Item
<1>11. said \in Seq(ItemType) /\ \A k \in DOMAIN said : said[k].type = "message"
  <2>1. Item("message", NoId, text, thought) \in ItemType /\ Item("message", NoId, text, thought).type = "message"
    BY DEF Item, ItemType, NoId, IdType
  <2> DEFINE x == Item("message", NoId, text, thought)
  <2>2. said = IF text # <<>> \/ blank THEN <<x>> ELSE <<>>
    BY DEF Said
  <2> HIDE DEF x, said
  <2>3. <<x>> \in Seq(ItemType) /\ \A k \in DOMAIN <<x>> : <<x>>[k].type = "message"
    BY <2>1 DEF x
  <2> QED BY <2>2, <2>3
<1> HIDE DEF all, called, said
<1>12. Parted(ToResponses(text, calls, origin, blank, thought), called, said, n)
  BY <1>2, <1>6, <1>9, <1>10, <1>11 DEF Parted
<1> QED BY <1>12 DEF called, said, n, order

LEMMA AnswerItems ==
  ASSUME NEW text \in Seq(Nat), NEW calls \in OfCalls(CallType), NEW origin \in 0..2, NEW blank \in BOOLEAN,
         NEW thought \in BOOLEAN,
         \A i \in DOMAIN calls : calls[i].id # NoId
  PROVE  /\ ToResponses(text, calls, origin, blank, thought) \in Seq(ItemType)
         /\ Positions(ToResponses(text, calls, origin, blank, thought), "output") = {}
         /\ ToResponses(text, calls, origin, blank, thought) = ToResponses(text, calls, 2, blank, thought)
<1> DEFINE a == CalledBy(calls, thought)
           b == Said(text, blank, thought)
           c == a \o b
<1>9. Parted(ToResponses(text, calls, origin, blank, thought), a, b, Len(Ordered(calls)))
  BY AnswerParts
<1>1. ToResponses(text, calls, origin, blank, thought) = c
  <2> HIDE DEF a, b
  <2> QED BY <1>9, Zenon DEF Parted
<1>8. Parted(ToResponses(text, calls, 2, blank, thought), a, b, Len(Ordered(calls)))
  <2>1. 2 \in 0..2
    OBVIOUS
  <2> HIDE DEF a, b
  <2> QED BY <2>1, AnswerParts DEF a, b
<1> HIDE DEF a, b
<1>2. ToResponses(text, calls, 2, blank, thought) = c
  BY <1>8 DEF Parted
<1>3. a \in Seq(ItemType) /\ b \in Seq(ItemType)
  BY <1>8 DEF Parted
<1>4. (\A k \in DOMAIN a : a[k].type = "call") /\ (\A k \in DOMAIN b : b[k].type = "message")
  BY <1>8 DEF Parted
<1>5. c \in Seq(ItemType) /\ Together(c, a, b)
  BY <1>3, ConcatIs
<1> HIDE DEF c
<1>6. ASSUME NEW i \in DOMAIN c PROVE c[i].type # "output"
  <2>1. CASE i \in DOMAIN a
    BY <1>4, <1>5, <2>1 DEF Together
  <2>2. CASE i \notin DOMAIN a
    <3>1. PICK k \in DOMAIN b : i = Len(a) + k
      BY <1>5, <2>2 DEF Together
    <3>2. c[i] = b[k]
      BY <1>5, <3>1 DEF Together
    <3> QED BY <1>4, <3>2
  <2> QED BY <2>1, <2>2
<1>7. Positions(c, "output") = {}
  BY <1>6 DEF Positions
<1> QED BY <1>1, <1>2, <1>5, <1>7

LEMMA SaidMessages ==
  ASSUME NEW text \in Seq(Nat), NEW blank \in BOOLEAN, NEW thought \in BOOLEAN
  PROVE  Normalize(Group(Said(text, blank, thought)))
           = Normalize(<<ChatMessage("assistant", NoId, text, <<>>, thought)>>)
<1> DEFINE x == Item("message", NoId, text, thought)
           m == ChatMessage("assistant", NoId, text, <<>>, thought)
<1>1. x.type \notin {"call", "other"} /\ AsMessage(x) = m
  BY DEF Item, AsMessage, ChatMessage
<1>2. Said(text, blank, thought) = IF text # <<>> \/ blank THEN <<x>> ELSE <<>>
  BY DEF Said
<1>3. text = <<>> => ~ Speaks(m)
  BY DEF Speaks, ChatMessage
<1> HIDE DEF x, m
<1>4. Group(<<x>>) = <<m>>
  BY <1>1, GroupFew
<1>5. CASE text # <<>> \/ blank
  BY <1>2, <1>4, <1>5 DEF m
<1>6. CASE ~(text # <<>> \/ blank)
  <2>1. Said(text, blank, thought) = <<>> /\ ~ Speaks(m)
    BY <1>2, <1>3, <1>6
  <2>2. Normalize(Group(Said(text, blank, thought))) = <<>>
    BY <2>1, GroupFew, NormalizeFew
  <2>3. Normalize(<<m>>) = <<>>
    BY <2>1, NormalizeFew
  <2> QED BY <2>2, <2>3 DEF m
<1> QED BY <1>5, <1>6

(* The items of an answer in one body make the message it was.              *)
LEMMA JsonMessages ==
  ASSUME NEW text \in Seq(Nat), NEW calls \in OfCalls(CallType), NEW blank \in BOOLEAN, NEW thought \in BOOLEAN,
         text = <<>> \/ calls = <<>>, \A i \in DOMAIN calls : calls[i].id # NoId
  PROVE  Normalize(Group(ToResponses(text, calls, 2, blank, thought)))
           = Normalize(<<ChatMessage("assistant", NoId, text,
                           [k \in DOMAIN Ordered(calls) |-> calls[Ordered(calls)[k]]], thought)>>)
<1> DEFINE order == Ordered(calls)
           n == Len(order)
           a == CalledBy(calls, thought)
           b == Said(text, blank, thought)
           made == [k \in DOMAIN order |-> calls[order[k]]]
           m == ChatMessage("assistant", NoId, text, made, thought)
<1>1. order \in Seq(DOMAIN calls) /\ n \in Nat
  BY OrderedLists
<1>16. Parted(ToResponses(text, calls, 2, blank, thought), a, b, n)
  <2>1. 2 \in 0..2
    OBVIOUS
  <2> HIDE DEF a, b, n, order
  <2> QED BY <2>1, AnswerParts DEF a, b, n, order
<1>2. ToResponses(text, calls, 2, blank, thought) = a \o b
  BY <1>16 DEF Parted
<1>3. a \in Seq(ItemType) /\ b \in Seq(ItemType) /\ Len(a) = n
  <2> HIDE DEF a, b, n
  <2> QED BY <1>16 DEF Parted
<1>4. (\A k \in DOMAIN a : a[k].type = "call") /\ (\A k \in DOMAIN b : b[k].type = "message")
  <2> HIDE DEF a, b, n
  <2> QED BY <1>16 DEF Parted
<1>5. DOMAIN order = 1..n /\ \A k \in 1..n : order[k] \in DOMAIN calls
  <2> HIDE DEF order
  <2> QED BY <1>1
<1>6. \A k \in 1..n : a[k] = Item("call", calls[order[k]].id, calls[order[k]].body, thought)
  BY DEF CalledBy
<1>7. \A i \in DOMAIN calls : calls[i] \in CallType
  BY DEF OfCalls
<1>8. Apart(a, b)
  BY <1>4 DEF Apart, CallAt, Positions
<1>9. Group(a \o b) = Group(a) \o Group(b)
  BY <1>3, <1>8, GroupSplits
<1>10. Group(a) \in Seq(MessageType) /\ Group(b) \in Seq(MessageType)
  BY <1>3, GroupType
<1>11. Normalize(Group(a) \o Group(b)) = Normalize(Group(a)) \o Normalize(Group(b))
  BY <1>10, NormalizeSplits
<1>12. Normalize(Group(b)) = Normalize(<<ChatMessage("assistant", NoId, text, <<>>, thought)>>)
  BY SaidMessages
<1>13. Spoken(Normalize(Group(a))) /\ Spoken(Normalize(Group(b)))
  BY <1>3, MessagesOf
<1>14. CASE n = 0
  <2>1. a = <<>> /\ made = <<>>
    <3> HIDE DEF a, order, n
    <3> QED BY <1>3, <1>5, <1>14
  <2>2. Normalize(Group(a)) = <<>>
    BY <2>1, GroupFew, NormalizeFew
  <2>3. Normalize(Group(b)) = Normalize(<<m>>)
    BY <1>12, <2>1
  <2> DEFINE z == Normalize(Group(b))
  <2>4. z \in Seq(MessageType)
    BY <1>13 DEF Spoken
  <2> HIDE DEF z
  <2>5. <<>> \o z = z
    BY <2>4
  <2> HIDE DEF a, b, m, made, order, n
  <2>6. Normalize(Group(a \o b)) = z
    BY <1>9, <1>11, <2>2, <2>5 DEF z
  <2>7. Normalize(Group(a \o b)) = Normalize(<<m>>)
    BY <2>3, <2>6 DEF z
  <2> QED BY <1>2, <2>7 DEF m, made, order
<1>15. CASE n # 0
  <2>1. text = <<>>
    <3>1. 1 \in 1..n
      BY <1>1, <1>15
    <3>2. calls # <<>>
      <4>1. DOMAIN calls # {}
        BY <1>5, <3>1
      <4> QED BY <4>1, EmptyOfCalls
    <3> QED BY <3>2
  <2>2. \A k \in 1..n : Call(a[k].id, a[k].body) = calls[order[k]]
    <3> SUFFICES ASSUME NEW k \in 1..n PROVE Call(a[k].id, a[k].body) = calls[order[k]]
      OBVIOUS
    <3> DEFINE x == calls[order[k]]
    <3>1. x \in CallType
      BY <1>5, <1>7
    <3>2. a[k] = Item("call", x.id, x.body, thought)
      BY <1>6
    <3> HIDE DEF x, a
    <3>3. a[k].id = x.id /\ a[k].body = x.body
      BY <3>2 DEF Item
    <3>4. x = [id |-> x.id, body |-> x.body]
      BY <3>1 DEF CallType
    <3> QED BY <3>3, <3>4 DEF Call, x
  <2>3. Group(a) = <<ChatMessage("assistant", NoId, <<>>, [k \in 1..n |-> Call(a[k].id, a[k].body)],
                                 \E k \in 1..n : a[k].thought)>>
    <3>1. DOMAIN a = 1..n
      BY <1>3
    <3> HIDE DEF a, n
    <3> QED BY <1>1, <1>3, <1>4, <1>15, <3>1, GroupCalls
  <2>11. (\E k \in 1..n : a[k].thought) = thought
    <3>1. 1 \in 1..n
      BY <1>1, <1>15
    <3> HIDE DEF a, n
    <3>2. \A k \in 1..n : a[k].thought = thought
      <4> SUFFICES ASSUME NEW k \in 1..n PROVE a[k].thought = thought
        OBVIOUS
      <4>1. a[k] = Item("call", calls[order[k]].id, calls[order[k]].body, thought)
        BY <1>6
      <4> HIDE DEF order
      <4>2. Item("call", calls[order[k]].id, calls[order[k]].body, thought).thought = thought
        BY Zenon DEF Item
      <4> QED BY <4>1, <4>2, Zenon
    <3>3. thought \in BOOLEAN
      OBVIOUS
    <3>4. CASE thought = TRUE
      BY <3>1, <3>2, <3>4, Zenon
    <3>5. CASE thought = FALSE
      BY <3>2, <3>5, Zenon
    <3> QED BY <3>3, <3>4, <3>5
  <2>4. [k \in 1..n |-> Call(a[k].id, a[k].body)] = made
    BY <1>5, <2>2
  <2>5. Group(a) = <<m>>
    <3> DEFINE any == \E k \in 1..n : a[k].thought
               listed == [k \in 1..n |-> Call(a[k].id, a[k].body)]
    <3>1. any = thought /\ listed = made /\ Group(a) = <<ChatMessage("assistant", NoId, <<>>, listed, any)>>
      BY <2>3, <2>4, <2>11, Zenon
    <3> HIDE DEF any, listed, made, a
    <3>2. Group(a) = <<ChatMessage("assistant", NoId, text, made, thought)>>
      BY <2>1, <3>1, Zenon
    <3> QED BY <3>2
  <2>6. Normalize(Group(b)) = <<>>
    <3>1. ~ Speaks(ChatMessage("assistant", NoId, text, <<>>, thought))
      BY <2>1 DEF Speaks, ChatMessage
    <3> QED BY <1>12, <3>1, NormalizeFew
  <2> DEFINE z == Normalize(Group(a))
  <2>7. z \in Seq(MessageType)
    BY <1>13 DEF Spoken
  <2> HIDE DEF z
  <2>8. z \o <<>> = z
    BY <2>7
  <2> HIDE DEF a, b, m, made, order, n
  <2>9. Normalize(Group(a \o b)) = z
    BY <1>9, <1>11, <2>6, <2>8 DEF z
  <2>10. Normalize(Group(a \o b)) = Normalize(<<m>>)
    BY <2>5, <2>9 DEF z
  <2> QED BY <1>2, <2>10 DEF m, made, order
<1> QED BY <1>14, <1>15

-----------------------------------------------------------------------------
(* Both clients have the same messages posted *)

(* The items up to the last response are past, the history stored for that  *)
(* response is what they make, and what is posted is what all of them make, *)
(* as long as it is not too long.                                           *)
Held(past, all, new, history, posted, at, n) ==
  /\ past \in Seq(ItemType) /\ Joined(all, past, new) /\ Quiet(all) /\ Quiet(new)
  /\ Ids(past, "output") \cap Ids(new, "output") = {}
  /\ at = "client" =>
       IF n = 0 THEN past = <<>> /\ history = <<>>
       ELSE Brief(past) => Normalize(history) = Prompt(past)
  /\ at = "stream" =>
       /\ Ids(all, "call") \subseteq Ids(all, "output")
       /\ Brief(all) => posted = Prompt(all)

HistoryInv ==
  /\ phase = "stream" => fresh # <<>> /\ posts > 0
  /\ Positions(fresh, "call") = {}
  /\ plain => \E past : Held(past, items, fresh, stored, chained, phase, posts)

LEMMA InitHistory == Init => HistoryInv
<1> SUFFICES ASSUME Init PROVE HistoryInv
  OBVIOUS
<1>1. Positions(fresh, "call") = {} /\ Ids(fresh, "output") = {}
  BY DEF Init, Positions, Ids
<1>2. items = <<>> \o fresh
  BY DEF Init
<1>4. Quiet(items) /\ Quiet(fresh)
  BY DEF Init, Quiet, Positions
<1>3. Held(<<>>, items, fresh, stored, chained, phase, posts)
  BY <1>1, <1>2, <1>4 DEF Init, Held, Joined
<1> QED BY <1>1, <1>3 DEF Init, HistoryInv

LEMMA JoinAppend ==
  ASSUME NEW S, NEW a \in Seq(S), NEW b \in Seq(S), NEW x \in S
  PROVE  Joined(Append(a \o b, x), a, Append(b, x))
<1> DEFINE c == a \o b
           y == <<x>>
<1>1. c \in Seq(S)
  BY ConcatProperties
<1>2. y \in Seq(S)
  OBVIOUS
<1>3. Append(b, x) = b \o y
  BY AppendIsConcat
<1> HIDE DEF c, y
<1>4. Append(c, x) = c \o y
  BY <1>1, AppendIsConcat DEF y
<1>5. (a \o b) \o y = a \o (b \o y)
  BY <1>2, ConcatAssociative
<1> QED BY <1>3, <1>4, <1>5 DEF c, Joined

LEMMA IdsAppend ==
  ASSUME NEW S, NEW seq \in Seq(S), NEW x \in S, NEW type
  PROVE  /\ Ids(Append(seq, x), type) = Ids(seq, type) \cup (IF x.type = type THEN {x.id} ELSE {})
         /\ Positions(seq, type) = {} /\ x.type # type => Positions(Append(seq, x), type) = {}
<1> DEFINE n == Len(seq)
           y == Append(seq, x)
<1>1. n \in Nat /\ DOMAIN seq = 1..n /\ DOMAIN y = 1..(n + 1) /\ y[n + 1] = x /\ \A i \in 1..n : y[i] = seq[i]
  BY LenProperties, AppendProperties
<1> HIDE DEF n, y
<1>2. \A i \in 1..(n + 1) : i \in 1..n \/ i = n + 1
  BY <1>1
<1>3. n + 1 \in 1..(n + 1) /\ \A i \in 1..n : i \in 1..(n + 1)
  BY <1>1
<1>4. ASSUME NEW id \in Ids(y, type) PROVE id \in Ids(seq, type) \cup (IF x.type = type THEN {x.id} ELSE {})
  <2>1. PICK i \in 1..(n + 1) : y[i].type = type /\ y[i].id = id
    BY <1>1 DEF Ids, Positions
  <2>2. CASE i \in 1..n
    BY <1>1, <2>1, <2>2 DEF Ids, Positions
  <2>3. CASE i = n + 1
    BY <1>1, <2>1, <2>3
  <2> QED BY <1>2, <2>2, <2>3
<1>5. ASSUME NEW id \in Ids(seq, type) PROVE id \in Ids(y, type)
  <2>1. PICK i \in 1..n : seq[i].type = type /\ seq[i].id = id
    BY <1>1 DEF Ids, Positions
  <2>2. y[i].type = type /\ y[i].id = id /\ i \in DOMAIN y
    BY <1>1, <1>3, <2>1
  <2> QED BY <2>2 DEF Ids, Positions
<1>6. ASSUME x.type = type PROVE x.id \in Ids(y, type)
  <2>1. y[n + 1].type = type /\ y[n + 1].id = x.id /\ n + 1 \in DOMAIN y
    BY <1>1, <1>3, <1>6
  <2> DEFINE i == n + 1
  <2> HIDE DEF i
  <2>2. y[i].type = type /\ y[i].id = x.id /\ i \in DOMAIN y
    BY <2>1 DEF i
  <2> QED BY <2>2 DEF Ids, Positions
<1>7. ASSUME Positions(seq, type) = {}, x.type # type PROVE Positions(y, type) = {}
  <2>1. ASSUME NEW i \in 1..(n + 1) PROVE y[i].type # type
    <3>1. CASE i \in 1..n
      BY <1>1, <1>7, <3>1 DEF Positions
    <3>2. CASE i = n + 1
      BY <1>1, <1>7, <3>2
    <3> QED BY <1>2, <3>1, <3>2
  <2> QED BY <1>1, <2>1 DEF Positions
<1>8. Ids(y, type) = Ids(seq, type) \cup (IF x.type = type THEN {x.id} ELSE {})
  BY <1>4, <1>5, <1>6
<1> QED BY <1>7, <1>8 DEF y

LEMMA IdsTogether ==
  ASSUME NEW a \in Seq(ItemType), NEW b \in Seq(ItemType), NEW type
  PROVE  Ids(a, type) \subseteq Ids(a \o b, type)
<1> DEFINE c == a \o b
<1>1. Together(c, a, b)
  BY ConcatIs
<1> HIDE DEF c
<1>2. \A k \in DOMAIN a : k \in DOMAIN c /\ c[k] = a[k]
  BY <1>1 DEF Together
<1>3. Ids(a, type) \subseteq Ids(c, type)
  BY <1>2 DEF Ids, Positions
<1> QED BY <1>3 DEF c

(* Something new is said. *)
LEMMA SaysHistory ==
  ASSUME AnswerIInv, HistoryInv, phase = "client", NEW item \in ItemType, item.type \notin {"call", "message"},
         Says(item),
         plain' => plain /\ (item.type = "output" => item.id \notin Ids(items, "output") \ Ids(fresh, "output"))
  PROVE  HistoryInv'
<1>1. /\ items' = Append(items, item) /\ fresh' = Append(fresh, item) /\ phase' = "client"
      /\ stored' = stored /\ chained' = chained /\ posts' = posts
  BY DEF Says, proxy
<1>2. items \in Seq(ItemType) /\ fresh \in Seq(ItemType)
  BY DEF AnswerIInv, Types
<1> DEFINE all == Append(items, item)
           new == Append(fresh, item)
<1>3. Positions(new, "call") = {}
  <2>1. Positions(fresh, "call") = {}
    BY DEF HistoryInv
  <2> QED BY <1>2, <2>1, IdsAppend
<1>4. Ids(new, "output") = Ids(fresh, "output") \cup (IF item.type = "output" THEN {item.id} ELSE {})
  BY <1>2, IdsAppend
<1>5. ASSUME plain' PROVE \E past : Held(past, all, new, stored, chained, "client", posts)
  <2>1. PICK past : Held(past, items, fresh, stored, chained, phase, posts)
    BY <1>5 DEF HistoryInv
  <2>2. past \in Seq(ItemType) /\ items = past \o fresh /\ Ids(past, "output") \cap Ids(fresh, "output") = {}
    BY <2>1 DEF Held, Joined
  <2>3. Joined(all, past, new)
    BY <1>2, <2>2, JoinAppend
  <2>4. Ids(past, "output") \subseteq Ids(items, "output")
    BY <1>2, <2>2, IdsTogether
  <2>5. item.type = "output" => item.id \notin Ids(past, "output")
    BY <1>5, <2>2, <2>4
  <2>6. Ids(past, "output") \cap Ids(new, "output") = {}
    BY <1>4, <2>2, <2>5
  <2>7. IF posts = 0 THEN past = <<>> /\ stored = <<>>
        ELSE Brief(past) => Normalize(stored) = Prompt(past)
    BY <2>1 DEF Held
  <2>9. Quiet(items) /\ Quiet(fresh)
    BY <2>1 DEF Held
  <2>10. Quiet(all) /\ Quiet(new)
    BY <1>2, <2>9, QuietAppend
  <2> HIDE DEF all, new
  <2>8. Held(past, all, new, stored, chained, "client", posts)
    BY <2>2, <2>3, <2>6, <2>7, <2>10 DEF Held
  <2> QED BY <2>8
<1> HIDE DEF all, new
<1>6. items' = all /\ fresh' = new
  BY <1>1 DEF all, new
<1>7. plain' => \E past : Held(past, items', fresh', stored', chained', phase', posts')
  BY <1>1, <1>5, <1>6
<1> QED BY <1>1, <1>3, <1>6, <1>7 DEF HistoryInv

LEMMA PostHistory ==
  ASSUME PerModel = FALSE, AnswerIInv, HistoryInv, Post
  PROVE  HistoryInv'
<1>1. /\ phase = "client" /\ phase' = "stream" /\ posts' = posts + 1 /\ fresh # <<>>
      /\ items' = items /\ fresh' = fresh /\ stored' = stored
      /\ chained' = Truncate(Request(stored, fresh, posts = 0))
  BY DEF Post, client
<1>2. items \in Seq(ItemType) /\ fresh \in Seq(ItemType) /\ posts \in Nat
  BY DEF AnswerIInv, Types
<1>3. Positions(fresh, "call") = {}
  BY DEF HistoryInv
<1> DEFINE first == posts = 0
           whole == Prompt(items)
           request == Request(stored, fresh, first)
           posted == Truncate(request)
<1>4. chained' = posted
  BY <1>1
<1>5. ASSUME plain' PROVE \E past : Held(past, items, fresh, stored, posted, "stream", posts + 1)
  <2>1. plain /\ Ids(items, "call") \subseteq Ids(items, "output")
    BY <1>5 DEF Post
  <2>2. PICK past : Held(past, items, fresh, stored, chained, phase, posts)
    BY <2>1 DEF HistoryInv
  <2>3. past \in Seq(ItemType) /\ Joined(items, past, fresh) /\ Ids(past, "output") \cap Ids(fresh, "output") = {}
    BY <2>2 DEF Held
  <2>9. Quiet(items) /\ Quiet(fresh)
    BY <2>2 DEF Held
  <2>4. IF posts = 0 THEN past = <<>> /\ stored = <<>>
        ELSE Brief(past) => Normalize(stored) = Prompt(past)
    BY <1>1, <2>2 DEF Held
  <2>5. items = past \o fresh
    BY <2>3 DEF Joined
  <2>6. ASSUME Brief(items) PROVE request = whole
    <3>1. CASE posts = 0
      <4>1. items = fresh /\ stored = <<>> /\ first = TRUE
        BY <1>2, <2>5, <2>4, <3>1
      <4>2. Request(<<>>, items, TRUE) = Prompt(items)
        BY <1>2, <2>1, <2>9, RequestOfAll
      <4> QED BY <4>1, <4>2
    <3>2. CASE posts # 0
      <4>1. Apart(Dedupe(past), Dedupe(fresh))
        <5>1. Positions(Dedupe(fresh), "call") = {}
          BY <1>2, <1>3, DedupeTypes
        <5> QED BY <5>1 DEF Apart, CallAt
      <4>2. Ids(past, "output") \cap Ids(fresh, "output") = {}
        BY <2>3
      <4>3. Brief(past \o fresh) => Brief(past)
        BY <1>2, <2>3, <4>1, <4>2, PromptSplits
      <4>4. Normalize(stored) = Prompt(past)
        BY <2>5, <2>4, <2>6, <3>2, <4>3
      <4>5. first = FALSE
        BY <3>2
      <4>6. past \in Seq(ItemType)
        BY <2>3
      <4>7. fresh \in Seq(ItemType)
        BY <1>2
      <4>8. PerModel = FALSE
        OBVIOUS
      <4> HIDE DEF first, whole, request
      <4>9. Request(stored, fresh, FALSE) = Prompt(past \o fresh)
        <5>1. FALSE \in BOOLEAN
          OBVIOUS
        <5> QED BY <1>3, <2>9, <4>2, <4>4, <4>6, <4>7, <4>8, <5>1, RequestOfNew
      <4> QED BY <2>5, <4>5, <4>9 DEF request, whole
    <3> QED BY <3>1, <3>2
  <2>7. ASSUME Brief(items) PROVE posted = whole
    <3>1. request = whole
      BY <2>6, <2>7
    <3>2. Chars(whole) <= MaxChars
      BY <2>7 DEF Brief
    <3> HIDE DEF request, whole
    <3> QED BY <3>1, <3>2 DEF Truncate
  <2> HIDE DEF posted, whole
  <2>8. Held(past, items, fresh, stored, posted, "stream", posts + 1)
    BY <2>1, <2>3, <2>7, <2>9 DEF Held, whole
  <2> QED BY <2>8
<1> HIDE DEF posted
<1>6. plain' => \E past : Held(past, items', fresh', stored', chained', phase', posts')
  BY <1>1, <1>4, <1>5
<1>7. posts' > 0
  BY <1>1, <1>2
<1> QED BY <1>1, <1>3, <1>6, <1>7 DEF HistoryInv

(* An answer is received whose items make what is added to the history.     *)
LEMMA ReceivesHistory ==
  ASSUME AnswerIInv, MessagesInv, HistoryInv, phase = "stream", NEW output, Receives(output),
         plain' => /\ plain /\ output \in Seq(ItemType) /\ Positions(output, "output") = {} /\ Quiet(output)
                   /\ \E added \in Seq(MessageType) :
                        stored' = chained \o added /\ Normalize(added) = Normalize(Group(output))
  PROVE  HistoryInv'
<1>1. /\ phase' = "client" /\ items' = items \o output /\ fresh' = <<>>
      /\ chained' = chained /\ posts' = posts
  BY DEF Receives
<1>2. items \in Seq(ItemType) /\ fresh \in Seq(ItemType) /\ posts \in Nat
  BY DEF AnswerIInv, Types
<1>3. Positions(fresh, "call") = {} /\ fresh # <<>> /\ posts > 0
  BY DEF HistoryInv
<1>4. Positions(<<>>, "call") = {} /\ Ids(<<>>, "output") = {}
  BY DEF Positions, Ids
<1> DEFINE next == items \o output
<1>5. ASSUME plain' PROVE Held(next, next, <<>>, stored', chained, "client", posts)
  <2>1. plain /\ output \in Seq(ItemType) /\ Positions(output, "output") = {} /\ Quiet(output)
    BY <1>5
  <2>2. PICK added \in Seq(MessageType) :
          stored' = chained \o added /\ Normalize(added) = Normalize(Group(output))
    BY <1>5
  <2>3. PICK past : Held(past, items, fresh, stored, chained, phase, posts)
    BY <2>1 DEF HistoryInv
  <2>4. past \in Seq(ItemType) /\ items = past \o fresh
    BY <2>3 DEF Held, Joined
  <2>5. Brief(items) => chained = Prompt(items)
    BY <2>3 DEF Held
  <2>6. next \in Seq(ItemType)
    BY <1>2, <2>1
  <2>7. Dedupe(output) = output
    BY <2>1, DedupeAll
  <2>8. Apart(Dedupe(items), Dedupe(output))
    <3> DEFINE d == Dedupe(items)
               m == Len(past)
               n == Len(fresh)
    <3>1. Together(past \o fresh, past, fresh)
      BY <1>2, <2>4, ConcatIs
    <3>2. DOMAIN fresh = 1..n /\ n \in Nat /\ n # 0
      BY <1>2, <1>3, LenProperties
    <3>3. n \in DOMAIN fresh
      BY <3>2
    <3>4. Together(items, past, fresh)
      BY <2>4, <3>1
    <3>5. items[Len(items)] = fresh[n] /\ Len(items) = m + n /\ m \in Nat
      BY <3>3, <3>4 DEF Together
    <3>6. items # <<>>
      BY <3>2, <3>5
    <3>7. d[Len(d)] = items[Len(items)]
      BY <1>2, <3>5, <3>6, DedupeEnds
    <3>8. fresh[n].type # "call"
      BY <1>3, <3>3 DEF Positions
    <3> QED BY <3>5, <3>7, <3>8 DEF Apart, CallAt, Positions
  <2>9. Ids(items, "output") \cap Ids(output, "output") = {}
    BY <2>1 DEF Ids
  <2>10. /\ Prompt(next) = Prompt(items) \o Normalize(Group(output))
         /\ Brief(next) => Brief(items)
    BY <1>2, <2>1, <2>7, <2>8, <2>9, PromptSplits
  <2>11. ASSUME Brief(next) PROVE Normalize(stored') = Prompt(next)
    <3>1. chained = Prompt(items)
      BY <2>5, <2>10, <2>11
    <3>2. Spoken(Prompt(items))
      BY <1>2, PromptType
    <3>3. Normalize(chained \o added) = Normalize(chained) \o Normalize(added)
      BY <3>1, <3>2, NormalizeSplits DEF Spoken
    <3>4. Normalize(chained) = Prompt(items)
      BY <3>1, <3>2, NormalizeSpoken
    <3> QED BY <2>2, <2>10, <3>3, <3>4
  <2>13. Quiet(items)
    BY <2>3 DEF Held
  <2>14. Quiet(next)
    BY <1>2, <2>1, <2>13, QuietTogether
  <2>15. Quiet(<<>>)
    BY DEF Quiet, Positions
  <2> HIDE DEF next
  <2>12. next \o <<>> = next
    BY <2>6, ConcatEmptySeq
  <2> QED BY <1>2, <1>3, <1>4, <2>6, <2>11, <2>12, <2>14, <2>15 DEF Held, Joined
<1> HIDE DEF next
<1>6. items' = next
  BY <1>1 DEF next
<1>7. plain' => \E past : Held(past, items', fresh', stored', chained', phase', posts')
  BY <1>1, <1>5, <1>6
<1> QED BY <1>1, <1>4, <1>7 DEF HistoryInv

LEMMA UserSaysHistory ==
  ASSUME AnswerIInv, HistoryInv, UserSays
  PROVE  HistoryInv'
<1>1. PICK n \in Lengths : Says(Item("user", NoId, Fragments(n), FALSE))
  BY DEF UserSays
<1> DEFINE item == Item("user", NoId, Fragments(n), FALSE)
<1>2. item \in ItemType /\ item.type = "user"
  <2>1. Fragments(n) \in Seq(Nat)
    BY BoundsAssumption, FragmentsGrow
  <2> QED BY <2>1 DEF Item, ItemType, NoId, IdType
<1>3. plain' = plain /\ phase = "client"
  BY DEF UserSays
<1>4. Says(item)
  BY <1>1
<1> HIDE DEF item
<1>5. item.type \notin {"call", "message"}
  BY <1>2
<1>6. plain' => plain /\ (item.type = "output" => item.id \notin Ids(items, "output") \ Ids(fresh, "output"))
  BY <1>2, <1>3
<1> QED BY <1>2, <1>3, <1>4, <1>5, <1>6, SaysHistory

LEMMA SendsOtherHistory ==
  ASSUME AnswerIInv, HistoryInv, SendsOther
  PROVE  HistoryInv'
<1> DEFINE item == Item("other", NoId, <<>>, FALSE)
<1>1. Says(item) /\ plain' = plain /\ phase = "client"
  BY DEF SendsOther
<1>2. item \in ItemType /\ item.type = "other"
  BY DEF Item, ItemType, NoId, IdType
<1> HIDE DEF item
<1>3. item.type \notin {"call", "message"}
  BY <1>2
<1>4. plain' => plain /\ (item.type = "output" => item.id \notin Ids(items, "output") \ Ids(fresh, "output"))
  BY <1>1, <1>2
<1> QED BY <1>1, <1>2, <1>3, <1>4, SaysHistory

LEMMA SendsOutputHistory ==
  ASSUME AnswerIInv, HistoryInv, SendsOutput
  PROVE  HistoryInv'
<1> DEFINE outputs == Cardinality(Positions(items, "output"))
<1>1. PICK id \in Ids(items, "call") :
        /\ Says(Item("output", id, <<outputs + 1>>, FALSE))
        /\ plain' = (plain /\ id \notin Ids(items, "output") \ Ids(fresh, "output"))
  BY DEF SendsOutput
<1>2. outputs \in Nat
  <2>1. items \in Seq(ItemType) /\ Positions(items, "output") \in SUBSET DOMAIN items
    BY DEF AnswerIInv, Types, Positions
  <2>2. IsFiniteSet(Positions(items, "output"))
    BY <2>1, PositionsFinite
  <2> QED BY <2>2, FS_CardinalityType
<1>3. id \in IdType
  <2>1. PICK i \in DOMAIN items : id = items[i].id
    BY DEF Ids, Positions
  <2>2. items[i] \in ItemType
    BY DEF AnswerIInv, Types
  <2> QED BY <2>1, <2>2 DEF ItemType
<1> DEFINE item == Item("output", id, <<outputs + 1>>, FALSE)
<1>4. item \in ItemType /\ item.type = "output" /\ item.id = id
  <2> HIDE DEF outputs
  <2> QED BY <1>2, <1>3 DEF Item, ItemType
<1>5. phase = "client"
  BY DEF SendsOutput
<1>6. Says(item)
  BY <1>1
<1>7. plain' => plain /\ id \notin Ids(items, "output") \ Ids(fresh, "output")
  BY <1>1, Zenon
<1> HIDE DEF item
<1>8. plain' => plain /\ (item.type = "output" => item.id \notin Ids(items, "output") \ Ids(fresh, "output"))
  BY <1>4, <1>7
<1>9. item.type \notin {"call", "message"}
  BY <1>4
<1> QED BY <1>4, <1>5, <1>6, <1>8, <1>9, SaysHistory

LEMMA StreamEndsHistory ==
  ASSUME AnswerIInv, MessagesInv, HistoryInv, StreamEnds
  PROVE  HistoryInv'
<1> DEFINE text == IF agg.calls = <<>> THEN agg.text ELSE <<>>
           calls == agg.calls
           thought == agg.thought
           output == ToResponses(text, calls, 2, FALSE, thought)
           kept == ToResponses(text, calls, 1, FALSE, thought)
<1>1. /\ phase = "stream" /\ Receives(FromSse(BuildSse(output))) /\ stored' = chained \o Group(kept)
      /\ plain' = (plain /\ Quiet(answer') /\ \A i \in DOMAIN calls : calls[i].id # NoId)
  BY DEF StreamEnds, BodyToMessages, MayEnd
<1>2. text \in Seq(Nat) /\ calls \in OfCalls(CallType) /\ thought \in BOOLEAN /\ posts \in Nat
  BY DEF AnswerIInv, Types
<1> HIDE DEF text
<1>3. Receives(output)
  <2>1. Len(output) \in Nat
    BY <1>2, AnswerLength
  <2> HIDE DEF output, Receives
  <2>2. FromSse(BuildSse(output)) = output
    BY <2>1, SseIsWhole
  <2> QED BY <1>1, <2>2
<1>6. answer' = output
  BY <1>3 DEF Receives
<1> HIDE DEF calls, thought
<1>4. ASSUME plain'
      PROVE  /\ plain /\ output \in Seq(ItemType) /\ Positions(output, "output") = {} /\ Quiet(output)
             /\ \E added \in Seq(MessageType) :
                  stored' = chained \o added /\ Normalize(added) = Normalize(Group(output))
  <2>1. plain /\ Quiet(output) /\ \A i \in DOMAIN calls : calls[i].id # NoId
    BY <1>1, <1>4, <1>6, Zenon
  <2>2. 1 \in 0..2 /\ 2 \in 0..2 /\ FALSE \in BOOLEAN
    OBVIOUS
  <2>3. output \in Seq(ItemType) /\ Positions(output, "output") = {}
    BY <1>2, <2>1, <2>2, AnswerItems
  <2>4. kept = output
    BY <1>2, <2>1, <2>2, AnswerItems
  <2> HIDE DEF kept, output
  <2>5. Group(output) \in Seq(MessageType)
    BY <2>3, GroupType
  <2>6. stored' = chained \o Group(output)
    BY <1>1, <2>4
  <2> QED BY <2>1, <2>3, <2>5, <2>6
<1> HIDE DEF output
<1>5. plain' => /\ plain /\ output \in Seq(ItemType) /\ Positions(output, "output") = {} /\ Quiet(output)
                /\ \E added \in Seq(MessageType) :
                     stored' = chained \o added /\ Normalize(added) = Normalize(Group(output))
  BY <1>4
<1> QED BY <1>1, <1>3, <1>5, ReceivesHistory

LEMMA JsonAnswerHistory ==
  ASSUME AnswerIInv, MessagesInv, HistoryInv, JsonAnswer
  PROVE  HistoryInv'
<1> DEFINE text == agg.text
           calls == agg.calls
           thought == agg.thought
           order == Ordered(calls)
           made == [k \in DOMAIN order |-> calls[order[k]]]
           message == ChatMessage("assistant", NoId, text, made, thought)
<1>1. PICK blank \in BOOLEAN : Receives(ToResponses(text, calls, 2, blank, thought))
  BY DEF JsonAnswer
<1>2. /\ phase = "stream" /\ stored' = Append(chained, message)
      /\ plain' = (plain /\ Quiet(answer') /\ (text = <<>> \/ calls = <<>>)
                         /\ \A i \in DOMAIN calls : calls[i].id # NoId)
  BY DEF JsonAnswer, MayEnd
<1>3. text \in Seq(Nat) /\ calls \in OfCalls(CallType) /\ thought \in BOOLEAN
  BY DEF AnswerIInv, Types
<1> DEFINE output == ToResponses(text, calls, 2, blank, thought)
<1>4. Receives(output)
  BY <1>1
<1>10. answer' = output
  BY <1>4 DEF Receives
<1> HIDE DEF text, calls, thought
<1>5. message \in MessageType
  <2>1. \A i \in DOMAIN calls : calls[i] \in CallType
    BY <1>3 DEF OfCalls
  <2>2. order \in Seq(DOMAIN calls)
    BY <1>3, OrderedLists
  <2> HIDE DEF order
  <2>3. made \in Seq(CallType)
    BY <2>1, <2>2
  <2> HIDE DEF made
  <2> QED BY <1>3, <2>3 DEF ChatMessage, MessageType, NoId, IdType
<1>6. chained \in Seq(MessageType)
  BY DEF MessagesInv, Spoken
<1>7. stored' = chained \o <<message>> /\ <<message>> \in Seq(MessageType)
  <2> HIDE DEF message
  <2>1. Append(chained, message) = chained \o <<message>>
    BY <1>5, <1>6, AppendIsConcat
  <2> QED BY <1>2, <1>5, <2>1
<1>8. ASSUME plain'
      PROVE  /\ plain /\ output \in Seq(ItemType) /\ Positions(output, "output") = {} /\ Quiet(output)
             /\ Normalize(<<message>>) = Normalize(Group(output))
  <2>1. plain /\ Quiet(output) /\ (text = <<>> \/ calls = <<>>)
    BY <1>2, <1>8, <1>10, Zenon
  <2>2. \A i \in DOMAIN calls : calls[i].id # NoId
    BY <1>2, <1>8, Zenon
  <2>3. 2 \in 0..2
    OBVIOUS
  <2>4. output \in Seq(ItemType) /\ Positions(output, "output") = {}
    BY <1>3, <2>2, <2>3, AnswerItems
  <2>5. text = <<>> \/ calls = <<>>
    BY <2>1
  <2>6. Normalize(Group(output)) = Normalize(<<message>>)
    BY <1>3, <2>2, <2>5, JsonMessages
  <2> QED BY <2>1, <2>4, <2>6
<1> HIDE DEF output, message
<1>9. plain' => /\ plain /\ output \in Seq(ItemType) /\ Positions(output, "output") = {} /\ Quiet(output)
                /\ \E added \in Seq(MessageType) :
                     stored' = chained \o added /\ Normalize(added) = Normalize(Group(output))
  BY <1>7, <1>8
<1> QED BY <1>2, <1>4, <1>9, ReceivesHistory

LEMMA StepHistory == PerModel = FALSE /\ AnswerIInv /\ MessagesInv /\ HistoryInv /\ [Next]_vars => HistoryInv'
<1> SUFFICES ASSUME PerModel = FALSE, AnswerIInv, MessagesInv, HistoryInv, [Next]_vars PROVE HistoryInv'
  OBVIOUS
<1>1. ASSUME UNCHANGED <<phase, client, proxy, posts, plain>> PROVE HistoryInv'
  <2>1. /\ phase' = phase /\ items' = items /\ fresh' = fresh /\ stored' = stored /\ chained' = chained
        /\ posts' = posts /\ plain' = plain
    BY <1>1 DEF client, proxy
  <2>2. plain' => \E past : Held(past, items', fresh', stored', chained', phase', posts')
    BY <2>1 DEF HistoryInv
  <2> QED BY <2>1, <2>2 DEF HistoryInv, Positions
<1>2. CASE UserSays
  BY <1>2, UserSaysHistory
<1>3. CASE SendsOutput
  BY <1>3, SendsOutputHistory
<1>4. CASE Post
  BY <1>4, PostHistory
<1>5. CASE TextDelta
  BY <1>1, <1>5 DEF TextDelta
<1>6. CASE \E i \in Indices : CallDelta(i)
  BY <1>1, <1>6 DEF CallDelta
<1>7. CASE StreamEnds
  BY <1>7, StreamEndsHistory
<1>8. CASE JsonAnswer
  BY <1>8, JsonAnswerHistory
<1>10. CASE SendsOther
  BY <1>10, SendsOtherHistory
<1>11. CASE ThoughtDelta
  BY <1>1, <1>11 DEF ThoughtDelta
<1>9. CASE UNCHANGED vars
  BY <1>1, <1>9 DEF vars
<1> QED BY <1>2, <1>3, <1>4, <1>5, <1>6, <1>7, <1>8, <1>9, <1>10, <1>11 DEF Next

LEMMA InvSamePrompt == AnswerIInv /\ MessagesInv /\ HistoryInv => SamePrompt
<1> SUFFICES ASSUME AnswerIInv, MessagesInv, HistoryInv, JustPosted, plain,
                    Chars(Request(<<>>, items, TRUE)) <= MaxChars
             PROVE  chained = resent
  BY DEF SamePrompt
<1> DEFINE whole == Request(<<>>, items, TRUE)
<1>1. phase = "stream" /\ items \in Seq(ItemType)
  BY DEF JustPosted, AnswerIInv, Types
<1>2. PICK past : Held(past, items, fresh, stored, chained, phase, posts)
  BY DEF HistoryInv
<1>3. Quiet(items) /\ Ids(items, "call") \subseteq Ids(items, "output") /\ (Brief(items) => chained = Prompt(items))
  BY <1>1, <1>2 DEF Held
<1>4. whole = Prompt(items)
  BY <1>1, <1>3, RequestOfAll
<1>5. resent = Truncate(whole)
  BY <1>1 DEF MessagesInv
<1> HIDE DEF whole
<1>6. Chars(whole) <= MaxChars
  BY DEF whole
<1>7. resent = whole
  BY <1>5, <1>6 DEF Truncate
<1>8. Brief(items)
  BY <1>4, <1>6 DEF Brief
<1> QED BY <1>3, <1>4, <1>7, <1>8

(* The client that chains its responses has the same messages posted as the *)
(* one that resends everything, as long as each call has an id and one      *)
(* timely output, no answer in one body has text and calls, no message of   *)
(* the model has reasoning, and nothing needs to be left out: of any        *)
(* conversation, of any length, in which the instructions of the requests   *)
(* are the same.                                                            *)
THEOREM SamePosts ==
  ASSUME PerModel = FALSE
  PROVE  Spec => []SamePrompt
<1>1. PerModel = FALSE
  OBVIOUS
<1>2. Init => AnswerIInv /\ MessagesInv /\ HistoryInv
  BY InitAnswer, InitMessages, InitHistory
<1>3. AnswerIInv /\ MessagesInv /\ HistoryInv /\ [Next]_vars => (AnswerIInv /\ MessagesInv /\ HistoryInv)'
  BY <1>1, StepAnswer, StepMessages, StepHistory
<1>4. AnswerIInv /\ MessagesInv /\ HistoryInv => SamePrompt
  BY InvSamePrompt
<1> QED BY <1>2, <1>3, <1>4, PTL DEF Spec
=============================================================================
