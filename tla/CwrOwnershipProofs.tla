------------------------- MODULE CwrOwnershipProofs -------------------------
(***************************************************************************)
(* Proofs about the memory of the preprocessor, for every source, every    *)
(* set of modules and wherever allocations fail: each value has one owner  *)
(* (SoleOwnerCorrect), none is lost (NoLeakCorrect), what has been freed is *)
(* not read (SafeCorrect), and the faults there are have the causes that   *)
(* FaultsExplained names (FaultsCorrect).                                  *)
(***************************************************************************)
EXTENDS CwrPreprocessorProofs

(***************************************************************************)
(* Memory: what an operation did, if it did not fault.                     *)
(***************************************************************************)
NonNull(ts) == {ts[i].blk : i \in DOMAIN ts} \ {NULL}

LEMMA ReadSafe ==
    ASSUME NEW h \in HeapType, NEW b, Read(h, b).fault = "none"
    PROVE  Read(h, b) = h /\ h.fault = "none"
<1>1. CASE b \in h.live
  BY <1>1 DEF Read
<1>2. CASE b \notin h.live
  <2>1. PICK f \in {"null_dereference", "use_after_free"} : Read(h, b) = Raise(h, f)
    BY <1>2 DEF Read
  <2>2. Raise(h, f).fault # "none"
    BY DEF Raise, HeapType
  <2> QED
    BY <2>1, <2>2
<1> QED
  BY <1>1, <1>2

LEMMA FreeAllSafe ==
    ASSUME NEW h \in HeapType, NEW f, FreeAll(h, f).fault = "none"
    PROVE  /\ FreeAll(h, f) = [h EXCEPT !.live = @ \ ({f[x] : x \in DOMAIN f} \ {NULL})]
           /\ h.fault = "none"
<1> DEFINE blocks == {f[x] : x \in DOMAIN f} \ {NULL}
           rest == [h EXCEPT !.live = @ \ blocks]
<1>1. rest \in HeapType /\ rest.fault = h.fault
  BY DEF HeapType
<1>2. rest = [h EXCEPT !.live = @ \ ({f[x] : x \in DOMAIN f} \ {NULL})]
  OBVIOUS
<1>3. FreeAll(h, f) \in {rest, Raise(rest, "double_free")}
  BY DEF FreeAll
<1> HIDE DEF rest
<1>4. Raise(rest, "double_free").fault # "none"
  BY <1>1 DEF Raise, HeapType
<1> QED
  BY <1>1, <1>2, <1>3, <1>4

LEMMA ClonedSafe ==
    ASSUME NEW h \in HeapType, NEW ts \in Seq(Token), NEW k \in Nat, NEW lost \in Nat,
           Cloned(h, ts, k, lost).fault = "none"
    PROVE  /\ h.fault = "none"
           /\ Cloned(h, ts, k, lost).last = h.last + k + Len(ts)
           /\ Cloned(h, ts, k, lost).live =
                (h.live \cup (h.last + 1 .. h.last + (k + Len(ts))))
                  \ (IF lost = 0 THEN {} ELSE {h.last + (k + lost)})
<1> DEFINE new == Allocate(h, k + Len(ts))
           gone == IF lost = 0 THEN {} ELSE {Fresh(h, k + lost)}
<1>1. /\ new \in HeapType /\ new.fault = h.fault
      /\ new.last = h.last + (k + Len(ts))
      /\ new.live = h.live \cup (h.last + 1 .. h.last + (k + Len(ts)))
  <2>1. new \in HeapType
    BY AllocateType
  <2> QED
    BY <2>1 DEF Allocate
<1>2. Cloned(h, ts, k, lost) \in {[new EXCEPT !.live = @ \ gone], Raise(new, "null_dereference")}
  BY DEF Cloned
<1> HIDE DEF new
<1>3. Raise(new, "null_dereference").fault # "none"
  BY <1>1 DEF Raise, HeapType
<1>4. Cloned(h, ts, k, lost) = [new EXCEPT !.live = @ \ gone]
  BY <1>2, <1>3
<1>5. gone = IF lost = 0 THEN {} ELSE {h.last + (k + lost)}
  BY DEF Fresh
<1> HIDE DEF gone
<1>6. /\ [new EXCEPT !.live = @ \ gone].live = new.live \ gone
      /\ [new EXCEPT !.live = @ \ gone].last = new.last
      /\ [new EXCEPT !.live = @ \ gone].fault = new.fault
  BY <1>1 DEF HeapType
<1>7. h.last \in Nat /\ Len(ts) \in Nat
  BY DEF HeapType
<1>8. h.last + (k + Len(ts)) = h.last + k + Len(ts)
  BY <1>7
<1> QED
  BY <1>1, <1>4, <1>5, <1>6, <1>8

(***************************************************************************)
(* The list.  The first n of ts own live values (in L), each its own.      *)
(***************************************************************************)
ListSole(ts, n, L) ==
    \A i \in 1 .. n : ts[i].blk # NULL =>
        /\ ts[i].blk \in L
        /\ \A j \in 1 .. n : ts[j].blk = ts[i].blk => j = i

Listed(ts, n, b) == \E i \in 1 .. n : ts[i].blk = b

\* The values of n tokens of the list.
Values(from, n) == {tokens[i].blk : i \in from + 1 .. from + n} \ {NULL}

\* Removing tokens moves the others: no value is in the list twice, those of
\* the removed tokens are not in it any more, the others are.
LEMMA RemoveSole ==
    ASSUME ListOK, NEW from \in 0 .. count, NEW n \in 0 .. count - from, NEW L,
           ListSole(tokens, count, L)
    PROVE  /\ ListSole(RemoveTokens(from, n), count - n, L \ Values(from, n))
           /\ \A i \in 1 .. count - n : Listed(tokens, count, RemoveTokens(from, n)[i].blk)
           /\ \A b \in L \ Values(from, n) : b # NULL /\ Listed(tokens, count, b) =>
                Listed(RemoveTokens(from, n), count - n, b)
<1> DEFINE old(i) == IF from < i THEN i + n ELSE i
           ts == RemoveTokens(from, n)
<1>1. \A i \in 1 .. count - n : ts[i] = tokens[old(i)]
  BY DEF RemoveTokens, ListOK
<1>2. \A i \in 1 .. count - n : old(i) \in 1 .. count /\ old(i) \notin from + 1 .. from + n
  BY DEF ListOK
<1>3. \A i, j \in 1 .. count - n : old(i) = old(j) => i = j
  BY DEF ListOK
<1>4. \A k \in 1 .. count : k \notin from + 1 .. from + n => \E i \in 1 .. count - n : old(i) = k
  <2> SUFFICES ASSUME NEW k \in 1 .. count, k \notin from + 1 .. from + n
               PROVE  \E i \in 1 .. count - n : old(i) = k
    OBVIOUS
  <2>1. CASE k <= from
    BY <2>1 DEF ListOK
  <2>2. CASE k > from
    <3>1. k - n \in 1 .. count - n /\ old(k - n) = k
      BY <2>2 DEF ListOK
    <3> QED
      BY <3>1
  <2> QED
    BY <2>1, <2>2 DEF ListOK
<1>5. \A k \in from + 1 .. from + n : k \in 1 .. count
  BY DEF ListOK
<1> HIDE DEF old, ts
<1>6. \A i \in 1 .. count - n : ts[i].blk # NULL =>
        ts[i].blk \in L \ Values(from, n)
  BY <1>1, <1>2, <1>5 DEF ListSole, Values
<1>7. \A i, j \in 1 .. count - n : ts[i].blk # NULL /\ ts[j].blk = ts[i].blk => j = i
  BY <1>1, <1>2, <1>3 DEF ListSole
<1>8. \A b \in L \ Values(from, n) : b # NULL /\ Listed(tokens, count, b) => Listed(ts, count - n, b)
  BY <1>1, <1>4 DEF Listed, Values
<1>9. \A i \in 1 .. count - n : Listed(tokens, count, ts[i].blk)
  BY <1>1, <1>2 DEF Listed
<1> QED
  BY <1>6, <1>7, <1>8, <1>9 DEF ListSole, ts

\* Replacing tokens, by tokens with values (in F) that are not live before.
LEMMA ReplaceSole ==
    ASSUME ListOK, NEW from \in 0 .. count, NEW n \in 0 .. count - from, NEW L,
           ListSole(tokens, count, L),
           NEW new \in Seq(Token), NEW F, F \cap L = {}, ListSole(new, Len(new), F)
    PROVE  /\ ListSole(ReplaceTokens(from, n, new), count - n + Len(new),
                       (L \ Values(from, n)) \cup F)
           /\ \A i \in 1 .. count - n + Len(new) :
                \/ Listed(tokens, count, ReplaceTokens(from, n, new)[i].blk)
                \/ ReplaceTokens(from, n, new)[i].blk \in F \cup {NULL}
           /\ \A b \in L \ Values(from, n) : b # NULL /\ Listed(tokens, count, b) =>
                Listed(ReplaceTokens(from, n, new), count - n + Len(new), b)
           /\ \A b \in F : Listed(new, Len(new), b) =>
                Listed(ReplaceTokens(from, n, new), count - n + Len(new), b)
<1> DEFINE size == count - n + Len(new)
           ts == ReplaceTokens(from, n, new)
           inside(i) == from < i /\ i <= from + Len(new)
           old(i) == IF i <= from THEN i ELSE i - Len(new) + n
<1>1. /\ \A i \in 1 .. size : ts[i] = IF inside(i) THEN new[i - from] ELSE tokens[old(i)]
      /\ size \in Nat /\ from \in Nat /\ Len(new) \in Nat /\ from + Len(new) <= size
  BY DEF ReplaceTokens, ListOK
<1>2. \A i \in 1 .. size : ~inside(i) =>
        old(i) \in 1 .. count /\ old(i) \notin from + 1 .. from + n
  BY <1>1 DEF ListOK
<1>3. \A i, j \in 1 .. size : ~inside(i) /\ ~inside(j) /\ old(i) = old(j) => i = j
  BY <1>1 DEF ListOK
<1>4. \A k \in 1 .. count : k \notin from + 1 .. from + n =>
        \E i \in 1 .. size : ~inside(i) /\ old(i) = k
  <2> SUFFICES ASSUME NEW k \in 1 .. count, k \notin from + 1 .. from + n
               PROVE  \E i \in 1 .. size : ~inside(i) /\ old(i) = k
    OBVIOUS
  <2>1. CASE k <= from
    <3>1. k \in 1 .. size /\ ~inside(k) /\ old(k) = k
      BY <1>1, <2>1 DEF ListOK
    <3> HIDE DEF size, inside, old
    <3> QED
      BY <3>1
  <2>2. CASE k > from
    <3> DEFINE i == k + Len(new) - n
    <3>1. i \in 1 .. size /\ ~inside(i) /\ old(i) = k
      BY SMTT(30), <1>1, <2>2 DEF ListOK
    <3> HIDE DEF i, size, inside, old
    <3> QED
      BY <3>1
  <2> QED
    BY <2>1, <2>2 DEF ListOK
<1>5. \A i \in 1 .. size : inside(i) => i - from \in 1 .. Len(new)
  BY <1>1
<1>6. \A i, j \in 1 .. size : i - from = j - from => i = j
  BY <1>1
<1>7. \A k \in 1 .. Len(new) : \E i \in 1 .. size : inside(i) /\ i - from = k
  <2> TAKE k \in 1 .. Len(new)
  <2>1. from + k \in 1 .. size /\ inside(from + k) /\ (from + k) - from = k
    BY <1>1
  <2> QED
    BY <2>1
<1>8. \A k \in from + 1 .. from + n : k \in 1 .. count
  BY DEF ListOK
<1> HIDE DEF size, ts, inside, old
<1> DEFINE kept(i) == i \in 1 .. size /\ ~inside(i)
           put(i) == i \in 1 .. size /\ inside(i)
<1>9. \A i : kept(i) => ts[i] = tokens[old(i)]
  BY <1>1
<1>10. \A i : put(i) => ts[i] = new[i - from]
  BY <1>1
<1>11. \A i : kept(i) /\ ts[i].blk # NULL => ts[i].blk \in L \ Values(from, n)
  BY <1>2, <1>8, <1>9 DEF ListSole, Values
<1>12. \A i : put(i) /\ ts[i].blk # NULL => ts[i].blk \in F
  BY <1>5, <1>10 DEF ListSole
<1>13. \A i, j : kept(i) /\ kept(j) /\ ts[i].blk # NULL /\ ts[j].blk = ts[i].blk => j = i
  BY <1>2, <1>3, <1>9 DEF ListSole
<1>14. \A i, j : put(i) /\ put(j) /\ ts[i].blk # NULL /\ ts[j].blk = ts[i].blk => j = i
  <2> SUFFICES ASSUME NEW i, NEW j, put(i), put(j), ts[i].blk # NULL, ts[j].blk = ts[i].blk
               PROVE  j = i
    OBVIOUS
  <2>1. i - from = j - from
    BY SMTT(30), <1>5, <1>10 DEF ListSole
  <2> QED
    BY <1>6, <2>1
<1>15. \A i \in 1 .. size : kept(i) \/ put(i)
  OBVIOUS
<1>16. \A b \in L \ Values(from, n) : b # NULL /\ Listed(tokens, count, b) => Listed(ts, size, b)
  BY <1>4, <1>9 DEF Listed, Values
<1>17. \A b \in F : Listed(new, Len(new), b) => Listed(ts, size, b)
  BY <1>7, <1>10 DEF Listed
<1>18. \A i : kept(i) => Listed(tokens, count, ts[i].blk)
  BY <1>2, <1>9 DEF Listed
<1>19. \A i : kept(i) => i \in 1 .. size
  OBVIOUS
<1>20. \A i : put(i) => i \in 1 .. size
  OBVIOUS
<1> HIDE DEF kept, put
<1>21. ListSole(ts, size, (L \ Values(from, n)) \cup F)
  BY <1>11, <1>12, <1>13, <1>14, <1>15 DEF ListSole
<1>22. \A i \in 1 .. size : Listed(tokens, count, ts[i].blk) \/ ts[i].blk \in F \cup {NULL}
  BY <1>12, <1>15, <1>18
<1> QED
  BY <1>16, <1>17, <1>21, <1>22 DEF size, ts

(***************************************************************************)
(* The tables.                                                             *)
(***************************************************************************)
Tabled(b) == \E s \in TableSlots : TableBlocks[s] = b

TableSole ==
    \A s \in TableSlots : TableBlocks[s] # NULL =>
        /\ TableBlocks[s] \in heap.live
        /\ \A t \in TableSlots : TableBlocks[t] = TableBlocks[s] => t = s

\* A step adds slots to the tables, which own the values in G.
Grows(G) ==
    /\ \A s \in TableSlots : s \in TableSlots' /\ TableBlocks'[s] = TableBlocks[s]
    /\ \A s \in TableSlots' : s \notin TableSlots => TableBlocks'[s] \in G \cup {NULL}
    /\ \A s, t \in TableSlots' :
            /\ s \notin TableSlots /\ t \notin TableSlots
            /\ TableBlocks'[s] # NULL /\ TableBlocks'[t] = TableBlocks'[s]
            => t = s
    /\ \A b \in G : \E s \in TableSlots' : TableBlocks'[s] = b

LEMMA TableSame ==
    ASSUME UNCHANGED <<macroses, included>>
    PROVE  TableSlots' = TableSlots /\ TableBlocks' = TableBlocks /\ Grows({})
<1>1. TableSlots' = TableSlots
  BY DEF TableSlots
<1>2. TableBlocks' = TableBlocks
  BY <1>1 DEF TableBlocks
<1> QED
  BY <1>1, <1>2 DEF Grows

LEMMA TableInclude ==
    ASSUME included \in Seq(Named), macroses \in Seq(Macros), macroses' = macroses,
           NEW x, NEW b \in Nat,
           included' = Append(included, [name |-> x, blk |-> b])
    PROVE  Grows({b})
<1> DEFINE new == <<0, Len(included) + 1>>
<1>1. /\ Len(included) \in Nat /\ DOMAIN included = 1 .. Len(included)
      /\ DOMAIN included' = 1 .. Len(included) + 1
  OBVIOUS
<1>2. DOMAIN included' = DOMAIN included \cup {Len(included) + 1}
  BY <1>1
<1>3. TableSlots' = TableSlots \cup {new}
  BY <1>2 DEF TableSlots
<1>4. \A s \in TableSlots : TableBlocks'[s] = TableBlocks[s]
  <2> SUFFICES ASSUME NEW s \in TableSlots PROVE TableBlocks'[s] = TableBlocks[s]
    OBVIOUS
  <2>1. s[1] = 0 => included'[s[2]] = included[s[2]]
    <3>1. CASE s \in {0} \X DOMAIN included
      BY <1>1, <3>1
    <3>2. CASE s \in UNION {{i} \X (0 .. Len(macroses[i].value)) : i \in DOMAIN macroses}
      <4>1. s[1] \in 1 .. Len(macroses)
        BY <3>2
      <4> QED
        BY <4>1
    <3> QED
      BY <3>1, <3>2 DEF TableSlots
  <2> QED
    BY <1>3, <2>1 DEF TableBlocks
<1>5. TableBlocks'[new] = b
  <2>1. included'[Len(included) + 1].blk = b
    BY <1>1
  <2> QED
    BY <1>3, <2>1 DEF TableBlocks
<1> QED
  BY <1>3, <1>4, <1>5 DEF Grows

LEMMA TableDefine ==
    ASSUME included \in Seq(Named), macroses \in Seq(Macros), included' = included,
           NEW x, NEW b \in Nat, NEW value \in Seq(Token), NEW F, b \notin F,
           macroses' = Append(macroses, [name |-> x, blk |-> b, value |-> value]),
           ListSole(value, Len(value), F), \A c \in F : Listed(value, Len(value), c)
    PROVE  Grows({b} \cup F)
<1> DEFINE k == Len(macroses) + 1
           last == [name |-> x, blk |-> b, value |-> value]
           Of(m, i) == {i} \X (0 .. Len(m[i].value))
           new == {k} \X (0 .. Len(value))
<1>1. /\ Len(macroses) \in Nat /\ DOMAIN macroses = 1 .. Len(macroses)
      /\ DOMAIN macroses' = 1 .. Len(macroses) + 1
      /\ \A i \in DOMAIN macroses : macroses'[i] = macroses[i]
      /\ macroses'[k] = last
  <2>1. macroses' = Append(macroses, last)
    OBVIOUS
  <2> HIDE DEF last
  <2> QED
    BY <2>1
<1>2. DOMAIN macroses' = DOMAIN macroses \cup {k} /\ k \notin DOMAIN macroses /\ k # 0
  BY <1>1
<1>3. TableSlots' = TableSlots \cup new
  <2>1. UNION {Of(macroses', i) : i \in DOMAIN macroses'}
          = (UNION {Of(macroses', i) : i \in DOMAIN macroses}) \cup Of(macroses', k)
    <3> HIDE DEF k, Of
    <3> QED
      BY <1>2
  <2>2. {Of(macroses', i) : i \in DOMAIN macroses} = {Of(macroses, i) : i \in DOMAIN macroses}
    <3>1. \A i \in DOMAIN macroses : Of(macroses', i) = Of(macroses, i)
      BY <1>1
    <3> HIDE DEF Of
    <3> QED
      BY <3>1
  <2>3. Of(macroses', k) = new
    BY <1>1
  <2>4. TableSlots = ({0} \X DOMAIN included) \cup UNION {Of(macroses, i) : i \in DOMAIN macroses}
    BY DEF TableSlots
  <2>5. TableSlots' = ({0} \X DOMAIN included) \cup UNION {Of(macroses', i) : i \in DOMAIN macroses'}
    BY DEF TableSlots
  <2> HIDE DEF Of, new, k
  <2> QED
    BY <2>1, <2>2, <2>3, <2>4, <2>5, Zenon
<1>4. \A s \in TableSlots : s[1] = 0 \/ s[1] \in DOMAIN macroses
  BY DEF TableSlots
<1>5. \A s \in TableSlots : TableBlocks'[s] = TableBlocks[s]
  BY <1>1, <1>3, <1>4 DEF TableBlocks
<1>6. \A s \in new : s \notin TableSlots
  BY <1>2, <1>4
<1>7. \A j \in 0 .. Len(value) :
        TableBlocks'[<<k, j>>] = IF j = 0 THEN b ELSE value[j].blk
  <2> SUFFICES ASSUME NEW j \in 0 .. Len(value)
               PROVE  TableBlocks'[<<k, j>>] = IF j = 0 THEN b ELSE value[j].blk
    OBVIOUS
  <2>1. <<k, j>> \in TableSlots'
    BY <1>3
  <2>2. TableBlocks'[<<k, j>>] = IF j = 0 THEN last.blk ELSE last.value[j].blk
    <3> HIDE DEF last, new
    <3> QED
      BY <1>1, <1>2, <2>1 DEF TableBlocks
  <2> QED
    BY <2>2
<1>8. \A j \in 1 .. Len(value) : value[j].blk # NULL =>
        value[j].blk \in F /\ \A i \in 1 .. Len(value) : value[i].blk = value[j].blk => i = j
  BY DEF ListSole
<1>9. \A s \in TableSlots' : s \notin TableSlots => \E j \in 0 .. Len(value) : s = <<k, j>>
  BY <1>3
<1>10. \A j \in 0 .. Len(value) : <<k, j>> \in TableSlots'
  BY <1>3
<1> HIDE DEF k, new, last
<1>11. ASSUME NEW s \in TableSlots', s \notin TableSlots
       PROVE  TableBlocks'[s] \in {b} \cup F \cup {NULL}
  <2>1. PICK j \in 0 .. Len(value) : s = <<k, j>>
    BY <1>9, <1>11
  <2>2. j = 0 \/ j \in 1 .. Len(value)
    OBVIOUS
  <2> QED
    BY <1>7, <1>8, <2>1, <2>2
<1>12. ASSUME NEW s \in TableSlots', NEW t \in TableSlots', s \notin TableSlots,
              t \notin TableSlots, TableBlocks'[s] # NULL, TableBlocks'[t] = TableBlocks'[s]
       PROVE  t = s
  <2>1. PICK i \in 0 .. Len(value) : s = <<k, i>>
    BY <1>9, <1>12
  <2>2. PICK j \in 0 .. Len(value) : t = <<k, j>>
    BY <1>9, <1>12
  <2>3. (i = 0 \/ i \in 1 .. Len(value)) /\ (j = 0 \/ j \in 1 .. Len(value))
    OBVIOUS
  <2>4. i = j
    BY SMTT(30), <1>7, <1>8, <1>12, <2>1, <2>2, <2>3
  <2> QED
    BY <2>1, <2>2, <2>4
<1>13. ASSUME NEW c \in {b} \cup F PROVE \E s \in TableSlots' : TableBlocks'[s] = c
  <2>1. CASE c = b
    <3>1. 0 \in 0 .. Len(value)
      OBVIOUS
    <3> QED
      BY <1>7, <1>10, <2>1, <3>1
  <2>2. CASE c \in F
    <3>1. PICK j \in 1 .. Len(value) : value[j].blk = c
      BY <2>2 DEF Listed
    <3>2. j \in 0 .. Len(value) /\ j # 0
      OBVIOUS
    <3> QED
      BY <1>7, <1>10, <3>1, <3>2
  <2> QED
    BY <1>13, <2>1, <2>2
<1> QED
  BY <1>3, <1>5, <1>11, <1>12, <1>13 DEF Grows

(***************************************************************************)
(* The invariant: as long as nothing undefined has happened, the owners of *)
(* a preprocessor that is running, or has not given up an include, exclude *)
(* each other, and cover the live values.                                  *)
(***************************************************************************)
Apart == \A i \in 1 .. count : tokens[i].blk # NULL => ~Tabled(tokens[i].blk)
Exclusive == ListSole(tokens, count, heap.live) /\ TableSole /\ Apart
Covered == \A b \in heap.live :
                \/ Listed(tokens, count, b) /\ phase # "done"
                \/ Tabled(b) /\ phase \in {"run", "break"}

Unspoiled == ~(failed /\ included # <<>> /\ (failures > 0 \/ Unknown))

Memory == /\ heap.live \subseteq 1 .. heap.last
          /\ phase = "run" \/ (phase = "break" /\ Unspoiled) => Exclusive
          /\ phase = "list" /\ Unspoiled => ListSole(tokens, count, heap.live)
          /\ Covered

Inv == TypeOK /\ (heap.fault = "none" => Memory)

\* A step that takes values (Fr) off the list, gives the list new ones (F) and
\* the tables new ones (G).
Moves(Fr, F, G) ==
    /\ heap'.live = (heap.live \ Fr) \cup F \cup G
    /\ ListSole(tokens', count', (heap.live \ Fr) \cup F)
    /\ \A i \in 1 .. count' :
        Listed(tokens, count, tokens'[i].blk) \/ tokens'[i].blk \in F \cup {NULL}
    /\ \A b \in heap.live \ Fr : Listed(tokens, count, b) => Listed(tokens', count', b)
    /\ \A b \in F : Listed(tokens', count', b)
    /\ Grows(G)

LEMMA MovesExclusive ==
    ASSUME Exclusive, NULL \notin heap.live, NEW Fr, NEW F, NEW G, Moves(Fr, F, G),
           \A b \in Fr : b # NULL /\ Listed(tokens, count, b),
           F \cap heap.live = {}, G \cap heap.live = {}, F \cap G = {},
           NULL \notin F, NULL \notin G
    PROVE  Exclusive'
<1> DEFINE L == heap.live
<1>1. \A s \in TableSlots : TableBlocks[s] # NULL => TableBlocks[s] \in L \ Fr
  BY DEF Exclusive, TableSole, Apart, Tabled, Listed
<1>2. ListSole(tokens', count', heap'.live)
  BY DEF Moves, ListSole
<1>3. TableSole'
  <2>1. \A s \in TableSlots' : TableBlocks'[s] # NULL =>
            IF s \in TableSlots THEN TableBlocks'[s] = TableBlocks[s] /\ TableBlocks'[s] \in L \ Fr
            ELSE TableBlocks'[s] \in G
    BY <1>1 DEF Moves, Grows
  <2>2. \A s, t \in TableSlots' : TableBlocks'[s] # NULL /\ TableBlocks'[t] = TableBlocks'[s] => t = s
    <3> SUFFICES ASSUME NEW s \in TableSlots', NEW t \in TableSlots',
                        TableBlocks'[s] # NULL, TableBlocks'[t] = TableBlocks'[s]
                 PROVE  t = s
      OBVIOUS
    <3>1. CASE s \in TableSlots /\ t \in TableSlots
      BY <2>1, <3>1 DEF Exclusive, TableSole
    <3>2. CASE s \notin TableSlots /\ t \notin TableSlots
      BY <3>2 DEF Moves, Grows
    <3>3. CASE ~(s \in TableSlots <=> t \in TableSlots)
      BY <2>1, <3>3
    <3> QED
      BY <3>1, <3>2, <3>3
  <2>3. \A s \in TableSlots' : TableBlocks'[s] # NULL => TableBlocks'[s] \in heap'.live
    BY <2>1 DEF Moves
  <2> QED
    BY <2>2, <2>3 DEF TableSole
<1>4. Apart'
  <2> SUFFICES ASSUME NEW i \in 1 .. count', tokens'[i].blk # NULL,
                      NEW s \in TableSlots', TableBlocks'[s] = tokens'[i].blk
               PROVE  FALSE
    BY DEF Apart, Tabled
  <2> DEFINE b == tokens'[i].blk
  <2>1. b \in (L \ Fr) \cup F
    BY DEF Moves, ListSole
  <2>2. b \in F \/ Listed(tokens, count, b)
    BY DEF Moves
  <2>3. CASE s \in TableSlots
    <3>1. TableBlocks[s] = b
      BY <2>3 DEF Moves, Grows
    <3>2. b \in L
      BY <1>1, <2>3, <3>1
    <3>3. Listed(tokens, count, b)
      BY <2>2, <3>2
    <3> QED
      BY <2>3, <3>1, <3>3 DEF Exclusive, Apart, Tabled, Listed
  <2>4. CASE s \notin TableSlots
    <3>1. b \in G
      BY <2>4 DEF Moves, Grows
    <3> QED
      BY <2>1, <3>1
  <2> QED
    BY <2>3, <2>4
<1> QED
  BY <1>2, <1>3, <1>4 DEF Exclusive

LEMMA MovesCovered ==
    ASSUME Covered, phase = "run", phase' \in {"run", "break"}, NEW Fr, NEW F, NEW G,
           Moves(Fr, F, G)
    PROVE  Covered'
<1> SUFFICES ASSUME NEW b \in heap'.live
             PROVE  Listed(tokens', count', b) \/ \E s \in TableSlots' : TableBlocks'[s] = b
  BY DEF Covered, Tabled
<1>1. CASE b \in heap.live \ Fr
  <2>1. CASE Listed(tokens, count, b)
    BY <1>1, <2>1 DEF Moves
  <2>2. CASE \E s \in TableSlots : TableBlocks[s] = b
    BY <2>2 DEF Moves, Grows
  <2> QED
    BY <1>1, <2>1, <2>2 DEF Covered, Tabled
<1>2. CASE b \in F
  BY <1>2 DEF Moves
<1>3. CASE b \in G
  BY <1>3 DEF Moves, Grows
<1> QED
  BY <1>1, <1>2, <1>3 DEF Moves

\* Moves, in a step of a running preprocessor that gives the blocks from..to.
LEMMA MovesMemory ==
    ASSUME TypeOK, Memory, phase = "run", phase' \in {"run", "break"}, NEW Fr, NEW F, NEW G,
           Moves(Fr, F, G), \A b \in Fr : b # NULL /\ Listed(tokens, count, b),
           heap'.last \in Nat, heap'.last >= heap.last,
           F \cup G \subseteq heap.last + 1 .. heap'.last, F \cap G = {}
    PROVE  Memory'
<1>1. /\ heap.last \in Nat /\ NULL \notin heap.live
      /\ F \cap heap.live = {} /\ G \cap heap.live = {} /\ NULL \notin F /\ NULL \notin G
  BY DEF TypeOK, Memory, NULL
<1>2. heap'.live \subseteq 1 .. heap'.last
  BY <1>1 DEF Memory, Moves
<1>3. Exclusive'
  BY <1>1, MovesExclusive DEF Memory
<1>4. Covered'
  BY MovesCovered DEF Memory
<1> QED
  BY <1>2, <1>3, <1>4 DEF Memory

(***************************************************************************)
(* The steps.                                                              *)
(***************************************************************************)
LEMMA SameMemory ==
    ASSUME Memory, UNCHANGED <<tokens, count, macroses, included, heap>>,
           \/ phase' = phase /\ UNCHANGED <<failed, failures>>
           \/ phase = "run" /\ phase' \in {"run", "break"}
    PROVE  Memory'
<1>1. TableSlots' = TableSlots /\ TableBlocks' = TableBlocks
  BY TableSame
<1>2. /\ Exclusive' <=> Exclusive
      /\ ListSole(tokens, count, heap.live)' <=> ListSole(tokens, count, heap.live)
  BY <1>1 DEF Exclusive, TableSole, Apart, Tabled, ListSole
<1>3. Covered'
  BY <1>1 DEF Memory, Covered, Listed, Tabled
<1> QED
  BY <1>2, <1>3 DEF Memory, Unspoiled, Unknown

LEMMA PassMemory ==
    ASSUME Inv, Skip \/ OtherDirective \/ SyntaxError \/ OutOfMemory, heap'.fault = "none"
    PROVE  Memory'
<1>1. heap \in HeapType
  BY DEF Inv, TypeOK, HeapType
<1>2. heap.fault = "none" /\ UNCHANGED <<tokens, count, macroses, included>>
  BY DEF Skip, OtherDirective, SyntaxError, OutOfMemory, Looping
<1>3. phase = "run" /\ phase' \in {"run", "break"}
  BY DEF Skip, OtherDirective, SyntaxError, OutOfMemory, Looping, Break
<1>4. heap' = heap
  <2>1. CASE Skip
    BY <1>1, <2>1, ReadSafe DEF Skip
  <2>2. CASE OtherDirective
    BY <1>1, <2>2, ReadSafe DEF OtherDirective
  <2>3. CASE SyntaxError
    BY <2>3 DEF SyntaxError
  <2>4. CASE OutOfMemory
    <3> DEFINE h == IF Concatenates THEN Read(heap, tokens[position].blk) ELSE heap
    <3>1. heap' = Read(h, Copied)
      BY <2>4 DEF OutOfMemory
    <3>2. h \in HeapType
      BY <1>1, ReadType
    <3>3. heap' = h
      <4> HIDE DEF h
      <4> QED
        BY <3>1, <3>2, ReadSafe
    <3>4. h = heap
      BY <1>1, <3>3, ReadSafe
    <3> QED
      BY <3>3, <3>4
  <2> QED
    BY <2>1, <2>2, <2>3, <2>4
<1> QED
  BY <1>2, <1>3, <1>4, SameMemory DEF Inv

\* The values of the copies made by Clone, after the first k blocks.
Copies(h, ts, k, lost) ==
    (h.last + k + 1 .. h.last + k + Len(ts)) \ (IF lost = 0 THEN {} ELSE {h.last + k + lost})

LEMMA CloneSole ==
    ASSUME NEW h \in HeapType, NEW ts \in Seq(Token), NEW k \in Nat, NEW lost \in 0 .. Len(ts)
    PROVE  /\ ListSole(Clone(h, ts, k, lost), Len(ts), Copies(h, ts, k, lost))
           /\ \A b \in Copies(h, ts, k, lost) : Listed(Clone(h, ts, k, lost), Len(ts), b)
<1> DEFINE new == Clone(h, ts, k, lost)
           F == Copies(h, ts, k, lost)
<1>1. h.last \in Nat /\ Len(ts) \in Nat /\ lost \in Nat
  BY DEF HeapType
<1>2. \A i \in 1 .. Len(ts) : new[i].blk = IF i = lost THEN 0 ELSE h.last + k + i
  <2> SUFFICES ASSUME NEW i \in 1 .. Len(ts)
               PROVE  new[i].blk = IF i = lost THEN 0 ELSE h.last + k + i
    OBVIOUS
  <2>1. new[i] = [ts[i] EXCEPT !.blk = IF i = lost THEN NULL ELSE Fresh(h, k + i)]
    <3> DEFINE copy(j) == [ts[j] EXCEPT !.blk = IF j = lost THEN NULL ELSE Fresh(h, k + j)]
    <3>1. new = [j \in 1 .. Len(ts) |-> copy(j)]
      BY DEF Clone
    <3> HIDE DEF copy, new
    <3>2. new[i] = copy(i)
      BY <3>1
    <3> QED
      BY <3>2 DEF copy
  <2>2. ts[i] \in Token
    OBVIOUS
  <2>3. new[i].blk = IF i = lost THEN NULL ELSE Fresh(h, k + i)
    BY <2>1, <2>2 DEF Token
  <2> QED
    BY <1>1, <2>3 DEF Fresh, NULL
<1> HIDE DEF new
<1>3. \A i \in 1 .. Len(ts) : i # lost => h.last + k + i \in F
  BY <1>1 DEF Copies
<1>4. \A b \in F : \E i \in 1 .. Len(ts) : i # lost /\ h.last + k + i = b
  <2> SUFFICES ASSUME NEW b \in F
               PROVE  \E i \in 1 .. Len(ts) : i # lost /\ h.last + k + i = b
    OBVIOUS
  <2> DEFINE i == b - h.last - k
  <2>1. i \in 1 .. Len(ts) /\ i # lost /\ h.last + k + i = b
    BY <1>1 DEF Copies
  <2> HIDE DEF i
  <2> QED
    BY <2>1
<1> HIDE DEF F
<1>5. ListSole(new, Len(ts), F)
  BY <1>1, <1>2, <1>3 DEF ListSole, NULL
<1>6. \A b \in F : Listed(new, Len(ts), b)
  BY <1>2, <1>4 DEF Listed
<1> QED
  BY <1>5, <1>6 DEF new, F

LEMMA ValuesListed ==
    ASSUME ListOK, NEW from \in 0 .. count, NEW n \in 0 .. count - from
    PROVE  \A b \in Values(from, n) : b # NULL /\ Listed(tokens, count, b)
<1>1. \A i \in from + 1 .. from + n : i \in 1 .. count
  BY DEF ListOK
<1> QED
  BY <1>1 DEF Values, Listed

\* The blocks of tokens that a directive gives back are their values.
LEMMA SliceValues ==
    ASSUME ListOK, NEW from \in 0 .. count, NEW n \in 0 .. count - from
    PROVE  {Blocks(SubSeq(tokens, from + 1, from + n))[x] :
                x \in DOMAIN Blocks(SubSeq(tokens, from + 1, from + n))} \ {NULL}
           = Values(from, n)
<1> DEFINE s == SubSeq(tokens, from + 1, from + n)
           f == Blocks(s)
<1>1. /\ DOMAIN s = 1 .. n
      /\ \A i \in 1 .. n : s[i] = tokens[from + i]
  BY DEF ListOK
<1> HIDE DEF s
<1>2. DOMAIN f = 1 .. n /\ \A i \in 1 .. n : f[i] = tokens[from + i].blk
  BY <1>1 DEF Blocks
<1> HIDE DEF f
<1>3. \A i \in 1 .. n : from + i \in from + 1 .. from + n
  BY DEF ListOK
<1>4. \A i \in from + 1 .. from + n : i - from \in 1 .. n /\ from + (i - from) = i
  BY DEF ListOK
<1>5. {f[x] : x \in DOMAIN f} = {tokens[i].blk : i \in from + 1 .. from + n}
  <2>1. \A x \in DOMAIN f : \E i \in from + 1 .. from + n : f[x] = tokens[i].blk
    BY <1>2, <1>3
  <2>2. \A i \in from + 1 .. from + n : \E x \in DOMAIN f : f[x] = tokens[i].blk
    <3> TAKE i \in from + 1 .. from + n
    <3>1. i - from \in DOMAIN f /\ f[i - from] = tokens[i].blk
      BY <1>2, <1>4
    <3> QED
      BY <3>1
  <2> DEFINE A == {f[x] : x \in DOMAIN f}
             B == {tokens[i].blk : i \in from + 1 .. from + n}
  <2>3. \A b \in A : b \in B
    BY <2>1
  <2>4. \A b \in B : b \in A
    BY <2>2
  <2> QED
    BY <2>3, <2>4
<1> QED
  BY <1>5 DEF Values, f, s

LEMMA ReplaceMoves ==
    ASSUME ListOK, Exclusive, NULL \notin heap.live,
           NEW from \in 0 .. count, NEW n \in 0 .. count - from,
           NEW new \in Seq(Token), NEW F, NEW G, F \cap heap.live = {},
           ListSole(new, Len(new), F), \A b \in F : Listed(new, Len(new), b), Grows(G),
           count' = count - n + Len(new),
           \A i \in 1 .. count' : tokens'[i] = ReplaceTokens(from, n, new)[i],
           heap'.live = (heap.live \ Values(from, n)) \cup F \cup G
    PROVE  Moves(Values(from, n), F, G)
<1> DEFINE ts == ReplaceTokens(from, n, new)
           L == heap.live
           Fr == Values(from, n)
<1>1. /\ ListSole(ts, count', (L \ Fr) \cup F)
      /\ \A i \in 1 .. count' : Listed(tokens, count, ts[i].blk) \/ ts[i].blk \in F \cup {NULL}
      /\ \A b \in L \ Fr : b # NULL /\ Listed(tokens, count, b) => Listed(ts, count', b)
      /\ \A b \in F : Listed(new, Len(new), b) => Listed(ts, count', b)
  BY ReplaceSole DEF Exclusive
<1> HIDE DEF ts, L, Fr
<1>2. \A b : Listed(ts, count', b) => Listed(tokens', count', b)
  BY DEF Listed, ts
<1>3. ListSole(tokens', count', (L \ Fr) \cup F)
  BY <1>1 DEF ListSole, ts
<1>4. \A i \in 1 .. count' : tokens'[i] = ts[i]
  BY DEF ts
<1> QED
  BY <1>1, <1>2, <1>3, <1>4 DEF Moves, L, Fr

LEMMA RemoveMoves ==
    ASSUME ListOK, Exclusive, NULL \notin heap.live,
           NEW from \in 0 .. count, NEW n \in 0 .. count - from, NEW G, Grows(G),
           count' = count - n, tokens' = RemoveTokens(from, n),
           heap'.live = (heap.live \ Values(from, n)) \cup G
    PROVE  Moves(Values(from, n), {}, G)
<1> DEFINE ts == RemoveTokens(from, n)
           L == heap.live
           Fr == Values(from, n)
<1>1. /\ ListSole(ts, count', L \ Fr)
      /\ \A i \in 1 .. count' : Listed(tokens, count, ts[i].blk)
      /\ \A b \in L \ Fr : b # NULL /\ Listed(tokens, count, b) => Listed(ts, count', b)
  BY RemoveSole DEF Exclusive
<1> HIDE DEF ts, L, Fr
<1>2. tokens' = ts /\ NULL \notin L /\ heap'.live = (L \ Fr) \cup G
  BY DEF ts, L, Fr
<1>3. ListSole(tokens', count', (L \ Fr) \cup {}) /\ heap'.live = (L \ Fr) \cup {} \cup G
  BY <1>1, <1>2 DEF ListSole
<1> QED
  BY <1>1, <1>2, <1>3 DEF Moves, L, Fr

LEMMA ExpandMemory ==
    ASSUME Inv, Expand, heap'.fault = "none"
    PROVE  Memory'
<1>1. /\ ListOK /\ heap \in HeapType /\ position \in 0 .. count /\ 1 \in 0 .. count - position
      /\ heap.fault = "none" /\ phase = "run" /\ TypeOK /\ Memory /\ Current = tokens[position + 1]
      /\ Current \in Token
  <2>1. ListOK /\ heap \in HeapType /\ Looping /\ count > 0 /\ position + 1 <= count
    BY DEF Inv, TypeOK, ListOK, HeapType, Expand, Looping
  <2>2. Current = tokens[position + 1] /\ Current \in Token
    BY <2>1, AtToken DEF Current, ListOK
  <2> QED
    BY <2>1, <2>2 DEF Inv, Looping, ListOK
<1> DEFINE value == macroses[FindMacros(Current.text)].value
           h == FreeAll(Read(heap, Current.blk), <<Current.blk>>)
<1>2. value \in Seq(Token)
  <2>1. FindMacros(Current.text) \in 1 .. Len(macroses)
    BY FindMacrosType DEF Inv, TypeOK, Expand, Expands
  <2>2. macroses[FindMacros(Current.text)] \in Macros
    BY <2>1 DEF Inv, TypeOK
  <2> QED
    BY <2>2 DEF Macros
<1>3. h \in HeapType
  BY <1>1, ReadType, FreeAllType
<1>4. PICK lost \in 0 .. Len(value) :
        /\ tokens' = ReplaceTokens(position, 1, Clone(h, value, 0, lost))
        /\ heap' = Cloned(h, value, 0, lost)
        /\ count' = count - 1 + Len(value)
  BY DEF Expand
<1>5. UNCHANGED <<phase, macroses, included>>
  BY DEF Expand
<1> DEFINE Fr == Values(position, 1)
           new == Clone(h, value, 0, lost)
           F == Copies(heap, value, 0, lost)
<1> HIDE DEF value
<1>6. h.fault = "none" /\ h.live = heap.live \ Fr /\ h.last = heap.last
  <2>1. lost \in Nat /\ 0 \in Nat
    BY <1>2
  <2>2. h.fault = "none"
    BY <1>2, <1>3, <1>4, <2>1, ClonedSafe
  <2>3. Read(heap, Current.blk) \in HeapType
    BY <1>1, ReadType
  <2>4. /\ h = [Read(heap, Current.blk) EXCEPT
                    !.live = @ \ ({<<Current.blk>>[x] : x \in DOMAIN <<Current.blk>>} \ {NULL})]
        /\ Read(heap, Current.blk).fault = "none"
    BY <2>2, <2>3, FreeAllSafe
  <2>5. Read(heap, Current.blk) = heap
    BY <1>1, <2>4, ReadSafe
  <2>6. {<<Current.blk>>[x] : x \in DOMAIN <<Current.blk>>} = {Current.blk}
    OBVIOUS
  <2>7. Fr = {Current.blk} \ {NULL}
    BY <1>1 DEF Values, ListOK
  <2> HIDE DEF h, Fr
  <2>8. h = [heap EXCEPT !.live = @ \ Fr]
    BY <2>4, <2>5, <2>6, <2>7
  <2> QED
    BY <1>1, <2>2, <2>8 DEF HeapType
<1>7. heap'.last = heap.last + Len(value) /\ heap'.live = (heap.live \ Fr) \cup F
  <2>1. lost \in Nat /\ 0 \in Nat /\ Len(value) \in Nat /\ heap.last \in Nat
    BY <1>1, <1>2 DEF HeapType
  <2> HIDE DEF h, Fr
  <2>2. /\ heap'.last = h.last + 0 + Len(value)
        /\ heap'.live = (h.live \cup (h.last + 1 .. h.last + (0 + Len(value))))
                            \ (IF lost = 0 THEN {} ELSE {h.last + (0 + lost)})
    BY <1>2, <1>3, <1>4, <2>1, ClonedSafe
  <2>3. \A b \in heap.live : b <= heap.last
    BY <1>1 DEF Memory
  <2> QED
    BY <1>6, <2>1, <2>2, <2>3 DEF Copies
<1>8. new \in Seq(Token) /\ Len(new) = Len(value)
  BY <1>2, <1>3, <1>4, CloneType
<1>9. ListSole(new, Len(new), F) /\ \A b \in F : Listed(new, Len(new), b)
  <2>1. F = Copies(h, value, 0, lost)
    BY <1>6 DEF Copies
  <2> HIDE DEF h, F
  <2> QED
    BY <1>2, <1>3, <1>8, <2>1, CloneSole
<1>10. F \cap heap.live = {} /\ F \subseteq heap.last + 1 .. heap'.last
  BY <1>1, <1>2, <1>7 DEF Memory, HeapType, Copies
<1> HIDE DEF new, F, h
<1>11. Moves(Fr, F, {})
  <2>1. Exclusive /\ NULL \notin heap.live /\ Grows({})
    BY <1>1, <1>5, TableSame DEF Memory, NULL
  <2>2. tokens' = ReplaceTokens(position, 1, new)
    BY <1>4 DEF new
  <2> QED
    BY <1>1, <1>4, <1>7, <1>8, <1>9, <1>10, <2>1, <2>2, ReplaceMoves
<1>12. \A b \in Fr : b # NULL /\ Listed(tokens, count, b)
  BY <1>1, ValuesListed
<1>13. heap'.last \in Nat /\ heap'.last >= heap.last
  BY <1>1, <1>2, <1>7 DEF HeapType
<1> HIDE DEF Fr
<1> QED
  BY <1>1, <1>5, <1>10, <1>11, <1>12, <1>13, MovesMemory

LEMMA LoopFacts ==
    ASSUME Inv, Looping
    PROVE  /\ ListOK /\ heap \in HeapType /\ position \in 0 .. count /\ position + 1 < count
           /\ count > 0 /\ heap.fault = "none" /\ phase = "run" /\ TypeOK /\ Memory
           /\ Exclusive /\ NULL \notin heap.live
           /\ heap.last \in Nat /\ \A b \in heap.live : b <= heap.last
<1>1. /\ ListOK /\ heap \in HeapType /\ position \in 0 .. count /\ position + 1 < count
      /\ count > 0 /\ heap.fault = "none" /\ phase = "run" /\ TypeOK
  BY DEF Inv, TypeOK, ListOK, HeapType, Looping
<1>2. Memory
  BY <1>1 DEF Inv
<1> QED
  BY <1>1, <1>2 DEF Memory, NULL, HeapType

LEMMA ConcatenateMemory ==
    ASSUME Inv, Concatenate, heap'.fault = "none"
    PROVE  Memory'
<1> DEFINE previous == tokens[position]
           h == Read(Read(heap, previous.blk), Current.blk)
           joined == [type |-> "string", text |-> previous.text \o Current.text,
                      blk |-> Fresh(heap, 1)]
           F == {heap.last + 1}
           Fr == Values(position - 1, 2)
           new == <<joined>>
<1>1. Looping /\ Concatenates
  BY DEF Concatenate
<1>2. position \in 1 .. count - 2 /\ position - 1 \in 0 .. count /\ 2 \in 0 .. count - (position - 1)
  BY <1>1, LoopFacts DEF Concatenates, ListOK
<1>3. Current = tokens[position + 1] /\ Current \in Token /\ previous \in Token
  BY <1>1, <1>2, LoopFacts, AtToken DEF Current, ListOK
<1>4. /\ tokens' = [RemoveTokens(position, 1) EXCEPT ![position] = joined]
      /\ heap' = FreeAll(Allocate(h, 1), <<previous.blk, Current.blk>>)
      /\ count' = count - 1
      /\ UNCHANGED <<phase, macroses, included>>
  BY DEF Concatenate
<1>5. new \in Seq(Token) /\ Len(new) = 1 /\ new[1].blk = heap.last + 1
  <2>1. Fresh(heap, 1) = heap.last + 1 /\ heap.last + 1 \in Nat
    BY <1>1, LoopFacts DEF Fresh
  <2>2. previous.text \o Current.text \in Text
    BY <1>3 DEF Token, Text
  <2>3. joined \in Token /\ joined.blk = heap.last + 1
    BY <2>1, <2>2 DEF Token, TokenType
  <2> HIDE DEF joined
  <2> QED
    BY <2>3
<1>6. /\ heap'.last = heap.last + 1
      /\ heap'.live = (heap.live \ Fr) \cup F
  <2>1. heap \in HeapType /\ Read(heap, previous.blk) \in HeapType /\ h \in HeapType
    BY <1>1, LoopFacts, ReadType
  <2>2. Allocate(h, 1) \in HeapType
    BY <2>1, AllocateType
  <2>3. /\ heap' = [Allocate(h, 1) EXCEPT !.live = @ \
                        ({<<previous.blk, Current.blk>>[x] :
                            x \in DOMAIN <<previous.blk, Current.blk>>} \ {NULL})]
        /\ Allocate(h, 1).fault = "none"
    BY <1>4, <2>2, FreeAllSafe
  <2>4. h.fault = "none"
    BY <2>3 DEF Allocate
  <2>5. h = Read(heap, previous.blk) /\ Read(heap, previous.blk).fault = "none"
    BY <2>1, <2>4, ReadSafe
  <2>6. h = heap
    BY <2>1, <2>5, ReadSafe
  <2>7. {<<previous.blk, Current.blk>>[x] : x \in DOMAIN <<previous.blk, Current.blk>>} \ {NULL} = Fr
    <3>1. \A i : i \in position - 1 + 1 .. position - 1 + 2 <=> i = position \/ i = position + 1
      BY <1>2
    <3>2. Fr = {previous.blk, Current.blk} \ {NULL}
      <4> DEFINE X == {tokens[i].blk : i \in position - 1 + 1 .. position - 1 + 2}
      <4>1. \A b : b \in X <=> b = tokens[position].blk \/ b = tokens[position + 1].blk
        BY <3>1
      <4> HIDE DEF X
      <4>2. X = {previous.blk, Current.blk}
        BY <1>3, <4>1
      <4> QED
        BY <4>2 DEF Values, X
    <3>3. {<<previous.blk, Current.blk>>[x] : x \in DOMAIN <<previous.blk, Current.blk>>}
            = {previous.blk, Current.blk}
      OBVIOUS
    <3> QED
      BY <3>2, <3>3
  <2> HIDE DEF Fr, h
  <2>8. heap'.last = Allocate(heap, 1).last /\ heap'.live = Allocate(heap, 1).live \ Fr
    BY <2>2, <2>3, <2>6, <2>7 DEF HeapType
  <2>9. Allocate(heap, 1).last = heap.last + 1 /\ Allocate(heap, 1).live = heap.live \cup F
    BY <1>1, LoopFacts DEF Allocate
  <2>10. heap.last + 1 \notin Fr
    <3>1. \A b \in Fr : b # NULL /\ Listed(tokens, count, b)
      BY <1>1, <1>2, LoopFacts, ValuesListed DEF Fr
    <3>2. \A b \in Fr : b \in heap.live
      BY <1>1, <3>1, LoopFacts DEF Exclusive, ListSole, Listed
    <3> QED
      BY <1>1, <3>2, LoopFacts
  <2> QED
    BY <2>8, <2>9, <2>10
<1>7. \A i \in 1 .. count' : tokens'[i] = ReplaceTokens(position - 1, 2, new)[i]
  <2>1. /\ DOMAIN tokens = 1 .. Len(tokens) /\ Len(tokens) \in Nat /\ count \in 0 .. Len(tokens)
        /\ count' = count - 1
    BY <1>1, <1>4, LoopFacts DEF ListOK
  <2>2. new[1] = joined /\ Len(new) = 1
    BY <1>5
  <2> HIDE DEF joined, new
  <2>3. \A i \in 1 .. count - 1 :
            tokens'[i] = IF i = position THEN joined
                         ELSE IF position < i THEN tokens[i + 1] ELSE tokens[i]
    BY <1>2, <1>4, <2>1 DEF RemoveTokens
  <2>4. \A i \in 1 .. count - 1 :
            ReplaceTokens(position - 1, 2, new)[i]
                = IF i <= position - 1 THEN tokens[i]
                  ELSE IF i <= position - 1 + 1 THEN new[i - (position - 1)]
                  ELSE tokens[i - 1 + 2]
    BY <1>2, <2>1, <2>2 DEF ReplaceTokens
  <2>5. \A i \in 1 .. count - 1 :
            ReplaceTokens(position - 1, 2, new)[i]
                = IF i = position THEN joined
                  ELSE IF position < i THEN tokens[i + 1] ELSE tokens[i]
    BY <1>2, <2>1, <2>2, <2>4
  <2> QED
    BY <2>1, <2>3, <2>5
<1>8. ListSole(new, Len(new), F) /\ \A b \in F : Listed(new, Len(new), b)
  <2> HIDE DEF new
  <2> QED
    BY <1>5 DEF ListSole, Listed
<1>9. F \cap heap.live = {} /\ F \subseteq heap.last + 1 .. heap'.last
  BY <1>1, <1>6, LoopFacts
<1>10. count' = count - 2 + Len(new)
  BY <1>1, <1>4, <1>5, LoopFacts DEF ListOK
<1> HIDE DEF new, F, h, Fr
<1>11. Moves(Fr, F, {})
  <2>1. Grows({})
    BY <1>4, TableSame
  <2>2. heap'.live = (heap.live \ Fr) \cup F \cup {}
    BY <1>6
  <2> QED
    BY <1>1, <1>2, <1>5, <1>7, <1>8, <1>9, <1>10, <2>1, <2>2, LoopFacts, ReplaceMoves DEF Fr
<1>12. \A b \in Fr : b # NULL /\ Listed(tokens, count, b)
  BY <1>1, <1>2, LoopFacts, ValuesListed DEF Fr
<1>13. heap'.last \in Nat /\ heap'.last >= heap.last
  BY <1>1, <1>6, LoopFacts
<1> QED
  BY <1>1, <1>4, <1>9, <1>11, <1>12, <1>13, LoopFacts, MovesMemory

LEMMA DefineMemory ==
    ASSUME Inv, Define, heap'.fault = "none"
    PROVE  Memory'
<1> DEFINE k == DirectiveCount
           name == At(position + 2)
           h == Read(heap, name.blk)
           Fr == Values(position, k)
<1>1. Looping /\ Defines /\ position + 3 <= count
  BY LoopFacts DEF Define, Truncated, ListOK
<1>2. BodyTokens \in Seq(Token) /\ k \in 0 .. count - position
  BY <1>1, LoopFacts, DefineBounds
<1>3. PICK lost \in 0 .. Len(BodyTokens) :
        /\ macroses' = Append(macroses,
                [name |-> name.text, blk |-> Fresh(heap, 1),
                 value |-> Clone(heap, BodyTokens, 1, lost)])
        /\ heap' = FreeAll(Cloned(h, BodyTokens, 1, lost),
                           Blocks(SubSeq(tokens, position + 1, position + k)))
  BY DEF Define
<1>4. /\ tokens' = RemoveTokens(position, k) /\ count' = count - k
      /\ UNCHANGED <<phase, included>>
  BY DEF Define
<1> DEFINE F == Copies(heap, BodyTokens, 1, lost)
           b == heap.last + 1
           G == {b} \cup F
<1>5. heap.last \in Nat /\ Len(BodyTokens) \in Nat /\ lost \in Nat /\ h \in HeapType
      /\ heap \in HeapType
  BY <1>1, <1>2, LoopFacts, ReadType
<1>6. Cloned(h, BodyTokens, 1, lost) \in HeapType
  BY <1>2, <1>5, CloneType
<1>7. {Blocks(SubSeq(tokens, position + 1, position + k))[x] :
            x \in DOMAIN Blocks(SubSeq(tokens, position + 1, position + k))} \ {NULL} = Fr
  BY <1>1, <1>2, LoopFacts, SliceValues
<1> HIDE DEF Fr, k, h
<1>8. /\ heap' = [Cloned(h, BodyTokens, 1, lost) EXCEPT !.live = @ \ Fr]
      /\ Cloned(h, BodyTokens, 1, lost).fault = "none"
  BY ZenonT(40), <1>3, <1>6, <1>7, FreeAllSafe
<1>9. h = heap
  <2>1. h.fault = "none"
    BY <1>2, <1>5, <1>8, ClonedSafe
  <2> QED
    BY <1>5, <2>1, ReadSafe DEF h
<1>10. \A c \in Fr : c # NULL /\ Listed(tokens, count, c) /\ c \in heap.live
  <2>1. \A c \in Fr : c # NULL /\ Listed(tokens, count, c)
    BY <1>1, <1>2, LoopFacts, ValuesListed DEF Fr
  <2> QED
    BY <1>1, <2>1, LoopFacts DEF Exclusive, ListSole, Listed
<1>11. /\ heap'.last = heap.last + 1 + Len(BodyTokens)
       /\ heap'.live = (heap.live \ Fr) \cup G
  <2>1. /\ Cloned(h, BodyTokens, 1, lost).last = heap.last + 1 + Len(BodyTokens)
        /\ Cloned(h, BodyTokens, 1, lost).live =
                (heap.live \cup (heap.last + 1 .. heap.last + (1 + Len(BodyTokens))))
                  \ (IF lost = 0 THEN {} ELSE {heap.last + (1 + lost)})
    <3>1. 1 \in Nat
      OBVIOUS
    <3>2. /\ Cloned(h, BodyTokens, 1, lost).last = h.last + 1 + Len(BodyTokens)
          /\ Cloned(h, BodyTokens, 1, lost).live =
                (h.live \cup (h.last + 1 .. h.last + (1 + Len(BodyTokens))))
                  \ (IF lost = 0 THEN {} ELSE {h.last + (1 + lost)})
      BY <1>2, <1>5, <1>8, <3>1, ClonedSafe
    <3> QED
      BY <1>9, <3>2, Zenon
  <2>2. /\ heap'.last = Cloned(h, BodyTokens, 1, lost).last
        /\ heap'.live = Cloned(h, BodyTokens, 1, lost).live \ Fr
    BY <1>6, <1>8 DEF HeapType
  <2>3. \A c \in heap.live : c \in Nat /\ c <= heap.last
    BY <1>1, <1>5, LoopFacts DEF Memory
  <2>4. (heap.live \cup (heap.last + 1 .. heap.last + (1 + Len(BodyTokens))))
                  \ (IF lost = 0 THEN {} ELSE {heap.last + (1 + lost)}) = heap.live \cup G
    BY <1>5, <2>3 DEF Copies
  <2>5. \A c \in G : c \notin heap.live
    BY <1>5, <2>3 DEF Copies
  <2>6. \A c \in G : c \notin Fr
    BY <1>10, <2>5
  <2> HIDE DEF G
  <2>7. (heap.live \cup G) \ Fr = (heap.live \ Fr) \cup G
    BY <2>6
  <2> QED
    BY <2>1, <2>2, <2>4, <2>7
<1>12. Grows(G)
  <2>1. Clone(heap, BodyTokens, 1, lost) \in Seq(Token)
        /\ Len(Clone(heap, BodyTokens, 1, lost)) = Len(BodyTokens)
    BY <1>2, <1>5, CloneType
  <2>2. /\ ListSole(Clone(heap, BodyTokens, 1, lost), Len(BodyTokens), F)
        /\ \A c \in F : Listed(Clone(heap, BodyTokens, 1, lost), Len(BodyTokens), c)
    BY <1>2, <1>5, CloneSole
  <2>3. b \in Nat /\ b \notin F /\ Fresh(heap, 1) = b
    BY <1>5 DEF Copies, Fresh
  <2>4. included \in Seq(Named) /\ macroses \in Seq(Macros)
    BY DEF Inv, TypeOK
  <2> HIDE DEF F, b
  <2>5. macroses' = Append(macroses, [name |-> name.text, blk |-> b,
                                      value |-> Clone(heap, BodyTokens, 1, lost)])
    BY <1>3, <2>3
  <2> HIDE DEF name
  <2> QED
    BY <1>4, <2>1, <2>2, <2>3, <2>4, <2>5, TableDefine
<1>13. G \subseteq heap.last + 1 .. heap'.last /\ heap'.last \in Nat /\ heap'.last >= heap.last
  BY <1>5, <1>11 DEF Copies
<1> HIDE DEF G
<1>14. Moves(Fr, {}, G)
  BY <1>1, <1>2, <1>4, <1>11, <1>12, LoopFacts, RemoveMoves DEF Fr
<1> QED
  BY <1>1, <1>4, <1>10, <1>13, <1>14, LoopFacts, MovesMemory

\* The tokens of a module own the blocks their lexer was given.
LEMMA LexedSole ==
    ASSUME NEW h \in HeapType, NEW ts \in Seq(Lexeme), NEW k \in Nat
    PROVE  /\ ListSole(Lexed(h, ts, k), Len(ts), h.last + k + 1 .. h.last + k + Len(ts))
           /\ \A b \in h.last + k + 1 .. h.last + k + Len(ts) : Listed(Lexed(h, ts, k), Len(ts), b)
<1> DEFINE new == Lexed(h, ts, k)
           F == h.last + k + 1 .. h.last + k + Len(ts)
<1>1. h.last \in Nat /\ Len(ts) \in Nat
  BY DEF HeapType
<1>2. \A i \in 1 .. Len(ts) : new[i].blk = h.last + k + i
  <2> DEFINE lexed(j) == [type |-> ts[j].type, text |-> ts[j].text, blk |-> Fresh(h, k + j)]
  <2>1. new = [j \in 1 .. Len(ts) |-> lexed(j)]
    BY DEF Lexed
  <2>2. \A j \in 1 .. Len(ts) : lexed(j).blk = h.last + k + j
    BY <1>1 DEF Fresh
  <2> HIDE DEF lexed, new
  <2> QED
    BY <2>1, <2>2
<1> HIDE DEF new
<1>3. \A i \in 1 .. Len(ts) : h.last + k + i \in F
  BY <1>1
<1>4. \A b \in F : b - h.last - k \in 1 .. Len(ts) /\ h.last + k + (b - h.last - k) = b
  BY <1>1
<1> HIDE DEF F
<1>5. ListSole(new, Len(ts), F)
  BY <1>1, <1>2, <1>3 DEF ListSole
<1>6. \A b \in F : Listed(new, Len(ts), b)
  BY <1>2, <1>4 DEF Listed
<1> QED
  BY <1>5, <1>6 DEF new, F

\* What an include reads and gives back.
LEMMA IncludeFacts ==
    ASSUME Inv, Looping, Includes
    PROVE  /\ IncludeCount \in 0 .. count - position
           /\ {IncludeBlocks[x] : x \in DOMAIN IncludeBlocks} \ {NULL} = Values(position, IncludeCount)
           /\ NameRead \in HeapType
           /\ NameRead.fault = "none" => NameRead = heap
           /\ ModuleName \in Text
<1>1. IncludeCount \in 0 .. count - position
  BY LoopFacts, IncludeBounds DEF IncludeCount, ListOK
<1>2. {IncludeBlocks[x] : x \in DOMAIN IncludeBlocks} \ {NULL} = Values(position, IncludeCount)
  BY <1>1, LoopFacts, SliceValues DEF IncludeBlocks
<1>3. NameRead \in HeapType /\ (NameRead.fault = "none" => NameRead = heap)
  BY LoopFacts, ReadType, ReadSafe DEF NameRead
<1>4. ModuleName \in Text
  <2>1. At(position + 3) \in Token
    BY LoopFacts, AtToken DEF ListOK
  <2> QED
    BY <2>1 DEF Token, ModuleName
<1> QED
  BY <1>1, <1>2, <1>3, <1>4

LEMMA IncludeAgainMemory ==
    ASSUME Inv, IncludeAgain, heap'.fault = "none"
    PROVE  Memory'
<1> DEFINE Fr == Values(position, IncludeCount)
<1>1. Looping /\ Includes
  BY DEF IncludeAgain
<1>2. /\ heap' = FreeAll(NameRead, IncludeBlocks)
      /\ tokens' = RemoveTokens(position, IncludeCount)
      /\ count' = count - IncludeCount /\ phase' = "break"
      /\ UNCHANGED <<macroses, included>>
  BY DEF IncludeAgain, Break
<1>3. heap' = [NameRead EXCEPT !.live = @ \ Fr] /\ NameRead.fault = "none"
  BY <1>1, <1>2, IncludeFacts, FreeAllSafe
<1>4. heap' = [heap EXCEPT !.live = @ \ Fr]
  BY <1>1, <1>3, IncludeFacts
<1>5. heap'.live = (heap.live \ Fr) \cup {} /\ heap'.last = heap.last
  BY <1>1, <1>4, LoopFacts DEF HeapType
<1>6. Moves(Fr, {}, {})
  BY <1>1, <1>2, <1>5, LoopFacts, IncludeFacts, TableSame, RemoveMoves
<1>7. \A b \in Fr : b # NULL /\ Listed(tokens, count, b)
  BY <1>1, LoopFacts, IncludeFacts, ValuesListed
<1> HIDE DEF Fr
<1> QED
  BY <1>1, <1>2, <1>5, <1>6, <1>7, LoopFacts, MovesMemory

LEMMA IncludeMemory ==
    ASSUME Inv, Include, heap'.fault = "none"
    PROVE  Memory'
<1> DEFINE Fr == Values(position, IncludeCount)
           ts == Module[Head(ModuleName)]
           new == Lexed(heap, ts, 1)
           F == heap.last + 1 + 1 .. heap.last + 1 + Len(ts)
           b == heap.last + 1
           G == {b}
<1>1. Looping /\ Includes
  BY DEF Include
<1>2. ts \in Seq(Lexeme)
  <2>1. PICK m \in DOMAIN Module : ModuleName = <<m>>
    BY DEF Include, Known
  <2> QED
    BY <2>1, ModuleAssumption
<1>3. /\ tokens' = ReplaceTokens(position, IncludeCount, new)
      /\ heap' = FreeAll(Allocate(NameRead, 1 + Len(ts)), IncludeBlocks)
      /\ count' = count - IncludeCount + Len(ts)
      /\ included' = AddIncluded
      /\ UNCHANGED <<phase, macroses>>
  BY DEF Include
<1> HIDE DEF ts
<1>4. heap.last \in Nat /\ Len(ts) \in Nat /\ heap \in HeapType /\ 1 \in Nat
  BY <1>1, <1>2, LoopFacts
<1>5. new \in Seq(Token) /\ Len(new) = Len(ts)
  BY <1>2, <1>4, LexedType
<1>6. ListSole(new, Len(ts), F) /\ \A c \in F : Listed(new, Len(ts), c)
  BY <1>2, <1>4, LexedSole
<1>7. Grows(G)
  <2>1. included' = Append(included, [name |-> ModuleName, blk |-> b])
    BY <1>3 DEF AddIncluded, Fresh
  <2> HIDE DEF b
  <2>2. included \in Seq(Named) /\ macroses \in Seq(Macros) /\ b \in Nat /\ macroses' = macroses
    BY <1>3, <1>4 DEF Inv, TypeOK, b
  <2> QED
    BY <2>1, <2>2, TableInclude
<1>8. \A c \in Fr : c # NULL /\ Listed(tokens, count, c) /\ c \in heap.live
  <2>1. \A c \in Fr : c # NULL /\ Listed(tokens, count, c)
    BY <1>1, LoopFacts, IncludeFacts, ValuesListed
  <2> QED
    BY <1>1, <2>1, LoopFacts DEF Exclusive, ListSole, Listed
<1>9. heap'.last = heap.last + 1 + Len(ts) /\ heap'.live = (heap.live \ Fr) \cup F \cup G
  <2> HIDE DEF Fr
  <2>1. Allocate(NameRead, 1 + Len(ts)) \in HeapType
    <3>1. 1 + Len(ts) \in Nat
      BY <1>4
    <3> QED
      BY <1>1, <3>1, IncludeFacts, AllocateType
  <2>2. /\ heap' = [Allocate(NameRead, 1 + Len(ts)) EXCEPT !.live = @ \ Fr]
        /\ Allocate(NameRead, 1 + Len(ts)).fault = "none"
    <3> DEFINE A == Allocate(NameRead, 1 + Len(ts))
    <3>1. {IncludeBlocks[x] : x \in DOMAIN IncludeBlocks} \ {NULL} = Fr
      BY <1>1, IncludeFacts DEF Fr
    <3>2. A \in HeapType /\ heap' = FreeAll(A, IncludeBlocks)
      BY <1>3, <2>1
    <3> HIDE DEF A
    <3>3. heap' = [A EXCEPT !.live = @ \ Fr] /\ A.fault = "none"
      BY <3>1, <3>2, FreeAllSafe
    <3> QED
      BY <3>3 DEF A
  <2>3. NameRead = heap
    <3>1. NameRead.fault = "none"
      BY <2>2 DEF Allocate
    <3> QED
      BY <1>1, <3>1, IncludeFacts
  <2>4. /\ heap'.last = Allocate(heap, 1 + Len(ts)).last
        /\ heap'.live = Allocate(heap, 1 + Len(ts)).live \ Fr
    BY <2>1, <2>2, <2>3 DEF HeapType
  <2>5. /\ Allocate(heap, 1 + Len(ts)).last = heap.last + (1 + Len(ts))
        /\ Allocate(heap, 1 + Len(ts)).live = heap.live \cup (heap.last + 1 .. heap.last + (1 + Len(ts)))
    BY DEF Allocate
  <2>6. heap.last + 1 .. heap.last + (1 + Len(ts)) = F \cup G
    BY <1>4
  <2>7. \A c \in F \cup G : c \notin heap.live
    BY <1>1, <1>4, LoopFacts
  <2> HIDE DEF F, G
  <2>8. (heap.live \cup (F \cup G)) \ Fr = (heap.live \ Fr) \cup F \cup G
    BY <1>8, <2>7
  <2>9. heap.last + (1 + Len(ts)) = heap.last + 1 + Len(ts)
    BY <1>4
  <2> QED
    BY <2>4, <2>5, <2>6, <2>8, <2>9
<1>10. /\ F \cup G \subseteq heap.last + 1 .. heap'.last /\ F \cap G = {}
       /\ heap'.last \in Nat /\ heap'.last >= heap.last
  BY <1>4, <1>9
<1>11. F \cap heap.live = {}
  BY <1>1, <1>4, LoopFacts
<1> HIDE DEF F, G, new
<1>12. Moves(Fr, F, G)
  BY <1>1, <1>3, <1>5, <1>6, <1>7, <1>9, <1>11, LoopFacts, IncludeFacts, ReplaceMoves
<1> HIDE DEF Fr
<1> QED
  BY <1>1, <1>3, <1>8, <1>10, <1>12, LoopFacts, MovesMemory

LEMMA IncludeAbandonedMemory ==
    ASSUME Inv, IncludeAbandoned, heap'.fault = "none"
    PROVE  Memory'
<1> DEFINE b == heap.last + 1
<1>1. Looping /\ Includes
  BY DEF IncludeAbandoned
<1>2. /\ included' = AddIncluded /\ phase' = "break"
      /\ UNCHANGED <<tokens, count, macroses>>
  BY DEF IncludeAbandoned, Break
<1>3. PICK f \in {<<Fresh(heap, 1)>>, <<Fresh(heap, 1)>> \o IncludeBlocks} :
        heap' = FreeAll(Allocate(NameRead, 1), f)
  BY DEF IncludeAbandoned
<1>4. Allocate(NameRead, 1) \in HeapType
  BY <1>1, IncludeFacts, AllocateType
<1>5. /\ heap' = [Allocate(NameRead, 1) EXCEPT !.live = @ \ ({f[x] : x \in DOMAIN f} \ {NULL})]
      /\ Allocate(NameRead, 1).fault = "none"
  BY <1>3, <1>4, FreeAllSafe
<1>6. NameRead = heap
  <2>1. NameRead.fault = "none"
    BY <1>5 DEF Allocate
  <2> QED
    BY <1>1, <2>1, IncludeFacts
<1>7. heap'.last = b /\ heap'.live \subseteq heap.live
  <2>1. 1 \in DOMAIN f /\ f[1] = b
    <3>1. IncludeBlocks \in Seq(Nat)
      <4>1. SubSeq(tokens, position + 1, position + IncludeCount) \in Seq(Token)
        BY <1>1, LoopFacts, IncludeFacts DEF ListOK
      <4> DEFINE s == SubSeq(tokens, position + 1, position + IncludeCount)
                 blk(i) == s[i].blk
      <4> HIDE DEF s
      <4>2. \A i \in 1 .. Len(s) : blk(i) \in Nat
        BY <4>1 DEF Token, s
      <4>3. IncludeBlocks = [i \in 1 .. Len(s) |-> blk(i)]
        BY <4>1 DEF IncludeBlocks, Blocks, s
      <4>4. Len(s) \in Nat
        BY <4>1 DEF s
      <4> HIDE DEF blk
      <4> QED
        BY <4>2, <4>3, <4>4
    <3>2. Fresh(heap, 1) = b /\ b \in Nat
      BY <1>1, LoopFacts DEF Fresh
    <3> HIDE DEF b
    <3> QED
      BY <3>1, <3>2
  <2>2. b # NULL
    BY <1>1, LoopFacts DEF NULL
  <2>3. b \in {f[x] : x \in DOMAIN f} \ {NULL}
    BY <2>1, <2>2
  <2>4. heap'.live = Allocate(heap, 1).live \ ({f[x] : x \in DOMAIN f} \ {NULL})
        /\ heap'.last = Allocate(heap, 1).last
    BY <1>4, <1>5, <1>6 DEF HeapType
  <2>5. Allocate(heap, 1).live = heap.live \cup {b} /\ Allocate(heap, 1).last = b
    BY <1>1, LoopFacts DEF Allocate
  <2> QED
    BY <2>3, <2>4, <2>5
<1>8. \A s \in TableSlots : s \in TableSlots' /\ TableBlocks'[s] = TableBlocks[s]
  <2>1. included' = Append(included, [name |-> ModuleName, blk |-> b])
    BY <1>2 DEF AddIncluded, Fresh
  <2>2. included \in Seq(Named) /\ macroses \in Seq(Macros) /\ b \in Nat /\ macroses' = macroses
    BY <1>1, <1>2, LoopFacts DEF TypeOK
  <2> HIDE DEF b
  <2> QED
    BY <2>1, <2>2, TableInclude DEF Grows
<1>9. Covered'
  BY <1>1, <1>2, <1>7, <1>8, LoopFacts DEF Memory, Covered, Listed, Tabled
<1>10. heap'.live \subseteq 1 .. heap'.last
  BY <1>1, <1>7, LoopFacts DEF Memory
<1>11. ~Unspoiled'
  <2>1. failed' = TRUE
    BY DEF IncludeAbandoned, Break
  <2> DEFINE last == [name |-> ModuleName, blk |-> Fresh(heap, 1)]
             n == Len(included) + 1
  <2>2. included' = Append(included, last) /\ included \in Seq(Named) /\ last.name = ModuleName
    BY <1>1, <1>2, LoopFacts DEF AddIncluded, TypeOK
  <2> HIDE DEF last
  <2>3. included' # <<>> /\ n \in DOMAIN included' /\ included'[n] = last
    BY <2>2
  <2>4. CASE Known
    <3>1. MayFail(1)
      BY <2>4 DEF IncludeAbandoned
    <3>2. failures' = failures + 1 /\ failures \in Nat
      BY <3>1, FailuresAssumption DEF MayFail, Inv, TypeOK
    <3>3. failures' > 0
      BY <3>2
    <3> QED
      BY <2>1, <2>3, <3>3 DEF Unspoiled
  <2>5. CASE ~Known
    <3>1. \A m \in DOMAIN Module : included'[n].name # <<m>>
      BY <2>2, <2>3, <2>5 DEF Known
    <3>2. Unknown'
      BY <2>3, <3>1 DEF Unknown
    <3> QED
      BY <2>1, <2>3, <3>2 DEF Unspoiled
  <2> QED
    BY <2>4, <2>5
<1> QED
  BY <1>2, <1>9, <1>10, <1>11 DEF Memory

\* The end: the tables give back what they own, and then the list.
LEMMA FreeTablesMemory ==
    ASSUME Inv, FreeTables, heap'.fault = "none"
    PROVE  Memory'
<1>1. heap \in HeapType /\ heap.fault = "none" /\ Memory /\ UNCHANGED <<tokens, count>>
  BY DEF Inv, TypeOK, HeapType, FreeTables
<1>2. ~Overruns
  <2>1. Raise(heap, "out_of_bounds").fault # "none"
    BY <1>1 DEF Raise, HeapType
  <2> QED
    BY <2>1 DEF FreeTables
<1>3. phase' = "list" /\ heap' = FreeAll(heap, TableBlocks)
  BY <1>2 DEF FreeTables
<1>4. heap' = [heap EXCEPT !.live = @ \ ({TableBlocks[x] : x \in DOMAIN TableBlocks} \ {NULL})]
  BY <1>1, <1>3, FreeAllSafe
<1>5. DOMAIN TableBlocks = TableSlots
  BY DEF TableBlocks
<1>6. /\ heap'.last = heap.last /\ heap'.live \subseteq heap.live
      /\ \A b \in heap'.live : b # NULL => ~Tabled(b)
  BY <1>1, <1>4, <1>5 DEF HeapType, Tabled
<1>7. NULL \notin heap.live
  BY <1>1 DEF Memory, NULL
<1>8. Covered'
  BY <1>1, <1>3, <1>6, <1>7 DEF Memory, Covered, Listed
<1>9. Unspoiled' => ListSole(tokens, count, heap.live)'
  <2> SUFFICES ASSUME Unspoiled' PROVE ListSole(tokens', count', heap'.live)
    OBVIOUS
  <2>1. Unspoiled
    BY DEF FreeTables, Unspoiled, Unknown
  <2>2. Exclusive
    BY <1>1, <1>2, <2>1 DEF Memory, FreeTables, Ends
  <2>3. heap'.live = heap.live \ ({TableBlocks[x] : x \in TableSlots} \ {NULL})
    BY <1>1, <1>4, <1>5 DEF HeapType
  <2>4. \A i \in 1 .. count : tokens[i].blk # NULL => tokens[i].blk \in heap'.live
    BY <2>2, <2>3 DEF Exclusive, ListSole, Apart, Tabled
  <2> QED
    BY <1>1, <2>2, <2>4 DEF Exclusive, ListSole
<1> QED
  BY <1>1, <1>3, <1>6, <1>8, <1>9 DEF Memory

LEMMA DestroyListMemory ==
    ASSUME Inv, DestroyList, heap'.fault = "none"
    PROVE  Memory'
<1>1. /\ heap \in HeapType /\ heap.fault = "none" /\ Memory /\ ListOK
      /\ phase = "list" /\ phase' = "done"
  BY DEF Inv, TypeOK, ListOK, HeapType, DestroyList
<1>2. {Blocks(SubSeq(tokens, 1, count))[x] : x \in DOMAIN Blocks(SubSeq(tokens, 1, count))} \ {NULL}
        = Values(0, count)
  <2>1. 0 \in 0 .. count /\ count \in 0 .. count - 0 /\ 0 + 1 = 1 /\ 0 + count = count
    BY <1>1 DEF ListOK
  <2> QED
    BY <1>1, <2>1, SliceValues
<1>3. heap' = [heap EXCEPT !.live = @ \ Values(0, count)]
  <2> DEFINE f == Blocks(SubSeq(tokens, 1, count))
  <2>1. heap' = FreeAll(heap, f)
    BY DEF DestroyList
  <2>2. {f[x] : x \in DOMAIN f} \ {NULL} = Values(0, count)
    BY <1>2
  <2> HIDE DEF f
  <2> QED
    BY <1>1, <2>1, <2>2, FreeAllSafe
<1>4. heap'.live = heap.live \ Values(0, count)
  BY <1>1, <1>3 DEF HeapType
<1>5. \A b \in heap.live : b \in Values(0, count)
  <2>1. \A b \in heap.live : b # NULL /\ Listed(tokens, count, b)
    BY <1>1 DEF Memory, Covered, NULL
  <2>2. \A i \in 1 .. count : i \in 0 + 1 .. 0 + count
    BY <1>1 DEF ListOK
  <2> QED
    BY <2>1, <2>2 DEF Listed, Values
<1>6. heap'.live = {}
  BY <1>4, <1>5
<1> QED
  BY <1>1, <1>6 DEF Memory, Covered

(***************************************************************************)
(* The theorems.                                                           *)
(***************************************************************************)
LEMMA InitMemory == Init => Inv
<1> SUFFICES ASSUME Init PROVE Inv
  OBVIOUS
<1>1. PICK source \in Source :
        /\ tokens = Lexed(EmptyHeap, source, 0) /\ count = Len(source)
        /\ heap = Allocate(EmptyHeap, Len(source))
        /\ macroses = <<>> /\ included = <<>> /\ phase = "run"
  BY DEF Init
<1>2. source \in Seq(Lexeme) /\ Len(source) \in Nat
  BY SourceAssumption
<1>3. EmptyHeap \in HeapType /\ EmptyHeap.last = 0 /\ EmptyHeap.live = {} /\ 0 \in Nat
  BY DEF EmptyHeap, HeapType, Fault
<1>4. heap.last = Len(source) /\ heap.live = 1 .. Len(source)
  <2>1. heap.last = 0 + Len(source) /\ heap.live = {} \cup (0 + 1 .. 0 + Len(source))
    BY <1>1, <1>3 DEF Allocate
  <2> QED
    BY <1>2, <2>1
<1>5. TableSlots = {}
  BY <1>1 DEF TableSlots
<1>6. /\ ListSole(tokens, count, heap.live)
      /\ \A b \in heap.live : Listed(tokens, count, b)
  <2>1. 0 + 0 + 1 .. 0 + 0 + Len(source) = 1 .. Len(source)
    BY <1>2
  <2>2. /\ ListSole(Lexed(EmptyHeap, source, 0), Len(source),
                    EmptyHeap.last + 0 + 1 .. EmptyHeap.last + 0 + Len(source))
        /\ \A b \in EmptyHeap.last + 0 + 1 .. EmptyHeap.last + 0 + Len(source) :
                Listed(Lexed(EmptyHeap, source, 0), Len(source), b)
    BY <1>2, <1>3, LexedSole
  <2> QED
    BY <1>1, <1>3, <1>4, <2>1, <2>2
<1>7. Exclusive
  BY <1>5, <1>6 DEF Exclusive, TableSole, Apart, Tabled
<1>8. Memory
  BY <1>1, <1>4, <1>6, <1>7 DEF Memory, Covered
<1> QED
  BY <1>8, InitType DEF Inv

LEMMA InvStep == Inv /\ [Next]_vars => Inv'
<1> SUFFICES ASSUME Inv, [Next]_vars PROVE Inv'
  OBVIOUS
<1>1. TypeOK'
  BY Step DEF Inv
<1>2. ASSUME heap'.fault = "none" PROVE Memory'
  <2>1. CASE UNCHANGED vars
    BY <1>2, <2>1, SameMemory DEF vars, Inv
  <2>2. CASE Stopped
    BY <2>1, <2>2 DEF Stopped
  <2> QED
    BY <1>2, <2>1, <2>2, PassMemory, ExpandMemory, ConcatenateMemory, DefineMemory,
       IncludeAgainMemory, IncludeMemory, IncludeAbandonedMemory, FreeTablesMemory,
       DestroyListMemory DEF Next
<1> QED
  BY <1>1, <1>2 DEF Inv

\* The slots of SoleOwner and NoLeak are the list's and the tables'.
LEMMA SlotFacts ==
    ASSUME TypeOK
    PROVE  /\ \A s \in ListSlots : s \notin TableSlots /\ \E i \in 1 .. count : s = <<-1, i>>
           /\ \A i \in 1 .. count : <<-1, i>> \in ListSlots /\ BlockOf(<<-1, i>>) = tokens[i].blk
           /\ \A s \in TableSlots : BlockOf(s) = TableBlocks[s]
<1>1. \A s \in TableSlots : s[1] # -1
  BY DEF TableSlots, TypeOK
<1> QED
  BY <1>1 DEF ListSlots, BlockOf

LEMMA InvSole == Inv => SoleOwner
<1> SUFFICES ASSUME Inv, phase = "run", heap.fault = "none",
                    NEW s \in Slots, BlockOf(s) # NULL
             PROVE  /\ BlockOf(s) \in heap.live
                    /\ \A t \in Slots : BlockOf(t) = BlockOf(s) => t = s
  BY DEF SoleOwner
<1>1. Exclusive /\ TypeOK
  BY DEF Inv, Memory
<1>2. \A t \in Slots : t \in ListSlots \/ t \in TableSlots
  BY DEF Slots
<1>3. CASE s \in ListSlots
  <2>1. PICK i \in 1 .. count : s = <<-1, i>> /\ BlockOf(s) = tokens[i].blk
    BY <1>1, <1>3, SlotFacts
  <2>2. ASSUME NEW t \in ListSlots, BlockOf(t) = BlockOf(s) PROVE t = s
    <3>1. PICK j \in 1 .. count : t = <<-1, j>> /\ BlockOf(t) = tokens[j].blk
      BY <1>1, SlotFacts
    <3>2. j = i
      BY <1>1, <2>1, <2>2, <3>1 DEF Exclusive, ListSole
    <3> QED
      BY <2>1, <3>1, <3>2
  <2>3. \A t \in TableSlots : BlockOf(t) # BlockOf(s)
    BY <1>1, <2>1, SlotFacts DEF Exclusive, Apart, Tabled
  <2> QED
    BY <1>1, <1>2, <2>1, <2>2, <2>3 DEF Exclusive, ListSole
<1>4. CASE s \in TableSlots
  <2>1. \A t \in ListSlots : BlockOf(t) # BlockOf(s)
    <3>1. ASSUME NEW i \in 1 .. count, BlockOf(<<-1, i>>) = BlockOf(s) PROVE FALSE
      <4>1. tokens[i].blk # NULL /\ TableBlocks[s] = tokens[i].blk
        BY <1>1, <1>4, <3>1, SlotFacts
      <4>2. Tabled(tokens[i].blk)
        BY <1>4, <4>1 DEF Tabled
      <4> QED
        BY <1>1, <4>1, <4>2 DEF Exclusive, Apart
    <3> QED
      BY <1>1, <3>1, SlotFacts
  <2> QED
    BY <1>1, <1>2, <1>4, <2>1, SlotFacts DEF Exclusive, TableSole
<1> QED
  BY <1>2, <1>3, <1>4

LEMMA InvNoLeak == Inv => NoLeak
<1> SUFFICES ASSUME Inv, heap.fault = "none", NEW b \in heap.live PROVE b \in Owned
  BY DEF NoLeak
<1>1. Covered /\ TypeOK
  BY DEF Inv, Memory
<1>2. CASE Listed(tokens, count, b) /\ phase # "done"
  <2>1. PICK i \in 1 .. count : tokens[i].blk = b
    BY <1>2 DEF Listed
  <2>2. <<-1, i>> \in Slots /\ BlockOf(<<-1, i>>) = b
    BY <1>1, <1>2, <2>1, SlotFacts DEF Slots
  <2> QED
    BY <2>2 DEF Owned
<1>3. CASE Tabled(b) /\ phase \in {"run", "break"}
  <2>1. PICK s \in TableSlots : TableBlocks[s] = b
    BY <1>3 DEF Tabled
  <2>2. s \in Slots /\ BlockOf(s) = b
    BY <1>1, <1>3, <2>1, SlotFacts DEF Slots
  <2> QED
    BY <2>2 DEF Owned
<1> QED
  BY <1>1, <1>2, <1>3 DEF Covered

\* Every value in the list, in a macro and in a table is live and has one
\* owner, whatever the source, the modules and the allocations that fail: the
\* editing in place moves every token once, and copies what it uses twice.
THEOREM SoleOwnerCorrect == Spec => []SoleOwner
BY InitMemory, InvStep, InvSole, PTL DEF Spec

\* No value is lost, whatever the source, the modules and the allocations that
\* fail: every handler gives back what it allocated, and the end gives back all.
THEOREM NoLeakCorrect == Spec => []NoLeak
BY InitMemory, InvStep, InvNoLeak, PTL DEF Spec

(***************************************************************************)
(* Memory.  A token of the list or of the tables has no value; a heap      *)
(* whose only fault is to have read such a token, and in which X is live.  *)
(***************************************************************************)
Missing == \/ \E i \in 1 .. count : tokens[i].blk = NULL
           \/ \E s \in TableSlots : TableBlocks[s] = NULL

Sound(h, X) ==
    /\ h \in HeapType
    /\ h.fault \in {"none", "null_dereference"}
    /\ h.fault = "null_dereference" => Missing
    /\ h.fault = "none" => X \subseteq h.live /\ \A b \in h.live : b <= h.last

LEMMA SoundRead ==
    ASSUME NEW h, NEW X, Sound(h, X), NEW b, b = NULL => Missing, b # NULL => b \in X
    PROVE  Sound(Read(h, b), X)
<1>1. CASE h.fault # "none"
  <2>1. Read(h, b) = h
    BY <1>1 DEF Read, Raise, Sound, HeapType
  <2> QED
    BY <2>1
<1>2. CASE h.fault = "none" /\ b \in h.live
  BY <1>2 DEF Read
<1>3. CASE h.fault = "none" /\ b \notin h.live
  <2>1. b = NULL /\ Missing
    BY <1>3 DEF Sound
  <2>2. Read(h, b) = [h EXCEPT !.fault = "null_dereference"]
    BY <1>3, <2>1 DEF Read, Raise, Sound, HeapType
  <2>3. Read(h, b) \in HeapType /\ Read(h, b).fault = "null_dereference"
    BY <2>2, ReadType DEF Sound, HeapType
  <2> QED
    BY <2>1, <2>3 DEF Sound
<1> QED
  BY <1>1, <1>2, <1>3

LEMMA SoundAllocate ==
    ASSUME NEW h, NEW X, Sound(h, X), NEW n \in Nat
    PROVE  Sound(Allocate(h, n), X)
<1>1. Allocate(h, n) \in HeapType
  BY AllocateType DEF Sound
<1>2. /\ Allocate(h, n).fault = h.fault /\ Allocate(h, n).last = h.last + n
      /\ Allocate(h, n).live = h.live \cup (h.last + 1 .. h.last + n)
  BY DEF Allocate
<1>3. h.last \in Nat /\ h.live \subseteq Nat
  BY DEF Sound, HeapType
<1> QED
  BY <1>1, <1>2, <1>3 DEF Sound

LEMMA SoundFree ==
    ASSUME NEW h, NEW X, Sound(h, X), NEW f,
           \A x, y \in DOMAIN f : f[x] = f[y] /\ f[x] # NULL => x = y,
           \A x \in DOMAIN f : f[x] # NULL => f[x] \in X
    PROVE  Sound(FreeAll(h, f), X \ {f[x] : x \in DOMAIN f})
<1> DEFINE blocks == {f[x] : x \in DOMAIN f} \ {NULL}
           rest == [h EXCEPT !.live = @ \ blocks]
<1>1. h \in HeapType /\ FreeAll(h, f) \in HeapType
  BY FreeAllType DEF Sound
<1>2. rest \in HeapType /\ rest.fault = h.fault /\ rest.last = h.last /\ rest.live = h.live \ blocks
  BY <1>1 DEF HeapType
<1>3. FreeAll(h, f) \in {rest, Raise(rest, "double_free")}
  BY DEF FreeAll
<1>4. CASE h.fault # "none"
  <2>1. Raise(rest, "double_free").fault = h.fault
    <3> HIDE DEF rest
    <3> QED
      BY <1>2, <1>4 DEF Raise, HeapType
  <2>2. FreeAll(h, f).fault = h.fault
    <3> HIDE DEF rest
    <3> QED
      BY <1>2, <1>3, <2>1
  <2> QED
    BY <1>1, <1>4, <2>2 DEF Sound
<1>5. CASE h.fault = "none"
  <2>1. blocks \subseteq h.live
    BY <1>5 DEF Sound
  <2>2. FreeAll(h, f) = rest
    BY <2>1 DEF FreeAll
  <2>3. \A b \in X \ {f[x] : x \in DOMAIN f} : b \in h.live /\ b \notin blocks
    BY <1>5 DEF Sound
  <2> HIDE DEF rest, blocks
  <2> QED
    BY <1>2, <1>5, <2>2, <2>3 DEF Sound
<1> QED
  BY <1>4, <1>5

LEMMA SoundCloned ==
    ASSUME NEW h, NEW X, Sound(h, X), NEW ts \in Seq(Token), NEW k \in Nat, NEW lost \in Nat,
           \A i \in 1 .. Len(ts) : ts[i].blk = NULL => Missing
    PROVE  Sound(Cloned(h, ts, k, lost), X)
<1> DEFINE new == Allocate(h, k + Len(ts))
           gone == IF lost = 0 THEN {} ELSE {Fresh(h, k + lost)}
<1>1. k + Len(ts) \in Nat
  OBVIOUS
<1>2. Sound(new, X)
  BY <1>1, SoundAllocate
<1>3. Cloned(h, ts, k, lost) = IF \A i \in DOMAIN ts : ts[i].blk # NULL
                               THEN [new EXCEPT !.live = @ \ gone]
                               ELSE Raise(new, "null_dereference")
  BY DEF Cloned
<1>4. new.fault = h.fault
  BY DEF Allocate
<1>5. h.fault = "none" => \A b \in X : b \notin gone
  <2>1. h.last \in Nat
    BY DEF Sound, HeapType
  <2> QED
    BY <2>1 DEF Sound, Fresh, HeapType
<1> HIDE DEF new, gone
<1>6. CASE \A i \in DOMAIN ts : ts[i].blk # NULL
  <2> DEFINE res == [new EXCEPT !.live = @ \ gone]
  <2>1. /\ res \in HeapType /\ res.fault = new.fault /\ res.last = new.last
        /\ res.live = new.live \ gone
    BY <1>2 DEF Sound, HeapType
  <2>2. Cloned(h, ts, k, lost) = res
    BY <1>3, <1>6
  <2> HIDE DEF res
  <2> QED
    BY <1>2, <1>4, <1>5, <2>1, <2>2 DEF Sound
<1>7. CASE ~(\A i \in DOMAIN ts : ts[i].blk # NULL)
  <2>1. Missing
    BY <1>7
  <2>2. Cloned(h, ts, k, lost) = Raise(new, "null_dereference")
    BY <1>3, <1>7
  <2>3. /\ Raise(new, "null_dereference") \in HeapType
        /\ Raise(new, "null_dereference").fault = "null_dereference"
    BY <1>2, RaiseType DEF Raise, Sound, HeapType, Fault
  <2> QED
    BY <2>1, <2>2, <2>3 DEF Sound
<1> QED
  BY <1>6, <1>7

(***************************************************************************)
(* The list of a running preprocessor.                                     *)
(***************************************************************************)
LEMMA SoundStart ==
    ASSUME Inv, Looping
    PROVE  /\ Sound(heap, heap.live)
           /\ \A i \in 1 .. count : /\ tokens[i].blk = NULL => Missing
                                    /\ tokens[i].blk # NULL => tokens[i].blk \in heap.live
           /\ \A i \in Nat : /\ At(i).blk = NULL => Missing
                             /\ At(i).blk # NULL => At(i).blk \in heap.live
<1>1. Sound(heap, heap.live)
  BY LoopFacts DEF Sound
<1>2. \A i \in 1 .. count : /\ tokens[i].blk = NULL => Missing
                            /\ tokens[i].blk # NULL => tokens[i].blk \in heap.live
  BY LoopFacts DEF Missing, Exclusive, ListSole
<1>3. \A i \in Nat : \E j \in 1 .. count : At(i) = tokens[j]
  <2> TAKE i \in Nat
  <2>1. CASE i < count - 1
    <3>1. i + 1 \in 1 .. count /\ At(i) = tokens[i + 1]
      BY <2>1, LoopFacts DEF At, ListOK
    <3> QED
      BY <3>1
  <2>2. CASE ~(i < count - 1)
    <3>1. count \in 1 .. count /\ At(i) = tokens[count]
      BY <2>2, LoopFacts DEF At, ListOK
    <3> QED
      BY <3>1
  <2> QED
    BY <2>1, <2>2
<1> QED
  BY <1>1, <1>2, <1>3

LEMMA CurrentFacts ==
    ASSUME Inv, Looping
    PROVE  /\ Current.blk = NULL => Missing
           /\ Current.blk # NULL => Current.blk \in heap.live
<1>1. position \in Nat
  BY LoopFacts DEF ListOK
<1> QED
  BY <1>1, SoundStart DEF Current

\* The tokens of a directive can be given back.
LEMMA SliceElements ==
    ASSUME ListOK, NEW from \in 0 .. count, NEW n \in 0 .. count - from
    PROVE  LET s == SubSeq(tokens, from + 1, from + n)
           IN  /\ s \in Seq(Token) /\ Len(s) = n /\ DOMAIN s = 1 .. n
               /\ \A i \in 1 .. n : s[i] = tokens[from + i]
<1>1. SubSeq(tokens, from + 1, from + n) \in Seq(Token)
  BY DEF ListOK
<1> QED
  BY <1>1 DEF ListOK

LEMMA SliceFacts ==
    ASSUME ListOK, NEW from \in 0 .. count, NEW n \in 0 .. count - from
    PROVE  LET f == Blocks(SubSeq(tokens, from + 1, from + n))
           IN  /\ f \in Seq(Nat) /\ Len(f) = n
               /\ \A i \in 1 .. n : f[i] = tokens[from + i].blk
<1> DEFINE s == SubSeq(tokens, from + 1, from + n)
           f == Blocks(s)
           blk(i) == s[i].blk
<1>1. /\ s \in Seq(Token) /\ DOMAIN s = 1 .. n /\ Len(s) = n
      /\ \A i \in 1 .. n : s[i] = tokens[from + i]
  BY SliceElements
<1> HIDE DEF s
<1>2. f = [i \in 1 .. n |-> blk(i)]
  BY <1>1 DEF Blocks
<1>3. \A i \in 1 .. n : blk(i) \in Nat /\ blk(i) = tokens[from + i].blk
  <2>1. \A i \in 1 .. n : s[i] \in Token
    BY <1>1
  <2>2. \A i \in 1 .. n : s[i].blk \in Nat /\ s[i].blk = tokens[from + i].blk
    BY <1>1, <2>1 DEF Token
  <2> QED
    BY <2>2
<1>4. n \in Nat
  BY DEF ListOK
<1> HIDE DEF f, blk
<1>5. f \in Seq(Nat) /\ Len(f) = n /\ \A i \in 1 .. n : f[i] = tokens[from + i].blk
  BY <1>2, <1>3, <1>4
<1> QED
  BY <1>5 DEF f, s

\* The values of a sequence can each be given back once.
Once(f) == \A x, y \in DOMAIN f : f[x] = f[y] /\ f[x] # NULL => x = y

LEMMA SliceOnce ==
    ASSUME ListOK, NEW from \in 0 .. count, NEW n \in 0 .. count - from,
           NEW L, ListSole(tokens, count, L)
    PROVE  LET f == Blocks(SubSeq(tokens, from + 1, from + n))
           IN  Once(f) /\ \A x \in DOMAIN f : f[x] # NULL => f[x] \in L
<1> DEFINE f == Blocks(SubSeq(tokens, from + 1, from + n))
<1>1. DOMAIN f = 1 .. n /\ \A i \in 1 .. n : f[i] = tokens[from + i].blk
  BY SliceFacts
<1> HIDE DEF f
<1>2. \A i \in 1 .. n : from + i \in 1 .. count
  BY DEF ListOK
<1>3. \A x, y \in 1 .. n : f[x] = f[y] /\ f[x] # NULL => x = y
  <2> SUFFICES ASSUME NEW x \in 1 .. n, NEW y \in 1 .. n, f[x] = f[y], f[x] # NULL
               PROVE  x = y
    OBVIOUS
  <2>1. from + x = from + y
    BY <1>1, <1>2 DEF ListSole
  <2> QED
    BY <2>1 DEF ListOK
<1>4. \A x \in 1 .. n : f[x] # NULL => f[x] \in L
  BY <1>1, <1>2 DEF ListSole
<1>5. Once(f) /\ \A x \in DOMAIN f : f[x] # NULL => f[x] \in L
  BY <1>1, <1>3, <1>4 DEF Once
<1> QED
  BY <1>5 DEF f

(***************************************************************************)
(* The steps of the loop fault only by reading a missing value.            *)
(***************************************************************************)
Benign(h) == h.fault \in {"none", "null_dereference"}
             /\ (h.fault = "null_dereference" => Missing)

LEMMA SoundBenign == ASSUME NEW h, NEW X, Sound(h, X) PROVE Benign(h)
BY DEF Sound, Benign

LEMMA PassBenign ==
    ASSUME Inv, Skip \/ OtherDirective \/ SyntaxError \/ OutOfMemory
    PROVE  Benign(heap')
<1>1. Looping
  BY DEF Skip, OtherDirective, SyntaxError, OutOfMemory
<1>2. Sound(heap, heap.live)
  BY <1>1, SoundStart
<1>3. CASE Skip
  <2>1. heap' \in {heap, Read(heap, Current.blk)}
    BY <1>3 DEF Skip
  <2>2. Sound(Read(heap, Current.blk), heap.live)
    BY <1>1, <1>2, CurrentFacts, SoundRead
  <2> QED
    BY <1>2, <2>1, <2>2, SoundBenign
<1>4. CASE OtherDirective
  <2>1. position + 1 \in Nat
    BY <1>1, LoopFacts DEF ListOK
  <2>2. Sound(Read(heap, At(position + 1).blk), heap.live)
    BY <1>1, <1>2, <2>1, SoundStart, SoundRead
  <2> QED
    BY <1>4, <2>2, SoundBenign DEF OtherDirective
<1>5. CASE SyntaxError
  BY <1>2, <1>5, SoundBenign DEF SyntaxError
<1>6. CASE OutOfMemory
  <2> DEFINE h == IF Concatenates THEN Read(heap, tokens[position].blk) ELSE heap
  <2>1. Sound(h, heap.live)
    <3>1. CASE Concatenates
      <4>1. position \in 1 .. count
        BY <1>1, <3>1, LoopFacts DEF Concatenates, ListOK
      <4>2. Sound(Read(heap, tokens[position].blk), heap.live)
        BY <1>1, <1>2, <4>1, SoundStart, SoundRead
      <4> QED
        BY <3>1, <4>2
    <3> QED
      BY <1>2, <3>1
  <2>2. position \in Nat /\ position + 2 \in Nat /\ position + 3 \in Nat
    BY <1>1, LoopFacts DEF ListOK
  <2>3. /\ Copied = NULL => Missing
        /\ Copied # NULL => Copied \in heap.live
    BY <1>1, <2>2, SoundStart, CurrentFacts DEF Copied
  <2>4. heap' = Read(h, Copied)
    BY <1>6 DEF OutOfMemory
  <2> HIDE DEF h
  <2>5. Sound(Read(h, Copied), heap.live)
    BY <2>1, <2>3, SoundRead
  <2> QED
    BY <2>4, <2>5, SoundBenign
<1> QED
  BY <1>3, <1>4, <1>5, <1>6

LEMMA ExpandBenign ==
    ASSUME Inv, Expand
    PROVE  Benign(heap')
<1> DEFINE value == macroses[FindMacros(Current.text)].value
           r == Read(heap, Current.blk)
           f == <<Current.blk>>
           h == FreeAll(r, f)
<1>1. Looping
  BY DEF Expand
<1>2. FindMacros(Current.text) \in 1 .. Len(macroses)
  BY FindMacrosType DEF Inv, TypeOK, Expand, Expands
<1>3. value \in Seq(Token)
  <2>1. macroses[FindMacros(Current.text)] \in Macros
    BY <1>2 DEF Inv, TypeOK
  <2> QED
    BY <2>1 DEF Macros
<1>4. \A i \in 1 .. Len(value) : value[i].blk = NULL => Missing
  <2> SUFFICES ASSUME NEW i \in 1 .. Len(value), value[i].blk = NULL PROVE Missing
    OBVIOUS
  <2> DEFINE k == FindMacros(Current.text)
  <2>1. k \in DOMAIN macroses /\ i \in 0 .. Len(macroses[k].value) /\ i # 0 /\ k # 0
    BY <1>2 DEF Inv, TypeOK
  <2> HIDE DEF k
  <2>2. <<k, i>> \in TableSlots
    BY <2>1 DEF TableSlots
  <2>3. TableBlocks[<<k, i>>] = NULL
    BY <2>1, <2>2 DEF TableBlocks, k
  <2> QED
    BY <2>2, <2>3 DEF Missing
<1>5. PICK lost \in 0 .. Len(value) : heap' = Cloned(h, value, 0, lost)
  BY DEF Expand
<1>6. Sound(r, heap.live)
  BY <1>1, SoundStart, CurrentFacts, SoundRead
<1>7. /\ \A x, y \in DOMAIN f : f[x] = f[y] /\ f[x] # NULL => x = y
      /\ \A x \in DOMAIN f : f[x] # NULL => f[x] \in heap.live
  BY <1>1, CurrentFacts
<1> HIDE DEF r, f, value
<1>8. Sound(h, heap.live \ {f[x] : x \in DOMAIN f})
  BY <1>6, <1>7, SoundFree
<1>9. lost \in Nat /\ 0 \in Nat
  BY <1>3
<1> HIDE DEF h
<1>10. Sound(heap', heap.live \ {f[x] : x \in DOMAIN f})
  BY <1>3, <1>4, <1>5, <1>8, <1>9, SoundCloned
<1> QED
  BY <1>10, SoundBenign

LEMMA ConcatenateBenign ==
    ASSUME Inv, Concatenate
    PROVE  Benign(heap')
<1> DEFINE previous == tokens[position]
           h == Read(Read(heap, previous.blk), Current.blk)
           f == <<previous.blk, Current.blk>>
<1>1. Looping /\ Concatenates
  BY DEF Concatenate
<1>2. position \in 1 .. count /\ position + 1 \in 1 .. count /\ Current = tokens[position + 1]
  BY <1>1, LoopFacts, AtToken DEF Concatenates, ListOK, Current
<1>3. Sound(Read(heap, previous.blk), heap.live)
  BY <1>1, <1>2, SoundStart, SoundRead
<1>4. Sound(h, heap.live)
  BY <1>1, <1>3, CurrentFacts, SoundRead
<1>5. Sound(Allocate(h, 1), heap.live)
  BY <1>4, SoundAllocate
<1>6. heap' = FreeAll(Allocate(h, 1), f)
  BY DEF Concatenate
<1>7. DOMAIN f = {1, 2} /\ f[1] = tokens[position].blk /\ f[2] = tokens[position + 1].blk
  BY <1>2
<1> HIDE DEF h, f
<1>8. position # position + 1
  BY <1>2
<1>9. /\ \A x, y \in DOMAIN f : f[x] = f[y] /\ f[x] # NULL => x = y
      /\ \A x \in DOMAIN f : f[x] # NULL => f[x] \in heap.live
  <2>1. ListSole(tokens, count, heap.live)
    BY <1>1, LoopFacts DEF Exclusive
  <2>2. f[1] = f[2] => f[1] = NULL
    BY <1>2, <1>7, <1>8, <2>1 DEF ListSole
  <2>3. (f[1] # NULL => f[1] \in heap.live) /\ (f[2] # NULL => f[2] \in heap.live)
    BY <1>2, <1>7, <2>1 DEF ListSole
  <2> QED
    BY <1>7, <2>2, <2>3
<1>10. Sound(heap', heap.live \ {f[x] : x \in DOMAIN f})
  BY <1>5, <1>6, <1>9, SoundFree
<1> QED
  BY <1>10, SoundBenign

LEMMA DefineBenign ==
    ASSUME Inv, Define
    PROVE  Benign(heap')
<1> DEFINE k == DirectiveCount
           h == Read(heap, At(position + 2).blk)
           f == Blocks(SubSeq(tokens, position + 1, position + k))
<1>1. Looping /\ Defines /\ position + 3 <= count
  BY LoopFacts DEF Define, Truncated, ListOK
<1>2. /\ BodyTokens \in Seq(Token) /\ k \in 0 .. count - position
      /\ position \in Nat /\ count \in Nat
  BY <1>1, LoopFacts, DefineBounds DEF ListOK
<1>3. PICK lost \in 0 .. Len(BodyTokens) : heap' = FreeAll(Cloned(h, BodyTokens, 1, lost), f)
  BY DEF Define
<1>4. Sound(h, heap.live)
  BY <1>1, <1>2, SoundStart, SoundRead
<1>5. \A i \in 1 .. Len(BodyTokens) : BodyTokens[i].blk = NULL => Missing
  <2> SUFFICES ASSUME NEW i \in 1 .. Len(BodyTokens)
               PROVE  BodyTokens[i].blk = NULL => Missing
    OBVIOUS
  <2>0. ~EmptyBody
    <3>1. EmptyBody => BodyTokens = <<>>
      BY DEF BodyTokens
    <3> QED
      BY <3>1
  <2>1. BodyEnd \in position + 3 .. count
    BY <1>1, LoopFacts, BodyEndType
  <2>2. BodyTokens = SubSeq(tokens, position + 4, BodyEnd)
    BY <2>0 DEF BodyTokens
  <2> DEFINE e == BodyEnd
  <2> HIDE DEF e
  <2>3. e \in position + 3 .. count /\ BodyTokens = SubSeq(tokens, position + 4, e)
    BY <2>1, <2>2 DEF e
  <2> DEFINE from == position + 3
             n == e - from
  <2>4. from \in 0 .. count /\ n \in 0 .. count - from /\ from + 1 = position + 4 /\ from + n = e
    BY <1>1, <1>2, <2>3
  <2> HIDE DEF from, n
  <2>5. Len(BodyTokens) = n /\ \A j \in 1 .. n : BodyTokens[j] = tokens[from + j]
    <3>1. BodyTokens = SubSeq(tokens, from + 1, from + n)
      BY <2>3, <2>4, Zenon
    <3>2. ListOK
      BY <1>1, LoopFacts
    <3> QED
      BY <2>4, <3>1, <3>2, SliceElements
  <2>6. from + i \in 1 .. count /\ BodyTokens[i] = tokens[from + i]
    BY <1>2, <2>4, <2>5
  <2> QED
    BY <1>1, <2>6, SoundStart
<1>6. Once(f) /\ \A x \in DOMAIN f : f[x] # NULL => f[x] \in heap.live
  <2>1. position \in 0 .. count /\ ListSole(tokens, count, heap.live) /\ ListOK
    BY <1>1, LoopFacts DEF Exclusive
  <2> HIDE DEF k
  <2> QED
    BY <1>2, <2>1, SliceOnce
<1> HIDE DEF h, f
<1>7. lost \in Nat /\ 1 \in Nat
  BY <1>2
<1>8. Sound(Cloned(h, BodyTokens, 1, lost), heap.live)
  BY <1>2, <1>4, <1>5, <1>7, SoundCloned
<1>9. Sound(heap', heap.live \ {f[x] : x \in DOMAIN f})
  BY <1>3, <1>6, <1>8, SoundFree DEF Once
<1> QED
  BY <1>9, SoundBenign

LEMMA IncludeOnce ==
    ASSUME Inv, Looping, Includes
    PROVE  /\ Sound(NameRead, heap.live) /\ NameRead.last = heap.last
           /\ IncludeBlocks \in Seq(Nat) /\ Once(IncludeBlocks)
           /\ \A x \in DOMAIN IncludeBlocks :
                IncludeBlocks[x] # NULL => IncludeBlocks[x] \in heap.live
<1>1. /\ ListOK /\ position \in 0 .. count /\ IncludeCount \in 0 .. count - position
      /\ ListSole(tokens, count, heap.live) /\ heap \in HeapType /\ heap.last \in Nat
      /\ position + 3 \in Nat
  BY LoopFacts, IncludeFacts DEF Exclusive, ListOK
<1>2. Sound(NameRead, heap.live)
  BY <1>1, SoundStart, SoundRead DEF NameRead
<1>3. NameRead.last = heap.last
  BY <1>1 DEF NameRead, Read, Raise, HeapType
<1>4. IncludeBlocks \in Seq(Nat)
  BY <1>1, SliceFacts DEF IncludeBlocks
<1> QED
  BY <1>1, <1>2, <1>3, <1>4, SliceOnce DEF IncludeBlocks

LEMMA IncludeBenign ==
    ASSUME Inv, IncludeAgain \/ Include
    PROVE  Benign(heap')
<1>1. Looping /\ Includes
  BY DEF IncludeAgain, Include
<1>2. \E h : Sound(h, heap.live) /\ heap' = FreeAll(h, IncludeBlocks)
  <2>1. CASE IncludeAgain
    BY <1>1, <2>1, IncludeOnce DEF IncludeAgain
  <2>2. CASE Include
    <3> DEFINE n == 1 + Len(Module[Head(ModuleName)])
    <3>1. heap' = FreeAll(Allocate(NameRead, n), IncludeBlocks)
      BY <2>2 DEF Include
    <3>2. n \in Nat
      <4>1. \E m \in DOMAIN Module : ModuleName = <<m>>
        BY <2>2 DEF Include, Known
      <4>2. Head(ModuleName) \in DOMAIN Module
        BY <4>1
      <4>3. Module[Head(ModuleName)] \in Seq(Lexeme)
        BY <4>2, ModuleAssumption
      <4> QED
        BY <4>3
    <3> HIDE DEF n
    <3>3. Sound(Allocate(NameRead, n), heap.live)
      BY <1>1, <3>2, IncludeOnce, SoundAllocate
    <3> QED
      BY <3>1, <3>3
  <2> QED
    BY <2>1, <2>2
<1>3. PICK h : Sound(h, heap.live) /\ heap' = FreeAll(h, IncludeBlocks)
  BY <1>2
<1>4. Sound(heap', heap.live \ {IncludeBlocks[x] : x \in DOMAIN IncludeBlocks})
  BY <1>1, <1>3, IncludeOnce, SoundFree DEF Once
<1> QED
  BY <1>4, SoundBenign

LEMMA IncludeAbandonedBenign ==
    ASSUME Inv, IncludeAbandoned
    PROVE  Benign(heap')
<1> DEFINE b == heap.last + 1
           h == Allocate(NameRead, 1)
           X == heap.live \cup {b}
<1>1. Looping /\ Includes
  BY DEF IncludeAbandoned
<1>2. heap.last \in Nat /\ b \in Nat /\ \A c \in heap.live : c # b
  BY <1>1, LoopFacts
<1>3. PICK f \in {<<b>>, <<b>> \o IncludeBlocks} : heap' = FreeAll(h, f)
  BY DEF IncludeAbandoned, Fresh
<1>4. Sound(h, X)
  <2>1. Sound(h, heap.live)
    BY <1>1, IncludeOnce, SoundAllocate
  <2>2. b \in h.live
    BY <1>1, <1>2, IncludeOnce DEF Allocate
  <2> HIDE DEF h, b
  <2> QED
    BY <2>1, <2>2 DEF Sound
<1> HIDE DEF h, b
<1>5. Once(f) /\ \A x \in DOMAIN f : f[x] # NULL => f[x] \in X
  <2>1. CASE f = <<b>>
    BY <2>1 DEF Once
  <2>2. CASE f = <<b>> \o IncludeBlocks
    <3> DEFINE g == IncludeBlocks
               n == Len(g)
    <3>1. /\ g \in Seq(Nat) /\ Once(g)
          /\ \A x \in 1 .. n : g[x] # NULL => g[x] \in heap.live
      BY <1>1, IncludeOnce
    <3> HIDE DEF g
    <3>2. /\ DOMAIN f = 1 .. n + 1 /\ f[1] = b
          /\ \A x \in 2 .. n + 1 : f[x] = g[x - 1]
      BY <1>2, <2>2, <3>1 DEF g
    <3>3. \A x \in 2 .. n + 1 : f[x] # NULL => f[x] \in heap.live
      BY <3>1, <3>2
    <3>4. \A x, y \in 2 .. n + 1 : f[x] = f[y] /\ f[x] # NULL => x = y
      <4> SUFFICES ASSUME NEW x \in 2 .. n + 1, NEW y \in 2 .. n + 1, f[x] = f[y], f[x] # NULL
                   PROVE  x = y
        OBVIOUS
      <4>1. x - 1 \in DOMAIN g /\ y - 1 \in DOMAIN g /\ g[x - 1] = g[y - 1] /\ g[x - 1] # NULL
        BY <3>1, <3>2
      <4>2. x - 1 = y - 1
        BY <3>1, <4>1 DEF Once
      <4> QED
        BY <4>2
    <3>5. \A x \in DOMAIN f : x = 1 \/ x \in 2 .. n + 1
      BY <3>1, <3>2
    <3> HIDE DEF n
    <3> QED
      BY <1>2, <3>2, <3>3, <3>4, <3>5 DEF Once
  <2> QED
    BY <2>1, <2>2
<1> HIDE DEF X
<1>6. Sound(heap', X \ {f[x] : x \in DOMAIN f})
  BY <1>3, <1>4, <1>5, SoundFree DEF Once
<1> QED
  BY <1>6, SoundBenign

(***************************************************************************)
(* The end: a value is given back twice only if the preprocessor has given *)
(* up an include, after a failure or for a module there is not.            *)
(***************************************************************************)
LEMMA FreeFault ==
    ASSUME NEW h, Sound(h, h.live), h.fault = "none", NEW f
    PROVE  /\ FreeAll(h, f).fault \in {"none", "double_free"}
           /\ Once(f) /\ (\A x \in DOMAIN f : f[x] # NULL => f[x] \in h.live)
                => FreeAll(h, f).fault = "none"
<1>1. FreeAll(h, f).fault \in {"none", "double_free"}
  <2> DEFINE rest == [h EXCEPT !.live = @ \ ({f[x] : x \in DOMAIN f} \ {NULL})]
  <2>1. rest \in HeapType /\ rest.fault = "none"
    BY DEF Sound, HeapType
  <2>2. FreeAll(h, f) \in {rest, Raise(rest, "double_free")}
    BY DEF FreeAll
  <2> HIDE DEF rest
  <2>3. Raise(rest, "double_free").fault = "double_free"
    BY <2>1 DEF Raise, HeapType
  <2> QED
    BY <2>1, <2>2, <2>3
<1>2. ASSUME Once(f), \A x \in DOMAIN f : f[x] # NULL => f[x] \in h.live
      PROVE  FreeAll(h, f).fault = "none"
  <2>1. Sound(FreeAll(h, f), h.live \ {f[x] : x \in DOMAIN f})
    BY <1>2, SoundFree DEF Once
  <2> QED
    BY <1>1, <2>1 DEF Sound
<1> QED
  BY <1>1, <1>2

LEMMA FreeTablesFault ==
    ASSUME Inv, FreeTables
    PROVE  FaultsExplained'
<1>1. /\ heap \in HeapType /\ heap.fault = "none" /\ Memory
      /\ UNCHANGED <<failed, included, failures>>
  BY DEF Inv, TypeOK, HeapType, FreeTables
<1>2. Sound(heap, heap.live)
  BY <1>1 DEF Sound, Memory, HeapType
<1>3. CASE Overruns
  <2>1. heap' = Raise(heap, "out_of_bounds")
    BY <1>3 DEF FreeTables
  <2>2. heap'.fault = "out_of_bounds"
    BY <1>1, <2>1 DEF Raise, HeapType
  <2>3. UNCHANGED <<phase, tokens, count, position>>
    BY <1>3 DEF FreeTables
  <2>4. phase' = "run" /\ (count' = 0 \/ Truncated')
    <3>1. Truncated' <=> Truncated
      BY <2>3 DEF Truncated, Defines, Directive, Current, At
    <3> QED
      BY <1>3, <2>3, <3>1 DEF Overruns
  <2> QED
    BY <2>2, <2>4 DEF FaultsExplained
<1>4. CASE ~Overruns
  <2>1. heap' = FreeAll(heap, TableBlocks) /\ phase' = "list"
    BY <1>4 DEF FreeTables
  <2>2. heap'.fault \in {"none", "double_free"}
    BY <1>1, <1>2, <2>1, FreeFault
  <2>3. Unspoiled => heap'.fault = "none"
    <3> SUFFICES ASSUME Unspoiled PROVE heap'.fault = "none"
      OBVIOUS
    <3>1. Exclusive
      BY <1>1, <1>4 DEF Memory, FreeTables, Ends
    <3>2. DOMAIN TableBlocks = TableSlots
      BY DEF TableBlocks
    <3>3. Once(TableBlocks)
          /\ \A x \in DOMAIN TableBlocks : TableBlocks[x] # NULL => TableBlocks[x] \in heap.live
      BY <3>1, <3>2 DEF Exclusive, TableSole, Once
    <3> QED
      BY <1>1, <1>2, <2>1, <3>3, FreeFault
  <2> QED
    BY <1>1, <2>1, <2>2, <2>3 DEF FaultsExplained, Unspoiled, Unknown
<1> QED
  BY <1>3, <1>4

LEMMA DestroyListFault ==
    ASSUME Inv, DestroyList
    PROVE  FaultsExplained'
<1> DEFINE f == Blocks(SubSeq(tokens, 1, count))
<1>1. /\ heap \in HeapType /\ heap.fault = "none" /\ Memory /\ ListOK
      /\ phase = "list" /\ phase' = "done" /\ UNCHANGED <<failed, included, failures>>
      /\ heap' = FreeAll(heap, f)
  BY DEF Inv, TypeOK, ListOK, HeapType, DestroyList
<1>2. Sound(heap, heap.live)
  BY <1>1 DEF Sound, Memory, HeapType
<1>3. Unspoiled => Once(f) /\ \A x \in DOMAIN f : f[x] # NULL => f[x] \in heap.live
  <2> SUFFICES ASSUME Unspoiled
               PROVE  Once(f) /\ \A x \in DOMAIN f : f[x] # NULL => f[x] \in heap.live
    OBVIOUS
  <2>1. ListSole(tokens, count, heap.live)
    BY <1>1 DEF Memory
  <2>2. 0 \in 0 .. count /\ count \in 0 .. count - 0 /\ 0 + 1 = 1 /\ 0 + count = count
    BY <1>1 DEF ListOK
  <2> QED
    BY <1>1, <2>1, <2>2, SliceOnce
<1> HIDE DEF f
<1>4. heap'.fault \in {"none", "double_free"} /\ (Unspoiled => heap'.fault = "none")
  BY <1>1, <1>2, <1>3, FreeFault
<1> QED
  BY <1>1, <1>4 DEF FaultsExplained, Unspoiled, Unknown

(***************************************************************************)
(* Nothing is missing as long as no allocation has failed.                 *)
(***************************************************************************)
NoneMissing(ts, n) == \A i \in 1 .. n : ts[i].blk # NULL

Whole ==
    /\ NoneMissing(tokens, count)
    /\ \A i \in DOMAIN included : included[i].blk # NULL
    /\ \A i \in DOMAIN macroses :
        macroses[i].blk # NULL /\ NoneMissing(macroses[i].value, Len(macroses[i].value))

LEMMA WholeMissing ==
    ASSUME TypeOK, Whole
    PROVE  ~Missing
<1> SUFFICES ASSUME NEW s \in TableSlots PROVE TableBlocks[s] # NULL
  BY DEF Missing, Whole, NoneMissing
<1>1. CASE s \in {0} \X DOMAIN included
  <2>1. s[1] = 0 /\ s[2] \in DOMAIN included
    BY <1>1
  <2> QED
    BY <2>1 DEF TableBlocks, Whole
<1>2. CASE s \in UNION {{i} \X (0 .. Len(macroses[i].value)) : i \in DOMAIN macroses}
  <2>1. PICK i \in DOMAIN macroses : s \in {i} \X (0 .. Len(macroses[i].value))
    BY <1>2
  <2>2. s[1] = i /\ s[2] \in 0 .. Len(macroses[i].value)
    BY <2>1
  <2>3. i # 0
    BY <2>1 DEF TypeOK
  <2>4. TableBlocks[s] = IF s[2] = 0 THEN macroses[i].blk ELSE macroses[i].value[s[2]].blk
    BY <2>2, <2>3 DEF TableBlocks
  <2>5. s[2] # 0 => s[2] \in 1 .. Len(macroses[i].value)
    BY <2>2
  <2> QED
    BY <2>1, <2>4, <2>5 DEF Whole, NoneMissing
<1> QED
  BY <1>1, <1>2 DEF TableSlots

LEMMA CloneWhole ==
    ASSUME NEW h \in HeapType, NEW ts \in Seq(Token), NEW k \in Nat
    PROVE  NoneMissing(Clone(h, ts, k, 0), Len(ts))
<1> SUFFICES ASSUME NEW i \in 1 .. Len(ts) PROVE Clone(h, ts, k, 0)[i].blk # NULL
  BY DEF NoneMissing
<1> DEFINE copy(j) == [ts[j] EXCEPT !.blk = IF j = 0 THEN NULL ELSE Fresh(h, k + j)]
<1>1. Clone(h, ts, k, 0) = [j \in 1 .. Len(ts) |-> copy(j)]
  BY DEF Clone
<1> HIDE DEF copy
<1>2. Clone(h, ts, k, 0)[i] = copy(i)
  BY <1>1
<1>3. ts[i] \in Token
  OBVIOUS
<1>4. copy(i).blk = Fresh(h, k + i)
  BY <1>3 DEF copy, Token
<1>5. Fresh(h, k + i) > 0
  BY DEF Fresh, HeapType
<1> QED
  BY <1>2, <1>4, <1>5 DEF NULL

LEMMA LexedWhole ==
    ASSUME NEW h \in HeapType, NEW ts \in Seq(Lexeme), NEW k \in Nat
    PROVE  NoneMissing(Lexed(h, ts, k), Len(ts))
<1> SUFFICES ASSUME NEW i \in 1 .. Len(ts) PROVE Lexed(h, ts, k)[i].blk # NULL
  BY DEF NoneMissing
<1>1. Lexed(h, ts, k)[i].blk = Fresh(h, k + i)
  BY DEF Lexed
<1>2. Fresh(h, k + i) > 0
  BY DEF Fresh, HeapType
<1> QED
  BY <1>1, <1>2 DEF NULL

LEMMA RemoveWhole ==
    ASSUME ListOK, NEW from \in 0 .. count, NEW n \in 0 .. count - from,
           NoneMissing(tokens, count)
    PROVE  NoneMissing(RemoveTokens(from, n), count - n)
<1> SUFFICES ASSUME NEW i \in 1 .. count - n PROVE RemoveTokens(from, n)[i].blk # NULL
  BY DEF NoneMissing
<1>1. i \in DOMAIN tokens /\ i + n \in 1 .. count /\ i \in 1 .. count
  BY DEF ListOK
<1>2. RemoveTokens(from, n)[i] \in {tokens[i], tokens[i + n]}
  BY <1>1 DEF RemoveTokens
<1> QED
  BY <1>1, <1>2 DEF NoneMissing

LEMMA ReplaceWhole ==
    ASSUME ListOK, NEW from \in 0 .. count, NEW n \in 0 .. count - from,
           NEW new \in Seq(Token), NoneMissing(tokens, count), NoneMissing(new, Len(new))
    PROVE  NoneMissing(ReplaceTokens(from, n, new), count - n + Len(new))
<1> SUFFICES ASSUME NEW i \in 1 .. count - n + Len(new)
             PROVE  ReplaceTokens(from, n, new)[i].blk # NULL
  BY DEF NoneMissing
<1>1. ReplaceTokens(from, n, new)[i] =
            IF i <= from THEN tokens[i]
            ELSE IF i <= from + Len(new) THEN new[i - from]
            ELSE tokens[i - Len(new) + n]
  BY DEF ReplaceTokens
<1>2. Len(new) \in Nat /\ count \in Nat /\ from \in Nat /\ n \in Nat /\ i \in Nat
  BY DEF ListOK
<1>3. CASE i <= from
  BY <1>1, <1>2, <1>3 DEF NoneMissing
<1>4. CASE i > from /\ i <= from + Len(new)
  <2>1. i - from \in 1 .. Len(new) /\ ReplaceTokens(from, n, new)[i] = new[i - from]
    BY <1>1, <1>2, <1>4
  <2> QED
    BY <2>1 DEF NoneMissing
<1>5. CASE i > from + Len(new)
  <2>1. /\ i - Len(new) + n \in 1 .. count
        /\ ReplaceTokens(from, n, new)[i] = tokens[i - Len(new) + n]
    BY <1>1, <1>2, <1>5
  <2> QED
    BY <2>1 DEF NoneMissing
<1> QED
  BY <1>2, <1>3, <1>4, <1>5

LEMMA MayFailWhole ==
    ASSUME TypeOK, NEW n \in Nat, MayFail(n), failures' = 0
    PROVE  n = 0
BY FailuresAssumption DEF TypeOK, MayFail

LEMMA ExpandWhole ==
    ASSUME Inv, Whole, Expand, failures' = 0
    PROVE  Whole'
<1> DEFINE value == macroses[FindMacros(Current.text)].value
           h == FreeAll(Read(heap, Current.blk), <<Current.blk>>)
           new == Clone(h, value, 0, 0)
<1>1. Looping
  BY DEF Expand
<1>2. value \in Seq(Token) /\ Len(value) \in Nat
  <2>1. FindMacros(Current.text) \in 1 .. Len(macroses)
    BY FindMacrosType DEF Inv, TypeOK, Expand, Expands
  <2>2. macroses[FindMacros(Current.text)] \in Macros
    BY <2>1 DEF Inv, TypeOK
  <2> QED
    BY <2>2 DEF Macros
<1>3. h \in HeapType
  BY <1>1, LoopFacts, ReadType, FreeAllType
<1> HIDE DEF h, value
<1>4. tokens' = ReplaceTokens(position, 1, new) /\ count' = count - 1 + Len(value)
  <2>1. PICK lost \in 0 .. Len(value) :
            /\ MayFail(lost) /\ tokens' = ReplaceTokens(position, 1, Clone(h, value, 0, lost))
            /\ count' = count - 1 + Len(value)
    BY DEF Expand, h, value
  <2>2. lost = 0
    BY <1>2, <2>1, MayFailWhole DEF Inv
  <2> QED
    BY <2>1, <2>2
<1>5. new \in Seq(Token) /\ Len(new) = Len(value) /\ NoneMissing(new, Len(new))
  BY <1>2, <1>3, CloneType, CloneWhole
<1> HIDE DEF new
<1>6. NoneMissing(tokens', count')
  <2>1. position \in 0 .. count /\ 1 \in 0 .. count - position /\ ListOK
    BY <1>1, LoopFacts DEF ListOK
  <2> QED
    BY <1>4, <1>5, <2>1, ReplaceWhole DEF Whole
<1>7. UNCHANGED <<macroses, included>>
  BY DEF Expand
<1> QED
  BY <1>6, <1>7 DEF Whole

LEMMA ConcatenateWhole ==
    ASSUME Inv, Whole, Concatenate
    PROVE  Whole'
<1> DEFINE rest == RemoveTokens(position, 1)
           joined == [type |-> "string", text |-> tokens[position].text \o Current.text,
                      blk |-> Fresh(heap, 1)]
<1>1. Looping /\ position \in 0 .. count /\ 1 \in 0 .. count - position /\ ListOK
      /\ UNCHANGED <<macroses, included>> /\ count' = count - 1
  BY LoopFacts DEF Concatenate, ListOK
<1>2. NoneMissing(rest, count - 1)
  BY <1>1, RemoveWhole DEF Whole
<1>3. rest \in Seq(Token) /\ Len(rest) = Len(tokens)
  BY <1>1, RemoveType
<1>4. tokens' = [rest EXCEPT ![position] = joined] /\ joined.blk = Fresh(heap, 1)
  BY DEF Concatenate
<1> HIDE DEF rest, joined
<1>5. Fresh(heap, 1) > 0
  BY <1>1, LoopFacts DEF Fresh
<1>6. \A i \in 1 .. count - 1 : i \in DOMAIN rest
  BY <1>1, <1>3 DEF ListOK
<1>7. \A i \in 1 .. count - 1 : tokens'[i] \in {rest[i], joined}
  BY <1>4, <1>6
<1>8. NoneMissing(tokens', count')
  BY <1>1, <1>2, <1>4, <1>5, <1>7 DEF NoneMissing, NULL
<1> QED
  BY <1>1, <1>8 DEF Whole

LEMMA DefineWhole ==
    ASSUME Inv, Whole, Define, failures' = 0
    PROVE  Whole'
<1> DEFINE k == DirectiveCount
           new == Clone(heap, BodyTokens, 1, 0)
<1>1. Looping /\ Defines /\ position + 3 <= count
  BY LoopFacts DEF Define, Truncated, ListOK
<1>2. BodyTokens \in Seq(Token) /\ k \in 0 .. count - position /\ ListOK /\ heap \in HeapType
      /\ position \in 0 .. count
  BY <1>1, LoopFacts, DefineBounds
<1> HIDE DEF k
<1>3. tokens' = RemoveTokens(position, k) /\ count' = count - k /\ included' = included
  BY DEF Define, k
<1>4. PICK x : macroses' = Append(macroses, [name |-> x, blk |-> Fresh(heap, 1), value |-> new])
  <2>1. PICK lost \in 0 .. Len(BodyTokens) :
            /\ MayFail(lost)
            /\ macroses' = Append(macroses,
                    [name |-> At(position + 2).text, blk |-> Fresh(heap, 1),
                     value |-> Clone(heap, BodyTokens, 1, lost)])
    BY DEF Define
  <2>2. lost \in Nat
    BY <1>2
  <2>3. lost = 0
    BY <2>1, <2>2, MayFailWhole DEF Inv
  <2> QED
    BY <2>1, <2>3
<1>5. NoneMissing(new, Len(new))
  <2>1. 1 \in Nat /\ 0 \in Nat
    OBVIOUS
  <2> QED
    BY <1>2, <2>1, CloneType, CloneWhole
<1>6. Fresh(heap, 1) # NULL
  BY <1>1, LoopFacts DEF Fresh, NULL
<1>7. NoneMissing(tokens', count')
  BY <1>2, <1>3, RemoveWhole DEF Whole
<1> HIDE DEF new
<1>8. \A i \in DOMAIN macroses' :
        macroses'[i].blk # NULL /\ NoneMissing(macroses'[i].value, Len(macroses'[i].value))
  <2> DEFINE last == [name |-> x, blk |-> Fresh(heap, 1), value |-> new]
  <2>1. last.blk = Fresh(heap, 1) /\ last.value = new
    OBVIOUS
  <2>2. macroses \in Seq(Macros)
    BY DEF Inv, TypeOK
  <2>3. macroses' = Append(macroses, last)
    BY <1>4
  <2> HIDE DEF last
  <2>4. \A i \in DOMAIN macroses' : macroses'[i] = last \/ (i \in DOMAIN macroses /\ macroses'[i] = macroses[i])
    BY <2>2, <2>3
  <2> QED
    BY <1>5, <1>6, <2>1, <2>4 DEF Whole
<1> QED
  BY <1>3, <1>7, <1>8 DEF Whole

LEMMA IncludeWhole ==
    ASSUME Inv, Whole, Include
    PROVE  Whole'
<1> DEFINE ts == Module[Head(ModuleName)]
           new == Lexed(heap, ts, 1)
<1>1. Looping /\ Includes /\ Known
  BY DEF Include
<1>2. /\ ListOK /\ heap \in HeapType /\ position \in 0 .. count
      /\ IncludeCount \in 0 .. count - position
  BY <1>1, LoopFacts, IncludeFacts
<1>3. ts \in Seq(Lexeme)
  <2>1. Head(ModuleName) \in DOMAIN Module
    BY <1>1 DEF Known
  <2> QED
    BY <2>1, ModuleAssumption
<1>4. /\ tokens' = ReplaceTokens(position, IncludeCount, new)
      /\ count' = count - IncludeCount + Len(ts)
      /\ included' = AddIncluded /\ UNCHANGED macroses
  BY DEF Include
<1> HIDE DEF ts
<1>5. new \in Seq(Token) /\ Len(new) = Len(ts) /\ NoneMissing(new, Len(new))
  <2>1. 1 \in Nat
    OBVIOUS
  <2> QED
    BY <1>2, <1>3, <2>1, LexedType, LexedWhole
<1> HIDE DEF new
<1>6. NoneMissing(tokens', count')
  BY <1>2, <1>4, <1>5, ReplaceWhole DEF Whole
<1>7. \A i \in DOMAIN included' : included'[i].blk # NULL
  <2> DEFINE last == [name |-> ModuleName, blk |-> Fresh(heap, 1)]
  <2>1. last.blk # NULL
    BY <1>1, LoopFacts DEF Fresh, NULL
  <2>2. included \in Seq(Named) /\ included' = Append(included, last)
    BY <1>4 DEF AddIncluded, Inv, TypeOK
  <2> HIDE DEF last
  <2>3. \A i \in DOMAIN included' : included'[i] = last \/ (i \in DOMAIN included /\ included'[i] = included[i])
    BY <2>2
  <2> QED
    BY <2>1, <2>3 DEF Whole
<1> QED
  BY <1>4, <1>6, <1>7 DEF Whole

(***************************************************************************)
(* The invariant and the theorem.                                          *)
(***************************************************************************)
FaultInv ==
    /\ Inv
    /\ FaultsExplained
    /\ phase = "run" /\ heap.fault = "none" /\ failures = 0 => Whole

LEMMA InitFault == Init => FaultInv
<1> SUFFICES ASSUME Init PROVE FaultInv
  OBVIOUS
<1>1. PICK source \in Source :
        /\ tokens = Lexed(EmptyHeap, source, 0) /\ count = Len(source)
        /\ heap = Allocate(EmptyHeap, Len(source))
        /\ macroses = <<>> /\ included = <<>>
  BY DEF Init
<1>2. source \in Seq(Lexeme) /\ EmptyHeap \in HeapType /\ 0 \in Nat
  BY SourceAssumption DEF EmptyHeap, HeapType, Fault
<1>3. NoneMissing(tokens, count)
  BY <1>1, <1>2, LexedWhole
<1>4. heap.fault = "none"
  BY <1>1 DEF Allocate, EmptyHeap
<1> QED
  BY <1>1, <1>3, <1>4, InitMemory DEF FaultInv, FaultsExplained, Whole

\* A step of the loop reads a missing value only after a failed allocation.
LEMMA LoopFault ==
    ASSUME FaultInv, Looping, Benign(heap'), failures' \in Nat, failures' >= failures
    PROVE  FaultsExplained'
<1>1. Missing => failures # 0
  <2>1. failures = 0 => Whole
    BY DEF FaultInv, Looping
  <2> QED
    BY <2>1, WholeMissing DEF FaultInv, Inv
<1>2. failures \in Nat
  BY FailuresAssumption DEF FaultInv, Inv, TypeOK
<1> QED
  BY <1>1, <1>2 DEF FaultsExplained, Benign

LEMMA FaultStep == FaultInv /\ [Next]_vars => FaultInv'
<1> SUFFICES ASSUME FaultInv, [Next]_vars PROVE FaultInv'
  OBVIOUS
<1>1. Inv /\ Inv'
  BY InvStep DEF FaultInv
<1> DEFINE Passes == Skip \/ OtherDirective \/ SyntaxError \/ OutOfMemory
           Edits == Expand \/ Concatenate \/ Define \/ IncludeAgain \/ Include \/ IncludeAbandoned
<1>2. \/ UNCHANGED vars \/ Passes \/ Edits \/ FreeTables \/ DestroyList
  BY DEF Next, Stopped
<1>3. CASE UNCHANGED vars
  BY <1>1, <1>3 DEF vars, FaultInv, FaultsExplained, Unknown, Truncated, Defines, Directive,
                    Current, At, Whole, NoneMissing
<1>4. CASE Passes \/ Edits
  <2>1. Looping
    BY <1>4 DEF Skip, OtherDirective, SyntaxError, OutOfMemory, Expand, Concatenate, Define,
                IncludeAgain, Include, IncludeAbandoned
  <2>2. failures' = failures \/ \E n : MayFail(n)
    BY <1>4 DEF Skip, OtherDirective, SyntaxError, OutOfMemory, Expand, Concatenate, Define,
                IncludeAgain, Include, IncludeAbandoned
  <2>3. failures \in Nat /\ failures' \in Nat /\ failures' >= failures
    BY <1>1, <2>2, FailuresAssumption DEF MayFail, Inv, TypeOK
  <2>4. Benign(heap')
    BY <1>1, <1>4, PassBenign, ExpandBenign, ConcatenateBenign, DefineBenign, IncludeBenign,
       IncludeAbandonedBenign
  <2>5. FaultsExplained'
    BY <2>1, <2>3, <2>4, LoopFault
  <2>6. phase' = "run" /\ failures' = 0 => Whole'
    <3> SUFFICES ASSUME phase' = "run", failures' = 0 PROVE Whole'
      OBVIOUS
    <3>1. Whole
      BY <2>1, <2>3 DEF FaultInv, Looping
    <3>2. CASE Skip \/ OtherDirective
      BY <3>1, <3>2 DEF Skip, OtherDirective, Whole, NoneMissing
    <3>3. CASE SyntaxError \/ OutOfMemory \/ IncludeAgain \/ IncludeAbandoned
      BY <3>3 DEF SyntaxError, OutOfMemory, IncludeAgain, IncludeAbandoned, Break
    <3> QED
      BY <1>1, <1>4, <3>1, <3>2, <3>3, ExpandWhole, ConcatenateWhole, DefineWhole, IncludeWhole
  <2> QED
    BY <1>1, <2>5, <2>6 DEF FaultInv
<1>5. CASE FreeTables
  <2>1. FaultsExplained'
    BY <1>1, <1>5, FreeTablesFault
  <2>2. UNCHANGED <<tokens, count, macroses, included, failures>> /\ heap.fault = "none"
        /\ (phase' = "run" => phase = "run")
    BY <1>5 DEF FreeTables
  <2> QED
    BY <1>1, <2>1, <2>2 DEF FaultInv, Whole, NoneMissing
<1>6. CASE DestroyList
  <2>1. FaultsExplained' /\ phase' # "run"
    BY <1>1, <1>6, DestroyListFault DEF DestroyList
  <2> QED
    BY <1>1, <2>1 DEF FaultInv
<1> QED
  BY <1>2, <1>3, <1>4, <1>5, <1>6

\* Whatever allocation fails, what has been freed is not read; a value that is
\* missing is read only after a failed allocation, a value is freed twice only
\* by the destruction of the tables and the list, after an include that failed
\* or named no module (source/cwr_preprocessor.c:196 and 221), and the loop
\* leaves the list only when it is empty or ends in the word `define'.
THEOREM FaultsCorrect == Spec => []FaultsExplained
<1>1. FaultInv => FaultsExplained
  BY DEF FaultInv
<1> QED
  BY <1>1, InitFault, FaultStep, PTL DEF Spec

\* Without a failed allocation nothing undefined happens, from the first token
\* to the driver's destruction of the list, whatever errors the source has
\* (tests/main.c:54-60): unless it includes a module there is not, or the list
\* is empty or ends in the word `define'.
THEOREM SafeCorrect == Spec => [](Sensible => SafeInMemory)
<1>1. FaultInv => (Sensible => SafeInMemory)
  <2> SUFFICES ASSUME FaultInv, Sensible, failures = 0
               PROVE  heap.fault = "none"
    BY DEF SafeInMemory
  <2>1. heap.fault \in Fault
    BY DEF FaultInv, Inv, TypeOK
  <2> QED
    BY <2>1 DEF FaultInv, FaultsExplained, Sensible, Fault
<1> QED
  BY <1>1, InitFault, FaultStep, PTL DEF Spec
=============================================================================
