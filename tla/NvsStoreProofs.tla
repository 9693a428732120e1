---------------------------- MODULE NvsStoreProofs ----------------------------
(***************************************************************************)
(* The settings store for every number of pages, every page size and every *)
(* set of settings: how the flash is used, that a key has one value, and   *)
(* that it is the one set last, wherever the power went.                   *)
(***************************************************************************)
EXTENDS NvsStore, WellFoundedInduction, FiniteSetTheorems, SequenceTheorems,
        TLAPS

ForeignKeys == {Foreign(i, j) : i \in 1 .. PageCount, j \in 1 .. ENTRY_COUNT}
Types == Range(GetOrder)
ItemSet == [key : AllKeys, type : Types \cup {"none"},
            value : Values \cup {None, 1}, state : {"half", "written", "erased"}]
PageSet == [state : {"active", "full", "freeing"}, items : Seq(ItemSet)]

\* Calls of the program, and what there is before one can be made.
Calls == {"idle", "write", "replace", "erase", "erased", "eraseAll", "refuse"}
Places == {"off", "load", "last", "recover", "loaded", "format", "copy"} \cup Calls

NvsTypes ==
    /\ log \in Seq(PageSet)
    /\ fresh \in BOOLEAN /\ old \in BOOLEAN /\ handle \in BOOLEAN
    /\ op \in [key : AllKeys, type : Types \cup {"none"},
               value : Values \cup {None, 1}]
    /\ readEntryIndex \in Nat
    /\ pc \in Places
-----------------------------------------------------------------------------
(* How the pages are used, whatever the types of the settings are.         *)
SomeFreeing == \E p \in DOMAIN log : log[p].state = "freeing"

Half(p, i) == log[p].items[i].state = "half"
SomeHalf == \E p \in DOMAIN log : \E i \in DOMAIN log[p].items : Half(p, i)

\* Items go to the last page only, and the one being written is its last.
Shape ==
    /\ \A p \in DOMAIN log : Len(log[p].items) <= ENTRY_COUNT
    /\ \A p \in DOMAIN log :
         log[p].state = "active" => p = Len(log) /\ ~fresh
    /\ \A p, q \in DOMAIN log :
         log[p].state = "freeing" /\ log[q].state = "freeing" => p = q
    /\ \A p \in DOMAIN log : \A i \in DOMAIN log[p].items :
         Half(p, i) => log[p].state = "active" /\ i = Len(log[p].items)
    /\ FreePages >= 0

\* What a call, and each stage of begin, can rely on.
Stage ==
    /\ pc \in {"off", "load", "last", "recover", "format"} => ~fresh
    /\ pc \in {"last", "recover"} => log # <<>>
    /\ pc \in {"loaded", "format"} \cup Calls => ~SomeFreeing
    /\ pc \in {"loaded"} \cup Calls => fresh \/ log # <<>>
    /\ pc \in Calls \/ (pc = "loaded" /\ fresh) => FreePages >= 1
    /\ pc \notin {"off", "load", "write", "copy"} => ~SomeHalf
    /\ pc # "copy" \/ fresh => readEntryIndex = 0

\* A page that is freed is copied to a new one, which can hold it.
Copying == pc = "copy" =>
    /\ SomeFreeing
    /\ ~fresh => /\ log # <<>> /\ Last(log).state = "active"
                 /\ Len(Last(log).items) <= readEntryIndex
                 /\ \A f \in DOMAIN log : log[f].state = "freeing" =>
                      readEntryIndex <= Len(log[f].items)

PageInv == NvsTypes /\ Shape /\ Stage /\ Copying

\* A page that is freed has a copy, or there is a free page for one.
Spare == SomeFreeing => Last(log).state = "active" \/ Len(log) < PageCount

\* RecoverActivate with a free page.
Activates ==
    /\ pc = "recover" /\ Freeing # 0 /\ Last(log).state # "active"
    /\ FreePages > 0 /\ fresh' = TRUE /\ pc' = "copy"
    /\ UNCHANGED <<log, op, old, readEntryIndex, handle>>
-----------------------------------------------------------------------------
(* What the items are, if each setting is always set with the same type.   *)
OneTypeEach == \A u, w \in Uses : u[1] = w[1] => u[2] = w[2]

Pairs == Uses \cup (({Namespace} \cup ForeignKeys) \X {"u8"})
Same(e, f) == e.key = f.key /\ e.type = f.type /\ e.value = f.value
IsWritten(p, i) == log[p].items[i].state = "written"

Kinds == \A p \in DOMAIN log : \A i \in DOMAIN log[p].items :
    /\ <<log[p].items[i].key, log[p].items[i].type>> \in Pairs
    /\ log[p].items[i].value \in Values \cup {1}

\* A page that is copied, and how far its copy has come.
Source == \A f \in DOMAIN log :
    log[f].state = "freeing" /\ Last(log).state = "active" =>
        \A j \in DOMAIN Last(log).items :
            \E i \in DOMAIN log[f].items :
                /\ IsWritten(f, i) /\ Same(Last(log).items[j], log[f].items[i])
                /\ pc = "copy" => i <= readEntryIndex

Copied == pc = "copy" /\ ~fresh =>
    /\ \A f \in DOMAIN log : \A i \in DOMAIN log[f].items :
         log[f].state = "freeing" /\ IsWritten(f, i) /\ i <= readEntryIndex =>
             \E j \in DOMAIN Last(log).items :
                 Same(Last(log).items[j], log[f].items[i])
    /\ \A i, j \in DOMAIN Last(log).items :
         Last(log).items[i].key = Last(log).items[j].key => i = j
    /\ \A j \in DOMAIN Last(log).items : Last(log).items[j].state # "erased"

\* The last item that was written, which may have a predecessor.
Newest(p, i) ==
    /\ pc \in {"off", "load", "last", "replace"}
    /\ log[p].state = "active"
    /\ \A j \in DOMAIN log[p].items : IsWritten(p, j) => j <= i

Live(p, i, k) == Counts(p) /\ Holds(p, i, k)

Unique == \A p, q \in DOMAIN log :
    \A i \in DOMAIN log[p].items, j \in DOMAIN log[q].items :
        \A k \in AllKeys : Live(p, i, k) /\ Live(q, j, k) =>
            (p = q /\ i = j) \/ Newest(p, i) \/ Newest(q, j)

\* A page with two items of a key is loaded before the list is.
NoneReplaced == pc = "last" =>
    \A p \in DOMAIN log : \A i, j \in DOMAIN log[p].items : \A k \in AllKeys :
        Live(p, i, k) /\ Live(p, j, k) => i = j

\* A partition without a free page has never been opened.
Unopened ==
    (Len(log) = PageCount /\ ~SomeFreeing) \/ pc = "format" =>
        \A p \in DOMAIN log : \A i \in DOMAIN log[p].items :
            ~Holds(p, i, Namespace)

Exists(k) == \E p \in DOMAIN log : \E i \in DOMAIN log[p].items : Live(p, i, k)

\* The item a call writes, and whether it replaces one.
Writing ==
    /\ (pc = "copy" /\ op # NoOp) \/ pc \in {"write", "replace"} =>
         <<op.key, op.type>> \in Pairs /\ op.value \in Values \cup {1}
    /\ pc \in {"write", "copy"} /\ op # NoOp => (old <=> Exists(op.key))
    /\ pc = "write" =>
         \A p \in DOMAIN log : \A i \in DOMAIN log[p].items :
             Half(p, i) => Same(log[p].items[i], op)

Replacing == pc = "replace" =>
    /\ log # <<>> /\ Last(log).state = "active" /\ Last(log).items # <<>>
    /\ IsWritten(Len(log), Len(Last(log).items))
    /\ Same(Last(Last(log).items), op)
    /\ old <=> \E p \in DOMAIN log : \E i \in DOMAIN log[p].items :
                 /\ Live(p, i, op.key)
                 /\ ~(p = Len(log) /\ i = Len(log[p].items))

Erasing ==
    /\ pc \in {"erase", "erased"} => op.key \in Keys /\ op.value = None
    /\ pc \notin {"write", "copy", "replace", "erase", "erased", "refuse"} => op = NoOp
    /\ pc = "erase" => Exists(op.key)
    /\ pc = "erased" => ~Exists(op.key)

DataInv == /\ Kinds /\ Source /\ Copied /\ Unique /\ NoneReplaced
           /\ Unopened /\ Writing /\ Replacing /\ Erasing
-----------------------------------------------------------------------------
(* A set of numbers has a least one; so SelectInSeq finds the first        *)
(* position that passes its test.                                          *)
LEMMA NatMin ==
    ASSUME NEW S, S \subseteq Nat, S # {}
    PROVE  \E x \in S : \A y \in S : x <= y
<1> DEFINE R == OpToRel(<, Nat)
<1>1. IsWellFoundedOn(R, Nat)
  BY NatLessThanWellFounded
<1> HIDE DEF R
<1>2. \E x \in S : \A y \in S : ~(<<y, x>> \in R)
  BY <1>1, WFMin
<1>3. \A x, y \in Nat : x <= y \/ <<y, x>> \in R
  BY DEF R, OpToRel
<1>. QED  BY <1>2, <1>3

(* Min is that number.                                                     *)
LEMMA MinIs ==
    ASSUME NEW S, S \subseteq Nat, S # {}
    PROVE  Min(S) \in S /\ \A y \in S : Min(S) <= y
<1>1. \E x \in S : \A y \in S : x <= y
  BY NatMin
<1>. QED  BY <1>1 DEF Min

(* The types of a log and its parts.                                       *)
LEMMA LogTypes ==
    ASSUME NEW L \in Seq(PageSet)
    PROVE  /\ Len(L) \in Nat /\ DOMAIN L = 1 .. Len(L)
           /\ \A p \in 1 .. Len(L) :
                /\ L[p] \in PageSet
                /\ L[p].state \in {"active", "full", "freeing"}
                /\ L[p].items \in Seq(ItemSet)
                /\ Len(L[p].items) \in Nat
                /\ DOMAIN L[p].items = 1 .. Len(L[p].items)
                /\ \A i \in 1 .. Len(L[p].items) :
                     /\ L[p].items[i] \in ItemSet
                     /\ L[p].items[i].state \in {"half", "written", "erased"}
<1>1. Len(L) \in Nat /\ DOMAIN L = 1 .. Len(L)
  BY LenProperties
<1>2. ASSUME NEW p \in 1 .. Len(L)
      PROVE  /\ L[p] \in PageSet
             /\ L[p].state \in {"active", "full", "freeing"}
             /\ L[p].items \in Seq(ItemSet)
  <2>1. L[p] \in PageSet
    BY ElementOfSeq
  <2>. QED  BY <2>1 DEF PageSet
<1>3. ASSUME NEW s \in Seq(ItemSet)
      PROVE  /\ Len(s) \in Nat /\ DOMAIN s = 1 .. Len(s)
             /\ \A i \in 1 .. Len(s) :
                  s[i] \in ItemSet /\ s[i].state \in {"half", "written", "erased"}
  <2>1. Len(s) \in Nat /\ DOMAIN s = 1 .. Len(s)
    BY LenProperties
  <2>2. \A i \in 1 .. Len(s) : s[i] \in ItemSet
    BY ElementOfSeq
  <2>. QED  BY <2>1, <2>2 DEF ItemSet
<1>. QED  BY <1>1, <1>2, <1>3

(* Freeing finds the page that is being freed.                             *)
LEMMA FreeingIs ==
    ASSUME NvsTypes
    PROVE  /\ SomeFreeing => Freeing \in 1 .. Len(log) /\ log[Freeing].state = "freeing"
           /\ ~SomeFreeing => Freeing = 0
           /\ Freeing # 0 => SomeFreeing
<1> DEFINE S == {i \in 1 .. Len(log) : log[i].state = "freeing"}
<1>1. DOMAIN log = 1 .. Len(log)
  BY LogTypes DEF NvsTypes
<1>2. Freeing = IF S # {} THEN Min(S) ELSE 0
  BY DEF Freeing, SelectInSeq
<1>3. S # {} => Min(S) \in S
  <2>1. S \subseteq Nat
    BY LogTypes DEF NvsTypes
  <2> HIDE DEF S
  <2>. QED  BY <2>1, MinIs
<1>4. SomeFreeing <=> S # {}
  BY <1>1 DEF SomeFreeing
<1>. QED  BY <1>2, <1>3, <1>4

(* Page::findItem finds the first item of a key, if it has the type.       *)
LEMMA PageFindIs ==
    ASSUME NEW page \in PageSet, NEW k, NEW t
    PROVE  /\ PageFind(page, k, t) # 0 =>
                LET i == PageFind(page, k, t)
                IN  /\ i \in 1 .. Len(page.items)
                    /\ page.items[i].state = "written" /\ page.items[i].key = k
                    /\ t = "any" \/ page.items[i].type = t
                    /\ \A j \in 1 .. Len(page.items) :
                         page.items[j].state = "written" /\ page.items[j].key = k
                           => i <= j
           /\ PageFind(page, k, t) = 0 =>
                \A i \in 1 .. Len(page.items) :
                    page.items[i].state = "written" /\ page.items[i].key = k =>
                        t # "any" /\ \E j \in 1 .. Len(page.items) :
                            /\ page.items[j].state = "written"
                            /\ page.items[j].key = k /\ page.items[j].type # t
<1> DEFINE S == {i \in 1 .. Len(page.items) :
                   page.items[i].state = "written" /\ page.items[i].key = k}
           m == IF S # {} THEN Min(S) ELSE 0
<1>1. PageFind(page, k, t) =
        IF m # 0 /\ (t = "any" \/ page.items[m].type = t) THEN m ELSE 0
  BY DEF PageFind, SelectInSeq
<1>0. S \subseteq Nat
  OBVIOUS
<1>2. S # {} => m \in S /\ \A j \in S : m <= j
  <2> HIDE DEF S
  <2>. QED  BY <1>0, MinIs
<1>3. m # 0 <=> S # {}
  BY <1>2
<1> HIDE DEF m
<1>. QED  BY <1>1, <1>2, <1>3

(* Storage::findItem finds the first page that has the item.               *)
LEMMA FindItemIs ==
    ASSUME NvsTypes, NEW k, NEW t
    PROVE  /\ FindItem(k, t) # 0 =>
                /\ FindItem(k, t) \in 1 .. Len(log)
                /\ PageFind(log[FindItem(k, t)], k, t) # 0
                /\ \A p \in 1 .. Len(log) :
                     PageFind(log[p], k, t) # 0 => FindItem(k, t) <= p
           /\ FindItem(k, t) = 0 =>
                \A p \in 1 .. Len(log) : PageFind(log[p], k, t) = 0
<1> DEFINE S == {p \in 1 .. Len(log) : PageFind(log[p], k, t) # 0}
<1>1. FindItem(k, t) = IF S # {} THEN Min(S) ELSE 0
  BY DEF FindItem, SelectInSeq
<1>2. S \subseteq Nat
  BY LogTypes DEF NvsTypes
<1>3. S # {} => Min(S) \in S /\ \A j \in S : Min(S) <= j
  <2> HIDE DEF S
  <2>. QED  BY <1>2, MinIs
<1>. QED  BY <1>1, <1>3

(* copyItems takes the items that count in their order.                    *)
LEMMA NextToCopyIs ==
    ASSUME NvsTypes, SomeFreeing
    PROVE  LET items == log[Freeing].items
           IN  /\ NextToCopy # 0 =>
                    /\ NextToCopy \in 1 .. Len(items)
                    /\ NextToCopy > readEntryIndex
                    /\ items[NextToCopy].state = "written"
                    /\ \A j \in readEntryIndex + 1 .. Len(items) :
                         items[j].state = "written" => NextToCopy <= j
               /\ NextToCopy = 0 =>
                    \A j \in readEntryIndex + 1 .. Len(items) :
                        items[j].state # "written"
<1> DEFINE items == log[Freeing].items
           S == {j \in readEntryIndex + 1 .. Len(items) :
                   items[j].state = "written"}
<1>1. NextToCopy = IF S # {} THEN Min(S) ELSE 0
  BY DEF NextToCopy, SelectInSubSeq
<1>2. readEntryIndex \in Nat /\ Len(items) \in Nat
  BY FreeingIs, LogTypes DEF NvsTypes
<1> HIDE DEF items
<1>3. S \subseteq Nat
  BY <1>2
<1>4. S # {} => Min(S) \in S /\ \A j \in S : Min(S) <= j
  <2> HIDE DEF S
  <2>. QED  BY <1>3, MinIs
<1>5. NextToCopy # 0 => S # {} /\ NextToCopy = Min(S)
  BY <1>1
<1>6. S # {} => NextToCopy \in readEntryIndex + 1 .. Len(items)
  BY <1>1, <1>4
<1>7. S = {} => \A j \in readEntryIndex + 1 .. Len(items) : items[j].state # "written"
  OBVIOUS
<1>8. S # {} => items[NextToCopy].state = "written"
                /\ \A j \in readEntryIndex + 1 .. Len(items) :
                     items[j].state = "written" => NextToCopy <= j
  BY <1>1, <1>4
<1> HIDE DEF S
<1>9. S # {} => /\ NextToCopy \in 1 .. Len(items) /\ NextToCopy > readEntryIndex
                /\ NextToCopy # 0
  BY <1>2, <1>6
<1>10. CASE S = {}
  BY <1>1, <1>7, <1>10 DEF items
<1>11. CASE S # {}
  BY <1>8, <1>9, <1>11 DEF items
<1>. QED  BY <1>10, <1>11

(* There is always a page with most entries that can be had back.          *)
LEMMA MostUnusedIs ==
    ASSUME NvsTypes, log # << >>
    PROVE  MostUnused \in 1 .. Len(log)
<1> DEFINE used(p) == Cardinality(WrittenAt(p))
           T == {used(p) : p \in 1 .. Len(log)}
           S == {p \in 1 .. Len(log) : \A q \in DOMAIN log : Unused(q) <= Unused(p)}
<1>1. /\ DOMAIN log = 1 .. Len(log) /\ Len(log) \in Nat /\ Len(log) > 0
      /\ ENTRY_COUNT \in Int
  BY LogTypes, EmptySeq, NvsAssumption DEF NvsTypes
<1>2. \A p \in 1 .. Len(log) : used(p) \in Nat
  <2> TAKE p \in 1 .. Len(log)
  <2>1. DOMAIN log[p].items = 1 .. Len(log[p].items) /\ Len(log[p].items) \in Nat
    BY LogTypes DEF NvsTypes
  <2>2. IsFiniteSet(1 .. Len(log[p].items))
    <3>1. 1 \in Int /\ Len(log[p].items) \in Int
      BY <2>1
    <3>. QED  BY <3>1, FS_Interval
  <2>3. WrittenAt(p) \subseteq 1 .. Len(log[p].items)
    BY <2>1 DEF WrittenAt
  <2>4. IsFiniteSet(WrittenAt(p))
    BY <2>2, <2>3, FS_Subset
  <2>. QED  BY <2>4, FS_CardinalityType
<1>3. \E p \in 1 .. Len(log) : \A q \in 1 .. Len(log) : used(p) <= used(q)
  <2>1. T \subseteq Nat /\ T # {}
    BY <1>1, <1>2
  <2>2. \E x \in T : \A y \in T : x <= y
    <3> HIDE DEF T
    <3>. QED  BY <2>1, NatMin
  <2>. QED  BY <2>2
<1>4. S # {}
  <2>1. PICK p \in 1 .. Len(log) : \A q \in 1 .. Len(log) : used(p) <= used(q)
    BY <1>3
  <2>2. ASSUME NEW q \in 1 .. Len(log) PROVE Unused(q) <= Unused(p)
    <3>1. used(p) \in Nat /\ used(q) \in Nat /\ used(p) <= used(q)
      BY <1>2, <2>1
    <3>. QED  BY <1>1, <3>1 DEF Unused
  <2>. QED  BY <1>1, <2>2
<1>5. S \subseteq Nat
  BY <1>1
<1>6. MostUnused = IF S # {} THEN Min(S) ELSE 0
  <2> DEFINE s == [p \in DOMAIN log |-> p]
  <2>1. Len(s) = Len(log)
    BY <1>1
  <2>2. MostUnused = LET I == {i \in 1 .. Len(s) :
                              \A q \in DOMAIN log : Unused(q) <= Unused(s[i])}
                     IN  IF I # {} THEN Min(I) ELSE 0
    BY DEF MostUnused, SelectInSeq
  <2>3. \A i \in 1 .. Len(log) : s[i] = i
    BY <1>1
  <2> HIDE DEF s
  <2>4. {i \in 1 .. Len(s) : \A q \in DOMAIN log : Unused(q) <= Unused(s[i])} = S
    BY <2>1, <2>3
  <2>. QED  BY <2>2, <2>4
<1>7. Min(S) \in S
  <2> HIDE DEF S
  <2>. QED  BY <1>4, <1>5, MinIs
<1>. QED  BY <1>4, <1>6, <1>7

-----------------------------------------------------------------------------
(* What each kind of flash write does to a log.                            *)

(* Altering the state of an item leaves everything else alone.             *)
Altered(L, p, i, s) == [L EXCEPT ![p].items[i].state = s]

(* The log with the state of item i of page p altered.                     *)
LEMMA SetStateIs ==
    ASSUME NEW L \in Seq(PageSet), NEW p, NEW i,
           NEW s \in {"half", "written", "erased"},
           NEW M, M = Altered(L, p, i, s)
    PROVE  /\ M \in Seq(PageSet) /\ Len(M) = Len(L)
           /\ \A q \in 1 .. Len(L) :
                /\ M[q].state = L[q].state
                /\ Len(M[q].items) = Len(L[q].items)
                /\ \A j \in 1 .. Len(L[q].items) :
                     /\ Same(M[q].items[j], L[q].items[j])
                     /\ M[q].items[j].state =
                          IF q = p /\ j = i THEN s ELSE L[q].items[j].state
<1> USE DEF Altered
<1>1. Len(L) \in Nat /\ DOMAIN L = 1 .. Len(L)
  BY LogTypes
<1>2. DOMAIN M = 1 .. Len(L)
  BY <1>1
<1>3. ASSUME NEW q \in 1 .. Len(L)
      PROVE  /\ M[q] \in PageSet
             /\ M[q].state = L[q].state
             /\ Len(M[q].items) = Len(L[q].items)
             /\ \A j \in 1 .. Len(L[q].items) :
                  /\ Same(M[q].items[j], L[q].items[j])
                  /\ M[q].items[j].state =
                       IF q = p /\ j = i THEN s ELSE L[q].items[j].state
  <2>0. /\ L[q] \in PageSet /\ L[q].items \in Seq(ItemSet)
        /\ Len(L[q].items) \in Nat /\ DOMAIN L[q].items = 1 .. Len(L[q].items)
        /\ \A j \in 1 .. Len(L[q].items) : L[q].items[j] \in ItemSet
    BY LogTypes
  <2>1. CASE q # p
    <3>1. M[q] = L[q]
      BY <1>1, <2>1
    <3>. QED  BY <2>0, <2>1, <3>1 DEF Same
  <2>2. CASE q = p
    <3> DEFINE t == [L[q].items EXCEPT ![i].state = s]
    <3>1. M[q] = [L[q] EXCEPT !.items = t]
      BY <1>1, <2>2
    <3>2. DOMAIN t = 1 .. Len(L[q].items)
      BY <2>0
    <3>3. ASSUME NEW j \in 1 .. Len(L[q].items)
          PROVE  /\ t[j] \in ItemSet /\ Same(t[j], L[q].items[j])
                 /\ t[j].state = IF j = i THEN s ELSE L[q].items[j].state
      <4>1. L[q].items[j] \in ItemSet
        BY <2>0
      <4>2. CASE j # i
        <5>1. t[j] = L[q].items[j]
          BY <2>0, <4>2
        <5>. QED  BY <4>1, <4>2, <5>1 DEF Same
      <4>3. CASE j = i
        <5>1. t[j] = [L[q].items[j] EXCEPT !.state = s]
          BY <2>0, <4>3
        <5> HIDE DEF t
        <5>. QED  BY <4>1, <4>3, <5>1 DEF Same, ItemSet
      <4>. QED  BY <4>2, <4>3
    <3>4. t \in [1 .. Len(L[q].items) -> ItemSet]
      <4>1. t = [j \in 1 .. Len(L[q].items) |-> t[j]]
        BY <2>0
      <4> HIDE DEF t
      <4>. QED  BY <3>3, <4>1
    <3> HIDE DEF t
    <3>5. t \in Seq(ItemSet) /\ Len(t) = Len(L[q].items)
      BY <2>0, <3>4, SeqDef, LenProperties
    <3>6. M[q].items = t /\ M[q].state = L[q].state /\ M[q] \in PageSet
      BY <2>0, <3>1, <3>5 DEF PageSet
    <3>. QED  BY <2>2, <3>3, <3>5, <3>6
  <2>. QED  BY <2>1, <2>2
<1>4. M \in [1 .. Len(L) -> PageSet]
  <2>1. M = [q \in 1 .. Len(L) |-> M[q]]
    BY <1>1
  <2>. QED  BY <1>3, <2>1
<1>5. M \in Seq(PageSet) /\ Len(M) = Len(L)
  BY <1>1, <1>4, SeqDef, LenProperties
<1>. QED  BY <1>3, <1>5

(* Altering the state of a page.                                           *)
WithPage(L, p, s) == [L EXCEPT ![p].state = s]

(* The log with the state of page p altered.                               *)
LEMMA SetPageIs ==
    ASSUME log \in Seq(PageSet), NEW p \in 1 .. Len(log),
           NEW s \in {"active", "full", "freeing"},
           log' = WithPage(log, p, s)
    PROVE  /\ log' \in Seq(PageSet) /\ Len(log') = Len(log)
           /\ \A q \in 1 .. Len(log) :
                /\ log'[q].state = IF q = p THEN s ELSE log[q].state
                /\ log'[q].items = log[q].items
<1> USE DEF WithPage
<1>1. Len(log) \in Nat /\ DOMAIN log = 1 .. Len(log)
  BY LogTypes
<1>2. ASSUME NEW q \in 1 .. Len(log)
      PROVE  /\ log'[q] \in PageSet /\ log'[q].items = log[q].items
             /\ log'[q].state = IF q = p THEN s ELSE log[q].state
  <2>0. log[q] \in PageSet
    BY LogTypes
  <2>1. CASE q # p
    BY <1>1, <2>0, <2>1
  <2>2. CASE q = p
    <3>1. log'[q] = [log[q] EXCEPT !.state = s]
      BY <1>1, <2>2
    <3>. QED  BY <2>0, <2>2, <3>1 DEF PageSet
  <2>. QED  BY <2>1, <2>2
<1>3. log' \in [1 .. Len(log) -> PageSet]
  <2>1. log' = [q \in 1 .. Len(log) |-> log'[q]]
    BY <1>1
  <2>. QED  BY <1>2, <2>1
<1>4. log' \in Seq(PageSet) /\ Len(log') = Len(log)
  BY <1>1, <1>3, SeqDef, LenProperties
<1>. QED  BY <1>2, <1>4

(* Writing an entry of the last page.                                      *)
WithItem(L, e) == [L EXCEPT ![Len(L)].items = Append(@, e)]

(* The log with an item at the end of its last page.                       *)
LEMMA AddItemIs ==
    ASSUME log \in Seq(PageSet), Len(log) > 0, NEW e \in ItemSet,
           log' = WithItem(log, e)
    PROVE  /\ log' \in Seq(PageSet) /\ Len(log') = Len(log)
           /\ \A q \in 1 .. Len(log) :
                /\ log'[q].state = log[q].state
                /\ q # Len(log) => log'[q].items = log[q].items
                /\ q = Len(log) => /\ Len(log'[q].items) = Len(log[q].items) + 1
                                 /\ log'[q].items[Len(log[q].items) + 1] = e
                /\ \A j \in 1 .. Len(log[q].items) : log'[q].items[j] = log[q].items[j]
<1> DEFINE n == Len(log)
           t == Append(log[n].items, e)
<1>1. n \in Nat /\ n > 0 /\ DOMAIN log = 1 .. n /\ n \in 1 .. n
  BY LogTypes
<1>2. log[n] \in PageSet /\ log[n].items \in Seq(ItemSet) /\ Len(log[n].items) \in Nat
  BY <1>1, LogTypes
<1>3. /\ t \in Seq(ItemSet) /\ Len(t) = Len(log[n].items) + 1
      /\ \A j \in 1 .. Len(log[n].items) : t[j] = log[n].items[j]
      /\ t[Len(log[n].items) + 1] = e
  BY <1>2, AppendProperties
<1>4. log' = [log EXCEPT ![n].items = t]
  BY <1>1 DEF WithItem
<1> HIDE DEF t
<1>5. ASSUME NEW q \in 1 .. n
      PROVE  /\ log'[q] \in PageSet /\ log'[q].state = log[q].state
             /\ log'[q].items = IF q = n THEN t ELSE log[q].items
  <2>0. log[q] \in PageSet
    BY LogTypes
  <2>1. CASE q # n
    BY <1>1, <1>4, <2>0, <2>1
  <2>2. CASE q = n
    <3>1. log'[q] = [log[q] EXCEPT !.items = t]
      BY <1>1, <1>4, <2>2
    <3>. QED  BY <1>3, <2>0, <2>2, <3>1 DEF PageSet
  <2>. QED  BY <2>1, <2>2
<1>6. log' \in [1 .. n -> PageSet]
  <2>1. log' = [q \in 1 .. n |-> log'[q]]
    BY <1>1, <1>4
  <2>. QED  BY <1>5, <2>1
<1>7. log' \in Seq(PageSet) /\ Len(log') = n
  BY <1>1, <1>6, SeqDef, LenProperties
<1>8. ASSUME NEW q \in 1 .. n, q = n
      PROVE  /\ Len(log'[q].items) = Len(log[q].items) + 1
             /\ log'[q].items[Len(log[q].items) + 1] = e
  BY <1>3, <1>5, <1>8
<1>9. ASSUME NEW q \in 1 .. n, NEW j \in 1 .. Len(log[q].items)
      PROVE  log'[q].items[j] = log[q].items[j]
  BY <1>3, <1>5
<1>. QED  BY <1>5, <1>7, <1>8, <1>9

(* Initializing a page puts it at the end.                                 *)
LEMMA AddPageIs ==
    ASSUME log \in Seq(PageSet),
           log' = Append(log, [state |-> "active", items |-> << >>])
    PROVE  /\ log' \in Seq(PageSet) /\ Len(log') = Len(log) + 1
           /\ \A q \in 1 .. Len(log) : log'[q] = log[q]
           /\ log'[Len(log')].state = "active" /\ Len(log'[Len(log')].items) = 0
<1> DEFINE e == [state |-> "active", items |-> << >>]
<1>1. << >> \in Seq(ItemSet) /\ Len(<< >>) = 0
  BY EmptySeq
<1>2. e \in PageSet /\ e.state = "active" /\ Len(e.items) = 0
  BY <1>1 DEF PageSet
<1> HIDE DEF e
<1>3. log' = Append(log, e)
  BY DEF e
<1>4. /\ log' \in Seq(PageSet) /\ Len(log') = Len(log) + 1
      /\ \A q \in 1 .. Len(log) : log'[q] = log[q]
      /\ log'[Len(log) + 1] = e
  BY <1>2, <1>3, AppendProperties
<1>. QED  BY <1>2, <1>4

(* Erasing a page takes it off the list.                                   *)
LEMMA RemoveAtIs ==
    ASSUME log \in Seq(PageSet), NEW n \in 1 .. Len(log),
           log' = RemoveAt(log, n)
    PROVE  /\ log' \in Seq(PageSet) /\ Len(log') = Len(log) - 1
           /\ \A q \in 1 .. Len(log) - 1 :
                log'[q] = IF q < n THEN log[q] ELSE log[q + 1]
<1> DEFINE a == SubSeq(log, 1, n - 1)
           b == SubSeq(log, n + 1, Len(log))
<1>1. Len(log) \in Nat /\ n \in Nat /\ 1 <= n /\ n <= Len(log)
      /\ \A q \in 1 .. Len(log) : log[q] \in PageSet
  BY LogTypes
<1>2. log' = a \o b
  BY DEF RemoveAt
<1>3. /\ a \in Seq(PageSet) /\ Len(a) = n - 1
      /\ \A q \in 1 .. n - 1 : a[q] = log[q]
  <2>1. \A q \in 1 .. n - 1 : log[q] \in PageSet
    BY <1>1
  <2>2. 1 \in Int /\ n - 1 \in Int
    BY <1>1
  <2>3. /\ a \in Seq(PageSet)
        /\ Len(a) = IF 1 <= n - 1 THEN (n - 1) - 1 + 1 ELSE 0
        /\ \A q \in 1 .. (n - 1) - 1 + 1 : a[q] = log[1 + q - 1]
    BY <2>1, <2>2, SubSeqProperties
  <2>. QED  BY <1>1, <2>3
<1>4. /\ b \in Seq(PageSet) /\ Len(b) = Len(log) - n
      /\ \A q \in 1 .. Len(log) - n : b[q] = log[q + n]
  <2>1. \A q \in n + 1 .. Len(log) : log[q] \in PageSet
    BY <1>1
  <2>2. n + 1 \in Int /\ Len(log) \in Int
    BY <1>1
  <2>3. /\ b \in Seq(PageSet)
        /\ Len(b) = IF n + 1 <= Len(log) THEN Len(log) - (n + 1) + 1 ELSE 0
        /\ \A q \in 1 .. Len(log) - (n + 1) + 1 : b[q] = log[(n + 1) + q - 1]
    BY <2>1, <2>2, SubSeqProperties
  <2>. QED  BY <1>1, <2>3
<1> HIDE DEF a, b
<1>5. /\ log' \in Seq(PageSet) /\ Len(log') = Len(a) + Len(b)
      /\ \A q \in 1 .. Len(a) + Len(b) :
           log'[q] = IF q <= Len(a) THEN a[q] ELSE b[q - Len(a)]
  <2>1. a \in Seq(PageSet) /\ b \in Seq(PageSet)
    BY <1>3, <1>4
  <2>. QED  BY <1>2, <2>1, ConcatProperties
<1>6. Len(log') = Len(log) - 1
  BY <1>1, <1>3, <1>4, <1>5
<1>7. ASSUME NEW q \in 1 .. Len(log) - 1
      PROVE  log'[q] = IF q < n THEN log[q] ELSE log[q + 1]
  <2>1. log'[q] = IF q <= n - 1 THEN a[q] ELSE b[q - (n - 1)]
    BY <1>1, <1>3, <1>4, <1>5
  <2>2. CASE q < n
    BY <1>1, <1>3, <2>1, <2>2
  <2>3. CASE ~(q < n)
    <3>1. q - (n - 1) \in 1 .. Len(log) - n /\ (q - (n - 1)) + n = q + 1
      BY <1>1, <2>3
    <3>. QED  BY <1>1, <1>4, <2>1, <2>3, <3>1
  <2>. QED  BY <2>2, <2>3
<1>. QED  BY <1>5, <1>6, <1>7

(* So does erasing the last one.                                           *)
LEMMA FrontIs ==
    ASSUME log \in Seq(PageSet), Len(log) > 0
    PROVE  /\ Front(log) \in Seq(PageSet) /\ Len(Front(log)) = Len(log) - 1
           /\ \A q \in 1 .. Len(log) - 1 : Front(log)[q] = log[q]
<1>1. Len(log) \in Nat /\ \A q \in 1 .. Len(log) : log[q] \in PageSet
  BY LogTypes
<1>2. \A q \in 1 .. Len(log) - 1 : log[q] \in PageSet
  BY <1>1
<1>3. 1 \in Int /\ Len(log) - 1 \in Int
  BY <1>1
<1>4. Front(log) = SubSeq(log, 1, Len(log) - 1)
  BY DEF Front
<1>5. /\ Front(log) \in Seq(PageSet)
      /\ Len(Front(log)) = IF 1 <= Len(log) - 1 THEN (Len(log) - 1) - 1 + 1 ELSE 0
      /\ \A q \in 1 .. (Len(log) - 1) - 1 + 1 : Front(log)[q] = log[1 + q - 1]
  BY <1>2, <1>3, <1>4, SubSeqProperties
<1>6. Len(Front(log)) = Len(log) - 1
  <2> DEFINE l == Len(log)
  <2>1. l \in Nat /\ l > 0 /\ Len(Front(log)) = IF 1 <= l - 1 THEN (l - 1) - 1 + 1 ELSE 0
    BY <1>1, <1>5
  <2> HIDE DEF l
  <2>2. Len(Front(log)) = l - 1
    BY <2>1
  <2>. QED  BY <2>2 DEF l
<1>7. \A q \in 1 .. Len(log) - 1 : q \in 1 .. (Len(log) - 1) - 1 + 1 /\ 1 + q - 1 = q
  BY <1>1
<1>. QED  BY <1>5, <1>6, <1>7
-----------------------------------------------------------------------------
(* The invariant of the pages.                                             *)

(* The type of the namespace's item, and the types the program uses.       *)
LEMMA TypeFacts ==
    /\ "u8" \in Types /\ Namespace \in AllKeys /\ None \notin Values
    /\ \A u \in Uses : u[1] \in AllKeys /\ u[1] \in Keys /\ u[2] \in Types
    /\ PageCount \in Nat /\ PageCount > 1 /\ ENTRY_COUNT \in Nat /\ ENTRY_COUNT > 0
    /\ NoOp \in [key : AllKeys, type : Types \cup {"none"},
                 value : Values \cup {None, 1}]
<1>1. "u8" \in Types
  <2>1. GetOrder[1] = "u8" /\ 1 \in DOMAIN GetOrder
    BY DEF GetOrder
  <2>. QED  BY <2>1 DEF Types, Range
<1>2. Namespace \in AllKeys
  BY DEF AllKeys
<1>3. \A u \in Uses : u[1] \in AllKeys /\ u[1] \in Keys /\ u[2] \in Types
  <2> TAKE u \in Uses
  <2>1. u \in (1 .. 99) \X Range(GetOrder)
    BY NvsAssumption
  <2>2. u[1] \in Keys
    BY DEF Keys
  <2>. QED  BY <2>1, <2>2 DEF AllKeys, Types
<1>4. None \notin Values
  BY NvsAssumption
<1>5. PageCount \in Nat /\ PageCount > 1 /\ ENTRY_COUNT \in Nat /\ ENTRY_COUNT > 0
  BY NvsAssumption
<1>6. NoOp \in [key : AllKeys, type : Types \cup {"none"},
                value : Values \cup {None, 1}]
  BY <1>2 DEF NoOp
<1>. QED  BY <1>1, <1>2, <1>3, <1>4, <1>5, <1>6

(* The number of free pages.                                               *)
LEMMA FreePagesIs ==
    ASSUME NvsTypes
    PROVE  /\ FreePages \in Int
           /\ FreePages = PageCount - Len(log) - (IF fresh THEN 1 ELSE 0)
           /\ Len(log) \in Nat /\ DOMAIN log = 1 .. Len(log)
           /\ log # << >> <=> Len(log) > 0
<1>1. Len(log) \in Nat /\ DOMAIN log = 1 .. Len(log) /\ PageCount \in Nat
  BY LogTypes, TypeFacts DEF NvsTypes
<1>2. log # << >> <=> Len(log) > 0
  BY <1>1, EmptySeq DEF NvsTypes
<1>. QED  BY <1>1, <1>2 DEF FreePages

(* A step that leaves the log and the new page alone keeps the shape.      *)
LEMMA KeepPages ==
    ASSUME PageInv, UNCHANGED <<log, fresh>>
    PROVE  /\ Shape' /\ (SomeFreeing' <=> SomeFreeing) /\ (SomeHalf' <=> SomeHalf)
           /\ FreePages' = FreePages
<1>1. Shape'
  BY DEF PageInv, Shape, Half, FreePages
<1>2. SomeFreeing' <=> SomeFreeing
  BY DEF SomeFreeing
<1>3. SomeHalf' <=> SomeHalf
  BY DEF SomeHalf, Half
<1>. QED  BY <1>1, <1>2, <1>3 DEF FreePages

(* Steps of begin and of the calls that write nothing.                     *)
LEMMA PagesQuiet ==
    ASSUME PageInv,
           \/ Power \/ RecoverNothing \/ BeginFormat \/ Formatted \/ BeginOpen
           \/ \E u \in Uses, v \in Values : setInt(u[1], u[2], v)
           \/ WriteFails \/ \E k \in Keys : erase(k)
           \/ eraseAll \/ EraseReturn \/ EraseAllReturn \/ Refuse \/ close
           \/ UNCHANGED vars
    PROVE  PageInv'
<1>0. UNCHANGED <<log, fresh, readEntryIndex>>
  BY DEF Power, RecoverNothing, BeginFormat, Formatted, BeginOpen, setInt,
         WriteFails, erase, eraseAll, EraseReturn, EraseAllReturn, Call, Refuse,
         close,
         Return, vars, ram
<1>1. /\ Shape' /\ (SomeFreeing' <=> SomeFreeing) /\ (SomeHalf' <=> SomeHalf)
      /\ FreePages' = FreePages
  BY <1>0, KeepPages
<1>2. NvsTypes'
  <2> USE DEF PageInv, NvsTypes, Places, Calls
  <2>1. CASE Power \/ RecoverNothing \/ BeginFormat \/ Formatted \/ eraseAll
             \/ UNCHANGED vars
    BY <2>1 DEF Power, RecoverNothing, BeginFormat, Formatted, eraseAll, ram, vars
  <2>2. CASE WriteFails \/ EraseReturn \/ EraseAllReturn \/ Refuse
    BY <2>2, TypeFacts DEF WriteFails, EraseReturn, EraseAllReturn, Refuse, Return
  <2>3. CASE close
    BY <2>3 DEF close
  <2>4. CASE BeginOpen
    <3>1. op' \in [key : AllKeys, type : Types \cup {"none"},
                   value : Values \cup {None, 1}]
      BY <2>4, TypeFacts DEF BeginOpen
    <3>. QED  BY <2>4, <3>1 DEF BeginOpen
  <2>5. ASSUME NEW u \in Uses, NEW v \in Values, setInt(u[1], u[2], v)
        PROVE  NvsTypes'
    <3>1. op' \in [key : AllKeys, type : Types \cup {"none"},
                   value : Values \cup {None, 1}]
      BY <2>5, TypeFacts DEF setInt, Call
    <3>2. old' \in BOOLEAN
      BY <2>5 DEF setInt, Call
    <3>. QED  BY <2>5, <3>1, <3>2 DEF setInt, Call
  <2>6. ASSUME NEW k \in Keys, erase(k)
        PROVE  NvsTypes'
    <3>1. op' \in [key : AllKeys, type : Types \cup {"none"},
                   value : Values \cup {None, 1}]
      BY <2>6 DEF erase, Call, AllKeys
    <3>. QED  BY <2>6, <3>1 DEF erase, Call
  <2>. QED  BY <2>1, <2>2, <2>3, <2>4, <2>5, <2>6
<1>3. Stage'
  <2> USE DEF PageInv, Stage, Calls
  <2>1. CASE Power \/ Formatted
    BY <1>0, <1>1, <2>1 DEF Power, Formatted
  <2>2. CASE RecoverNothing
    <3>1. ~SomeFreeing
      BY <2>2, FreeingIs DEF RecoverNothing
    <3>. QED  BY <1>0, <1>1, <2>2, <3>1 DEF RecoverNothing
  <2>3. CASE BeginFormat
    <3>1. ~fresh
      BY <2>3, FreePagesIs DEF BeginFormat
    <3>. QED  BY <1>0, <1>1, <2>3, <3>1 DEF BeginFormat
  <2>4. CASE BeginOpen
    <3>1. FreePages >= 1
      <4>1. FreePages \in Int /\ (FreePages > 0 \/ log = << >>) /\ pc = "loaded"
        BY <2>4, FreePagesIs DEF BeginOpen
      <4>. QED  BY <4>1
    <3>. QED  BY <1>0, <1>1, <2>4, <3>1 DEF BeginOpen
  <2>5. CASE \/ \E u \in Uses, v \in Values : setInt(u[1], u[2], v)
             \/ \E k \in Keys : erase(k)
             \/ eraseAll \/ EraseReturn \/ EraseAllReturn \/ Refuse \/ close \/ UNCHANGED vars
    BY <1>0, <1>1, <2>5 DEF setInt, erase, eraseAll, EraseReturn, EraseAllReturn,
                            Call, Refuse, close, Return, vars
  <2>6. CASE WriteFails
    <3>1. ~SomeHalf
      <4>1. Last(log).state # "active" /\ pc = "write" /\ ~fresh
        BY <2>6 DEF WriteFails, NeedsPage, HasRoom
      <4>2. \A p \in DOMAIN log : log[p].state # "active"
        BY <4>1 DEF Shape, Last
      <4>. QED  BY <4>2 DEF Shape, SomeHalf
    <3>2. pc = "write" /\ pc' = "idle"
      BY <2>6 DEF WriteFails, NeedsPage, Return
    <3>. QED  BY <1>0, <1>1, <3>1, <3>2
  <2>. QED  BY <2>1, <2>2, <2>3, <2>4, <2>5, <2>6
<1>4. Copying'
  <2>1. CASE pc' # "copy"
    BY <2>1 DEF Copying
  <2>2. CASE pc' = "copy"
    <3>1. pc = "copy"
      BY <2>2 DEF Power, RecoverNothing, BeginFormat, Formatted, BeginOpen, setInt,
                  WriteFails, erase, eraseAll, EraseReturn, EraseAllReturn, Call, Refuse,
         close,
                  Return, vars
    <3>. QED  BY <1>0, <1>1, <3>1 DEF PageInv, Copying
  <2>. QED  BY <2>1, <2>2
<1>. QED  BY <1>1, <1>2, <1>3, <1>4 DEF PageInv

(* A page that takes items is the last one.                                *)
LEMMA LastIs ==
    ASSUME PageInv, log # << >>
    PROVE  /\ Len(log) \in 1 .. Len(log) /\ Last(log) = log[Len(log)]
           /\ log[Len(log)].state # "active" => \A p \in DOMAIN log : log[p].state # "active"
<1>1. Len(log) \in 1 .. Len(log) /\ DOMAIN log = 1 .. Len(log)
  BY FreePagesIs DEF PageInv
<1>. QED  BY <1>1 DEF Last, PageInv, Shape

(* Steps that take or forget a page which is not initialized yet.          *)
LEMMA PagesFresh ==
    ASSUME PageInv, LoadPages \/ Activates \/ TakeFreePage \/ Crash
    PROVE  PageInv'
<1>0. /\ UNCHANGED log /\ Len(log) \in Nat /\ PageCount \in Nat /\ PageCount > 1
      /\ FreePages = PageCount - Len(log) - (IF fresh THEN 1 ELSE 0)
      /\ FreePages' = PageCount - Len(log) - (IF fresh' THEN 1 ELSE 0)
      /\ log # << >> <=> Len(log) > 0
      /\ FreePages >= 0 /\ FreePages \in Int
  <2>1. UNCHANGED log
    BY DEF LoadPages, Activates, TakeFreePage, Crash
  <2>2. /\ Len(log) \in Nat /\ PageCount \in Nat /\ PageCount > 1
        /\ FreePages = PageCount - Len(log) - (IF fresh THEN 1 ELSE 0)
        /\ log # << >> <=> Len(log) > 0
        /\ FreePages >= 0 /\ FreePages \in Int
    BY FreePagesIs, TypeFacts DEF PageInv, Shape
  <2>. QED  BY <2>1, <2>2 DEF FreePages
<1>1. (SomeFreeing' <=> SomeFreeing) /\ (SomeHalf' <=> SomeHalf)
  BY <1>0 DEF SomeFreeing, SomeHalf, Half
<1>2. ASSUME \A p \in DOMAIN log : fresh' => log[p].state # "active",
             FreePages' >= 0
      PROVE  Shape'
  BY <1>0, <1>2 DEF PageInv, Shape, Half
<1>3. ASSUME log # << >>, Last(log).state # "active"
      PROVE  \A p \in DOMAIN log : log[p].state # "active"
  BY <1>3, LastIs
<1>4. CASE LoadPages
  <2>1. pc = "load" /\ ~fresh /\ readEntryIndex = 0
    BY <1>4 DEF LoadPages, PageInv, Stage
  <2>2. (log = << >> => fresh' = TRUE) /\ (log # << >> => fresh' = FALSE)
    BY <1>4, Zenon DEF LoadPages
  <2>3. ~SomeHalf
    <3> SUFFICES ASSUME NEW p \in DOMAIN log, NEW i \in DOMAIN log[p].items, Half(p, i)
                 PROVE  FALSE
      BY DEF SomeHalf
    <3>1. log[p].state = "active" /\ Len(log[p].items) <= ENTRY_COUNT
      BY DEF PageInv, Shape
    <3>2. i \in 1 .. Len(log[p].items) /\ Len(log[p].items) \in Nat /\ ENTRY_COUNT \in Nat
      BY LogTypes, TypeFacts DEF PageInv, NvsTypes
    <3>3. i \in 1 .. ENTRY_COUNT
      BY <3>1, <3>2
    <3>4. <<p, i>> \in HalfWritten
      BY <3>1, <3>3 DEF HalfWritten, ActivePages, Half
    <3>. QED  BY <1>4, <3>4 DEF LoadPages
  <2>4. CASE log = << >>
    <3>1. fresh' = TRUE /\ pc' = "loaded"
      BY <1>4, <2>2, <2>4 DEF LoadPages
    <3>4. FreePages' >= 1
      BY <1>0, <2>4, <3>1
    <3>5. Shape'
      <4>1. FreePages' >= 0
        BY <1>0, <2>4, <3>1
      <4>2. \A p \in DOMAIN log : log[p].state # "active"
        BY <2>4
      <4>. QED  BY <1>2, <4>1, <4>2
    <3>2. ~SomeFreeing
      BY <2>4 DEF SomeFreeing
    <3>3. Stage' /\ Copying'
      BY <1>0, <1>1, <1>4, <2>1, <2>3, <3>1, <3>2, <3>4 DEF LoadPages, Stage, Copying, Calls
    <3>. QED  BY <1>0, <1>4, <3>1, <3>3, <3>5 DEF PageInv, NvsTypes, LoadPages, Places
  <2>5. CASE log # << >>
    <3>1. fresh' = FALSE /\ pc' = "last"
      BY <1>4, <2>2, <2>5 DEF LoadPages
    <3>3. Shape'
      <4>1. FreePages' >= 0
        BY <1>0, <3>1
      <4>. QED  BY <1>2, <3>1, <4>1
    <3>2. Stage' /\ Copying'
      BY <1>0, <1>1, <1>4, <2>1, <2>3, <2>5, <3>1 DEF LoadPages, Stage, Copying, Calls
    <3>. QED  BY <1>0, <1>4, <3>1, <3>2, <3>3 DEF PageInv, NvsTypes, LoadPages, Places
  <2>. QED  BY <2>4, <2>5
<1>5. CASE Activates
  <2>1. /\ fresh' = TRUE /\ ~fresh /\ pc = "recover" /\ pc' = "copy" /\ SomeFreeing
        /\ readEntryIndex = 0 /\ log # << >> /\ FreePages > 0
    BY <1>5, FreeingIs DEF Activates, PageInv, Stage
  <2>2. FreePages' >= 0
    BY <1>0, <2>1
  <2>3. Shape'
    BY <1>2, <1>3, <1>5, <2>1, <2>2 DEF Activates
  <2>4. Stage' /\ Copying'
    BY <1>0, <1>1, <1>5, <2>1 DEF Activates, Stage, Copying, Calls
  <2>. QED  BY <1>0, <1>5, <2>3, <2>4 DEF PageInv, NvsTypes, Activates, Places
<1>6. CASE TakeFreePage
  <2>1. /\ fresh' = TRUE /\ ~fresh /\ pc = "write" /\ pc' = "write"
        /\ log # << >> /\ FreePages >= 2 /\ Last(log).state # "active"
        /\ ~SomeFreeing /\ readEntryIndex = 0 /\ readEntryIndex' = readEntryIndex
    BY <1>6 DEF TakeFreePage, NeedsPage, HasRoom, PageInv, Stage, Calls
  <2>2. FreePages' >= 1
    BY <1>0, <2>1
  <2>3. Shape'
    <3>1. FreePages' >= 0 
      BY <1>0, <2>2
    <3>. QED BY <1>2, <1>3, <2>1, <3>1
  <2>4. Stage' /\ Copying'
    BY <1>0, <1>1, <2>1, <2>2 DEF Stage, Copying, Calls
  <2>. QED  BY <1>0, <1>6, <2>1, <2>3, <2>4 DEF PageInv, NvsTypes, TakeFreePage, Places
<1>7. CASE Crash
  <2>1. fresh' = FALSE /\ pc' = "off" /\ readEntryIndex' = 0
    BY <1>7 DEF Crash
  <2>2. FreePages' >= 0
    BY <1>0, <2>1
  <2>3. Shape'
    BY <1>2, <2>1, <2>2
  <2>4. Stage' /\ Copying'
    BY <2>1 DEF Stage, Copying, Calls
  <2>5. NvsTypes'
    <3>1. op' = NoOp /\ old' = FALSE /\ handle' = FALSE
      BY <1>7 DEF Crash
    <3>2. op' \in [key : AllKeys, type : Types \cup {"none"}, value : Values \cup {None, 1}]
      BY <3>1, TypeFacts
    <3>. QED  BY <1>0, <2>1, <3>1, <3>2 DEF PageInv, NvsTypes, Places
  <2>. QED  BY <2>3, <2>4, <2>5 DEF PageInv
<1>. QED  BY <1>4, <1>5, <1>6, <1>7

(* Altering the state of an item, other than to half written.              *)
LEMMA KeepShape ==
    ASSUME PageInv, NEW p, NEW i, NEW s \in {"written", "erased"},
           log' = Altered(log, p, i, s), fresh' = fresh
    PROVE  /\ Shape' /\ (SomeFreeing' <=> SomeFreeing) /\ (SomeHalf' => SomeHalf)
           /\ FreePages' = FreePages /\ log' \in Seq(PageSet)
           /\ Len(log') = Len(log) /\ (log' # << >> <=> log # << >>)
           /\ \A q \in 1 .. Len(log) :
                /\ log'[q].state = log[q].state
                /\ Len(log'[q].items) = Len(log[q].items)
                /\ \A j \in 1 .. Len(log[q].items) :
                     /\ Same(log'[q].items[j], log[q].items[j])
                     /\ log'[q].items[j].state =
                          IF q = p /\ j = i THEN s ELSE log[q].items[j].state
<1>0. log \in Seq(PageSet) /\ NvsTypes
  BY DEF PageInv, NvsTypes
<1>1. /\ log' \in Seq(PageSet) /\ Len(log') = Len(log)
      /\ \A q \in 1 .. Len(log) :
           /\ log'[q].state = log[q].state
           /\ Len(log'[q].items) = Len(log[q].items)
           /\ \A j \in 1 .. Len(log[q].items) :
                /\ Same(log'[q].items[j], log[q].items[j])
                /\ log'[q].items[j].state =
                     IF q = p /\ j = i THEN s ELSE log[q].items[j].state
  <2> DEFINE M == log'
  <2>1. s \in {"half", "written", "erased"} /\ M = Altered(log, p, i, s)
    OBVIOUS
  <2> HIDE DEF M
  <2>2. /\ M \in Seq(PageSet) /\ Len(M) = Len(log)
        /\ \A q \in 1 .. Len(log) :
             /\ M[q].state = log[q].state
             /\ Len(M[q].items) = Len(log[q].items)
             /\ \A j \in 1 .. Len(log[q].items) :
                  /\ Same(M[q].items[j], log[q].items[j])
                  /\ M[q].items[j].state =
                       IF q = p /\ j = i THEN s ELSE log[q].items[j].state
    BY <1>0, <2>1, SetStateIs
  <2>. QED  BY <2>2 DEF M
<1>2. /\ DOMAIN log = 1 .. Len(log) /\ DOMAIN log' = 1 .. Len(log)
      /\ \A q \in 1 .. Len(log) : /\ DOMAIN log[q].items = 1 .. Len(log[q].items)
                                  /\ DOMAIN log'[q].items = 1 .. Len(log[q].items)
  BY <1>0, <1>1, LogTypes
<1>3. FreePages' = FreePages
  BY <1>1 DEF FreePages
<1>4. SomeFreeing' <=> SomeFreeing
  BY <1>1, <1>2 DEF SomeFreeing
<1>5. ASSUME NEW q \in 1 .. Len(log), NEW j \in 1 .. Len(log[q].items), Half(q, j)'
      PROVE  Half(q, j)
  BY <1>1, <1>5 DEF Half
<1>6. SomeHalf' => SomeHalf
  BY <1>2, <1>5 DEF SomeHalf
<1>7. Shape'
  <2>1. (\A q \in DOMAIN log : Len(log[q].items) <= ENTRY_COUNT)'
    BY <1>1, <1>2 DEF PageInv, Shape
  <2>2. (\A q \in DOMAIN log : log[q].state = "active" => q = Len(log) /\ ~fresh)'
    BY <1>1, <1>2 DEF PageInv, Shape
  <2>3. (\A q, r \in DOMAIN log :
           log[q].state = "freeing" /\ log[r].state = "freeing" => q = r)'
    BY <1>1, <1>2 DEF PageInv, Shape
  <2>4. (\A q \in DOMAIN log : \A j \in DOMAIN log[q].items :
           Half(q, j) => log[q].state = "active" /\ j = Len(log[q].items))'
    <3>1. \A q \in DOMAIN log : \A j \in DOMAIN log[q].items :
            Half(q, j) => log[q].state = "active" /\ j = Len(log[q].items)
      BY DEF PageInv, Shape
    <3>. QED  BY <1>1, <1>2, <1>5, <3>1
  <2>. QED  BY <1>3, <2>1, <2>2, <2>3, <2>4 DEF PageInv, Shape
<1>8. log' # << >> <=> log # << >>
  BY <1>0, <1>1, EmptySeq
<1>. QED  BY <1>1, <1>3, <1>4, <1>6, <1>7, <1>8

(* Steps that erase an item.                                               *)
LEMMA PagesErase ==
    ASSUME PageInv,
           \/ LoadHalfWritten \/ LoadReplaced \/ LoadLast \/ EraseReplaced
           \/ EraseItem \/ EraseNext
    PROVE  PageInv'
<1>1. UNCHANGED log \/ \E p, i : log' = Altered(log, p, i, "erased")
  BY DEF LoadHalfWritten, LoadReplaced, LoadLast, EraseReplaced, EraseItem,
         EraseNext, SetState, Altered
<1>2. UNCHANGED <<fresh, readEntryIndex>>
  BY DEF LoadHalfWritten, LoadReplaced, LoadLast, EraseReplaced, EraseItem,
         EraseNext, ram, Return
<1>3. /\ Shape' /\ (SomeFreeing' <=> SomeFreeing) /\ (SomeHalf' => SomeHalf)
      /\ FreePages' = FreePages /\ log' \in Seq(PageSet)
      /\ log' # << >> <=> log # << >>
  <2>1. CASE UNCHANGED log
    BY <1>2, <2>1, KeepPages DEF PageInv, NvsTypes
  <2>2. CASE \E p, i : log' = Altered(log, p, i, "erased")
    <3>1. PICK p, i : log' = Altered(log, p, i, "erased")
      BY <2>2
    <3>. QED  BY <1>2, <3>1, KeepShape
  <2>. QED  BY <1>1, <2>1, <2>2
<1>4. \/ pc = "load" /\ pc' = "load" /\ op' = op /\ old' = old /\ handle' = handle
      \/ pc = "last" /\ pc' = "recover" /\ op' = op /\ old' = old /\ handle' = handle
      \/ pc = "replace" /\ pc' = "idle" /\ op' = NoOp /\ old' = FALSE /\ handle' = TRUE
      \/ pc = "erase" /\ pc' = "erased" /\ op' = op /\ old' = old /\ handle' = handle
      \/ pc = "eraseAll" /\ pc' = "eraseAll" /\ op' = op /\ old' = old /\ handle' = handle
  BY DEF LoadHalfWritten, LoadReplaced, LoadLast, EraseReplaced, EraseItem,
         EraseNext, ram, Return
<1>5. NvsTypes'
  BY <1>2, <1>3, <1>4, TypeFacts DEF PageInv, NvsTypes, Places, Calls
<1>6. Stage'
  BY <1>2, <1>3, <1>4 DEF PageInv, Stage, Calls
<1>7. Copying'
  BY <1>4 DEF Copying
<1>. QED  BY <1>3, <1>5, <1>6, <1>7 DEF PageInv

(* The entry table is altered: the half written item was the last one.     *)
LEMMA MarkWrittenIs ==
    ASSUME PageInv, MarkWritten
    PROVE  LET n == Len(log)
               m == Len(log[n].items)
           IN  /\ log # << >> /\ n \in 1 .. n /\ m \in 1 .. m /\ Last(log) = log[n]
               /\ log[n].state = "active" /\ Half(n, m)
               /\ log' = Altered(log, n, m, "written")
               /\ \A p \in 1 .. n : \A i \in 1 .. Len(log[p].items) :
                    Half(p, i) => p = n /\ i = m
<1> DEFINE n == Len(log)
           m == Len(log[n].items)
<1>1. log # << >> /\ ~fresh
  BY DEF MarkWritten, PageInv, Stage, Copying, Calls
<1>2. /\ n \in 1 .. n /\ Last(log) = log[n] /\ DOMAIN log = 1 .. n
  BY <1>1, LastIs, FreePagesIs DEF PageInv
<1>3. \A p \in 1 .. n : DOMAIN log[p].items = 1 .. Len(log[p].items)
  BY LogTypes DEF PageInv, NvsTypes
<1>4. PICK i \in 1 .. m : Half(n, i)
  BY <1>2, <1>3 DEF MarkWritten, NoneHalf, Half
<1>5. \A p \in 1 .. n : \A j \in 1 .. Len(log[p].items) : Half(p, j) =>
        /\ log[p].state = "active" /\ j = Len(log[p].items)
        /\ p = n
  BY <1>2, <1>3 DEF PageInv, Shape
<1>6. i = m /\ log[n].state = "active"
  BY <1>2, <1>4, <1>5
<1>7. log' = Altered(log, n, m, "written")
  BY <1>2 DEF MarkWritten, SetState, Altered
<1> HIDE DEF n, m
<1>8. m \in 1 .. m /\ Half(n, m)
  BY <1>4, <1>6
<1>9. \A p \in 1 .. n : \A j \in 1 .. Len(log[p].items) : Half(p, j) => p = n /\ j = m
  BY <1>5 DEF m
<1>. QED  BY <1>1, <1>2, <1>6, <1>7, <1>8, <1>9 DEF n, m

(* Page::writeEntry alters the entry table: MarkWritten keeps PageInv.     *)
LEMMA PagesMarkWritten ==
    ASSUME PageInv, MarkWritten
    PROVE  PageInv'
<1> DEFINE n == Len(log)
           m == Len(log[n].items)
<1>1. /\ log # << >> /\ n \in 1 .. n /\ m \in 1 .. m /\ Last(log) = log[n]
      /\ log[n].state = "active" /\ Half(n, m)
      /\ log' = Altered(log, n, m, "written")
      /\ \A p \in 1 .. n : \A i \in 1 .. Len(log[p].items) :
           Half(p, i) => p = n /\ i = m
  BY MarkWrittenIs
<1>2. /\ ~fresh /\ UNCHANGED ram /\ pc \in {"write", "copy"}
      /\ pc' = IF pc = "write" THEN "replace" ELSE pc
  BY DEF MarkWritten
<1>3. /\ Shape' /\ (SomeFreeing' <=> SomeFreeing) /\ FreePages' = FreePages
      /\ log' \in Seq(PageSet) /\ Len(log') = n /\ log' # << >>
      /\ \A q \in 1 .. n :
           /\ log'[q].state = log[q].state
           /\ Len(log'[q].items) = Len(log[q].items)
           /\ \A j \in 1 .. Len(log[q].items) :
                log'[q].items[j].state =
                  IF q = n /\ j = m THEN "written" ELSE log[q].items[j].state
  <2>1. "written" \in {"written", "erased"} /\ fresh' = fresh
    BY <1>2 DEF ram
  <2>. QED  BY <1>1, <2>1, KeepShape
<1>4. /\ DOMAIN log = 1 .. n /\ DOMAIN log' = 1 .. n
      /\ \A q \in 1 .. n : /\ DOMAIN log[q].items = 1 .. Len(log[q].items)
                            /\ DOMAIN log'[q].items = 1 .. Len(log[q].items)
  BY <1>3, LogTypes DEF PageInv, NvsTypes
<1>5. ~SomeHalf'
  <2> HIDE DEF n, m
  <2> SUFFICES ASSUME NEW q \in 1 .. n, NEW j \in 1 .. Len(log[q].items),
                      log'[q].items[j].state = "half"
               PROVE  FALSE
    BY <1>4 DEF SomeHalf, Half
  <2>1. ~(q = n /\ j = m)
    BY <1>3
  <2>2. Half(q, j)
    BY <1>3, <2>1 DEF Half
  <2>. QED  BY <1>1, <2>1, <2>2
<1>6. NvsTypes'
  BY <1>2, <1>3 DEF PageInv, NvsTypes, ram, Places, Calls
<1>7. Stage'
  BY <1>1, <1>2, <1>3, <1>5 DEF PageInv, Stage, Calls, ram
<1>8. Copying'
  <2>1. CASE pc = "write"
    BY <1>2, <2>1 DEF Copying
  <2>2. CASE pc = "copy"
    <3>1. Last(log') = log'[n]
      BY <1>3 DEF Last
    <3>2. /\ SomeFreeing /\ Len(log[n].items) <= readEntryIndex
          /\ \A f \in DOMAIN log : log[f].state = "freeing" =>
                      readEntryIndex <= Len(log[f].items)
      BY <1>1, <1>2, <2>2 DEF PageInv, Copying
    <3>3. readEntryIndex' = readEntryIndex
      BY <1>2 DEF ram
    <3> HIDE DEF m, n
    <3>4. Last(log').state = "active" /\ Len(Last(log').items) <= readEntryIndex
      BY <1>1, <1>3, <3>1, <3>2
    <3>5. \A f \in DOMAIN log' : log'[f].state = "freeing" =>
                      readEntryIndex <= Len(log'[f].items)
      BY <1>3, <1>4, <3>2
    <3>. QED  BY <1>3, <3>2, <3>3, <3>4, <3>5 DEF Copying
  <2>. QED  BY <1>2, <2>1, <2>2
<1>. QED  BY <1>3, <1>6, <1>7, <1>8 DEF PageInv

(* An entry is written to the last page, which has room for it.            *)
LEMMA WriteEntryIs ==
    ASSUME PageInv, log # << >>, NEW e \in ItemSet, WriteEntry(e), NoneHalf, ~fresh,
           Last(log).state = "active", Len(Last(log).items) < ENTRY_COUNT
    PROVE  LET n == Len(log)
               m == Len(log[n].items)
           IN  /\ n \in 1 .. n /\ m \in Nat /\ Last(log) = log[n] /\ Last(log)' = log'[n]
               /\ log' \in Seq(PageSet) /\ Len(log') = n /\ ~SomeHalf
               /\ \A q \in 1 .. n :
                    /\ log'[q].state = log[q].state
                    /\ q # n => log'[q].items = log[q].items
                    /\ \A j \in 1 .. Len(log[q].items) :
                         log'[q].items[j] = log[q].items[j]
               /\ Len(log'[n].items) = m + 1 /\ log'[n].items[m + 1].state = "half"
               /\ Same(log'[n].items[m + 1], e)
               /\ Shape' /\ (SomeFreeing' <=> SomeFreeing) /\ FreePages' = FreePages
<1> DEFINE n == Len(log)
           m == Len(log[n].items)
<1>1. /\ n \in 1 .. n /\ n \in Nat /\ n > 0 /\ Last(log) = log[n] /\ DOMAIN log = 1 .. n
  BY LastIs, FreePagesIs DEF PageInv
<1>2. /\ log \in Seq(PageSet) /\ ENTRY_COUNT \in Nat
      /\ \A q \in 1 .. n : /\ DOMAIN log[q].items = 1 .. Len(log[q].items)
                            /\ Len(log[q].items) \in Nat
  BY LogTypes, TypeFacts DEF PageInv, NvsTypes
<1>3. PICK h \in ItemSet : /\ h = [e EXCEPT !.state = "half"]
                           /\ h.state = "half" /\ Same(h, e)
  <2> DEFINE h == [e EXCEPT !.state = "half"]
  <2>1. h \in ItemSet /\ h.state = "half" /\ Same(h, e)
    BY DEF ItemSet, Same
  <2>. QED  BY <2>1
<1>4. log' = WithItem(log, h) /\ fresh' = fresh
  BY <1>3 DEF WriteEntry, WithItem
<1>5. /\ log' \in Seq(PageSet) /\ Len(log') = n
      /\ \A q \in 1 .. n :
           /\ log'[q].state = log[q].state
           /\ q # n => log'[q].items = log[q].items
           /\ q = n => /\ Len(log'[q].items) = Len(log[q].items) + 1
                       /\ log'[q].items[Len(log[q].items) + 1] = h
           /\ \A j \in 1 .. Len(log[q].items) : log'[q].items[j] = log[q].items[j]
  <2>1. log \in Seq(PageSet) /\ Len(log) > 0 /\ h \in ItemSet /\ log' = WithItem(log, h)
    BY <1>1, <1>2, <1>3, <1>4
  <2>. QED  BY <2>1, AddItemIs
<1>6. /\ DOMAIN log' = 1 .. n
      /\ \A q \in 1 .. n : DOMAIN log'[q].items = 1 .. Len(log'[q].items)
  BY <1>5, LogTypes
<1>7. ~SomeHalf
  <2>1. \A p \in 1 .. n : \A j \in 1 .. Len(log[p].items) : Half(p, j) => p = n
    BY <1>1, <1>2 DEF PageInv, Shape
  <2>2. \A j \in 1 .. m : ~Half(n, j)
    BY <1>1, <1>2 DEF NoneHalf, Half
  <2> HIDE DEF n
  <2>. QED  BY <1>1, <1>2, <2>1, <2>2 DEF SomeHalf
<1>8. ASSUME NEW q \in 1 .. n, NEW j \in 1 .. Len(log'[q].items),
             log'[q].items[j].state = "half"
      PROVE  q = n /\ j = m + 1 /\ j = Len(log'[q].items)
  <2>1. ~(j \in 1 .. Len(log[q].items))
    <3> SUFFICES ASSUME j \in 1 .. Len(log[q].items) PROVE FALSE
      OBVIOUS
    <3>1. log'[q].items[j] = log[q].items[j]
      BY <1>5
    <3>2. Half(q, j)
      BY <1>8, <3>1 DEF Half
    <3>. QED  BY <1>1, <1>2, <1>7, <3>2 DEF SomeHalf
  <2>3. q = n
    BY <1>5, <2>1
  <2>4. m \in Nat /\ j \in 1 .. m + 1 /\ ~(j \in 1 .. m) /\ Len(log'[q].items) = m + 1
    BY <1>2, <1>5, <2>1, <2>3
  <2> HIDE DEF m, n
  <2>. QED  BY <2>3, <2>4
<1>9. Shape'
  <2>1. (\A q \in DOMAIN log : Len(log[q].items) <= ENTRY_COUNT)'
    <3> SUFFICES ASSUME NEW q \in 1 .. n PROVE Len(log'[q].items) <= ENTRY_COUNT
      BY <1>6
    <3>1. CASE q = n
      <4>1. Len(log'[q].items) = m + 1 /\ m < ENTRY_COUNT /\ m \in Nat
        BY <1>1, <1>2, <1>5, <3>1
      <4> HIDE DEF m
      <4>. QED  BY <1>2, <4>1
    <3>2. CASE q # n
      <4>1. Len(log[q].items) <= ENTRY_COUNT /\ Len(log[q].items) \in Nat
            /\ Len(log'[q].items) = Len(log[q].items)
        BY <1>1, <1>2, <1>5, <3>2 DEF PageInv, Shape
      <4>. QED  BY <4>1
    <3>. QED  BY <3>1, <3>2
  <2>2. (\A q \in DOMAIN log : log[q].state = "active" => q = Len(log) /\ ~fresh)'
    BY <1>1, <1>4, <1>5, <1>6 DEF PageInv, Shape
  <2>3. (\A q, r \in DOMAIN log :
           log[q].state = "freeing" /\ log[r].state = "freeing" => q = r)'
    BY <1>1, <1>5, <1>6 DEF PageInv, Shape
  <2>4. (\A q \in DOMAIN log : \A j \in DOMAIN log[q].items :
           Half(q, j) => log[q].state = "active" /\ j = Len(log[q].items))'
    <3>1. log'[n].state = "active"
      BY <1>1, <1>5
    <3>. QED  BY <1>6, <1>8, <3>1 DEF Half
  <2>5. FreePages' = FreePages /\ FreePages >= 0
    BY <1>4, <1>5 DEF FreePages, PageInv, Shape
  <2>. QED  BY <2>1, <2>2, <2>3, <2>4, <2>5 DEF Shape
<1>10. SomeFreeing' <=> SomeFreeing
  BY <1>1, <1>5, <1>6 DEF SomeFreeing
<1>11. FreePages' = FreePages
  BY <1>4, <1>5 DEF FreePages
<1>12. Last(log)' = log'[n]
  BY <1>5 DEF Last
<1>13. /\ m \in Nat /\ Len(log'[n].items) = m + 1
       /\ log'[n].items[m + 1].state = "half" /\ Same(log'[n].items[m + 1], e)
  BY <1>1, <1>2, <1>3, <1>5
<1>. QED  BY <1>1, <1>3, <1>5, <1>7, <1>9, <1>10, <1>11, <1>12, <1>13

(* What WriteItem and CopyItem write, and that there is room for it.       *)
LEMMA WriteItemIs ==
    ASSUME PageInv, WriteItem
    PROVE  LET e == Item(op.key, op.type, op.value)
           IN  /\ e \in ItemSet /\ Same(e, op) /\ WriteEntry(e)
               /\ log # << >> /\ NoneHalf /\ ~fresh
               /\ Last(log).state = "active" /\ Len(Last(log).items) < ENTRY_COUNT
<1>1. Item(op.key, op.type, op.value) \in ItemSet /\ Same(Item(op.key, op.type, op.value), op)
  BY DEF PageInv, NvsTypes, Item, ItemSet, Same
<1>2. log # << >>
  BY DEF WriteItem, PageInv, Stage, Calls
<1>. QED  BY <1>1, <1>2 DEF WriteItem, HasRoom

(* Page::copyItems hands the next written item of the freed page on.       *)
LEMMA CopyItemIs ==
    ASSUME PageInv, CopyItem
    PROVE  /\ Freeing \in 1 .. Len(log) /\ log[Freeing].state = "freeing" /\ SomeFreeing
           /\ NextToCopy \in 1 .. Len(log[Freeing].items)
           /\ log[Freeing].items[NextToCopy] \in ItemSet
           /\ WriteEntry(log[Freeing].items[NextToCopy])
           /\ log # << >> /\ NoneHalf /\ ~fresh /\ readEntryIndex \in Nat
           /\ Last(log).state = "active" /\ Len(Last(log).items) < ENTRY_COUNT
           /\ Len(Last(log).items) \in Nat
           /\ Len(Last(log).items) <= readEntryIndex
           /\ NextToCopy > readEntryIndex
<1>1. /\ pc = "copy" /\ ~fresh /\ NoneHalf /\ NextToCopy # 0
      /\ WriteEntry(log[Freeing].items[NextToCopy])
  BY DEF CopyItem
<1>2. /\ log # << >> /\ Last(log).state = "active" /\ SomeFreeing
      /\ Len(Last(log).items) <= readEntryIndex
  BY <1>1 DEF PageInv, Copying
<1>3. Freeing \in 1 .. Len(log) /\ log[Freeing].state = "freeing"
  BY <1>2, FreeingIs DEF PageInv
<1>4. NextToCopy \in 1 .. Len(log[Freeing].items) /\ NextToCopy > readEntryIndex
  BY <1>1, <1>2, NextToCopyIs DEF PageInv
<1>5. /\ log[Freeing].items[NextToCopy] \in ItemSet /\ readEntryIndex \in Nat
      /\ Len(log[Freeing].items) \in Nat /\ ENTRY_COUNT \in Nat
  BY <1>3, <1>4, LogTypes, TypeFacts DEF PageInv, NvsTypes
<1>6. Len(log[Freeing].items) <= ENTRY_COUNT
  BY <1>3, FreePagesIs DEF PageInv, Shape
<1>7. Len(Last(log).items) \in Nat
  <2>1. Len(log) \in 1 .. Len(log) /\ Last(log) = log[Len(log)]
    BY <1>2, LastIs
  <2>. QED  BY <2>1, LogTypes DEF PageInv, NvsTypes
<1>8. Len(Last(log).items) < ENTRY_COUNT
  BY <1>2, <1>4, <1>5, <1>6, <1>7
<1>. QED  BY <1>1, <1>2, <1>3, <1>4, <1>5, <1>7, <1>8

(* Page::writeEntry writes an item: WriteItem and CopyItem keep PageInv.   *)
LEMMA PagesWrite ==
    ASSUME PageInv, WriteItem \/ CopyItem
    PROVE  PageInv'
<1>1. UNCHANGED <<fresh, op, old, handle, pc>>
  BY DEF WriteItem, CopyItem, WriteEntry
<1>2. CASE WriteItem
  <2> DEFINE e == Item(op.key, op.type, op.value)
  <2>1. /\ e \in ItemSet /\ WriteEntry(e) /\ log # << >> /\ NoneHalf /\ ~fresh
        /\ Last(log).state = "active" /\ Len(Last(log).items) < ENTRY_COUNT
    BY <1>2, WriteItemIs
  <2>2. pc = "write" /\ UNCHANGED readEntryIndex
    BY <1>2 DEF WriteItem
  <2> HIDE DEF e
  <2>3. /\ log' \in Seq(PageSet) /\ Len(log') = Len(log)
        /\ Shape' /\ (SomeFreeing' <=> SomeFreeing) /\ FreePages' = FreePages
    BY <2>1, WriteEntryIs
  <2>4. log' # << >>
    BY <2>1, <2>3, EmptySeq DEF PageInv, NvsTypes
  <2>5. NvsTypes'
    BY <1>1, <2>2, <2>3 DEF PageInv, NvsTypes
  <2>6. Stage'
    BY <1>1, <2>2, <2>3, <2>4 DEF PageInv, Stage, Calls
  <2>7. Copying'
    BY <1>1, <2>2 DEF Copying
  <2>. QED  BY <2>3, <2>5, <2>6, <2>7 DEF PageInv
<1>3. CASE CopyItem
  <2> DEFINE e == log[Freeing].items[NextToCopy]
             n == Len(log)
             m == Len(log[n].items)
  <2>1. /\ Freeing \in 1 .. n /\ log[Freeing].state = "freeing" /\ SomeFreeing
        /\ NextToCopy \in 1 .. Len(log[Freeing].items)
        /\ e \in ItemSet /\ WriteEntry(e)
        /\ log # << >> /\ NoneHalf /\ ~fresh /\ readEntryIndex \in Nat
        /\ Last(log).state = "active" /\ Len(Last(log).items) < ENTRY_COUNT
        /\ Len(Last(log).items) <= readEntryIndex
        /\ NextToCopy > readEntryIndex
    BY <1>3, CopyItemIs
  <2>2. pc = "copy" /\ readEntryIndex' = NextToCopy
    BY <1>3 DEF CopyItem
  <2> HIDE DEF e
  <2>3. /\ n \in 1 .. n /\ m \in Nat /\ Last(log) = log[n] /\ Last(log)' = log'[n]
        /\ log' \in Seq(PageSet) /\ Len(log') = n
        /\ \A q \in 1 .. n : /\ log'[q].state = log[q].state
                             /\ q # n => log'[q].items = log[q].items
        /\ Len(log'[n].items) = m + 1
        /\ Shape' /\ (SomeFreeing' <=> SomeFreeing) /\ FreePages' = FreePages
    BY <2>1, WriteEntryIs
  <2>4. log' # << >> /\ DOMAIN log = 1 .. n /\ DOMAIN log' = 1 .. n
    BY <2>1, <2>3, EmptySeq, LogTypes DEF PageInv, NvsTypes
  <2>5. NvsTypes'
    BY <1>1, <2>1, <2>2, <2>3 DEF PageInv, NvsTypes
  <2>6. Stage'
    BY <1>1, <2>1, <2>2, <2>3, <2>4 DEF PageInv, Stage, Calls
  <2>7. Copying'
    <3>1. m + 1 <= NextToCopy
      <4>1. m <= readEntryIndex
        BY <2>1, <2>3
      <4> HIDE DEF m
      <4>. QED  BY <2>1, <2>3, <4>1
    <3>2. \A f \in 1 .. n : log'[f].state = "freeing" =>
            NextToCopy <= Len(log'[f].items)
      <4> SUFFICES ASSUME NEW f \in 1 .. n, log'[f].state = "freeing"
                   PROVE  NextToCopy <= Len(log'[f].items)
        OBVIOUS
      <4>1. log[f].state = "freeing"
        BY <2>3
      <4>2. f = Freeing /\ f # n
        BY <2>1, <2>3, <2>4, <4>1 DEF PageInv, Shape
      <4>3. log'[f].items = log[f].items
        BY <2>3, <4>2
      <4>. QED  BY <2>1, <4>2, <4>3
    <3>3. log'[n].state = "active"
      BY <2>1, <2>3
    <3>. QED  BY <1>1, <2>1, <2>2, <2>3, <2>4, <3>1, <3>2, <3>3 DEF Copying
  <2>. QED  BY <2>3, <2>5, <2>6, <2>7 DEF PageInv
<1>. QED  BY <1>2, <1>3

(* A page becomes the last one when it is initialized.                     *)
LEMMA InitializePageIs ==
    ASSUME PageInv, InitializePage
    PROVE  /\ log' \in Seq(PageSet) /\ Len(log') = Len(log) + 1 /\ Len(log) \in Nat
           /\ DOMAIN log = 1 .. Len(log) /\ DOMAIN log' = 1 .. Len(log) + 1
           /\ \A q \in 1 .. Len(log) : log'[q] = log[q] /\ log[q].state # "active"
           /\ Last(log)' = log'[Len(log) + 1]
           /\ log'[Len(log) + 1].state = "active" /\ Len(log'[Len(log) + 1].items) = 0
           /\ DOMAIN log'[Len(log) + 1].items = {}
           /\ readEntryIndex = 0
<1>1. log \in Seq(PageSet) /\ log' = Append(log, [state |-> "active", items |-> << >>])
      /\ fresh /\ Len(log) \in Nat /\ DOMAIN log = 1 .. Len(log)
  BY LogTypes DEF PageInv, NvsTypes, InitializePage
<1>2. /\ log' \in Seq(PageSet) /\ Len(log') = Len(log) + 1
      /\ \A q \in 1 .. Len(log) : log'[q] = log[q]
      /\ log'[Len(log')].state = "active" /\ Len(log'[Len(log')].items) = 0
  BY <1>1, AddPageIs
<1>3. \A q \in 1 .. Len(log) : log[q].state # "active"
  BY <1>1 DEF PageInv, Shape
<1>4. DOMAIN log' = 1 .. Len(log) + 1 /\ Last(log)' = log'[Len(log) + 1]
  BY <1>2, LogTypes DEF Last
<1>5. DOMAIN log'[Len(log) + 1].items = {}
  <2>1. Len(log) + 1 \in 1 .. Len(log')
    BY <1>1, <1>2
  <2>2. DOMAIN log'[Len(log) + 1].items = 1 .. 0
    BY <1>2, <2>1, LogTypes
  <2>. QED  BY <2>2
<1>6. readEntryIndex = 0
  BY <1>1 DEF PageInv, Stage
<1>. QED  BY <1>1, <1>2, <1>3, <1>4, <1>5, <1>6

(* Page::initialize keeps PageInv: the new page is the last one.           *)
LEMMA PagesInitialize ==
    ASSUME PageInv, InitializePage
    PROVE  PageInv'
<1> DEFINE n == Len(log)
<1>1. /\ log' \in Seq(PageSet) /\ Len(log') = n + 1 /\ n \in Nat
      /\ DOMAIN log = 1 .. n /\ DOMAIN log' = 1 .. n + 1
      /\ \A q \in 1 .. n : log'[q] = log[q] /\ log[q].state # "active"
      /\ Last(log)' = log'[n + 1]
      /\ log'[n + 1].state = "active" /\ Len(log'[n + 1].items) = 0
      /\ DOMAIN log'[n + 1].items = {}
      /\ readEntryIndex = 0
  BY InitializePageIs
<1>2. /\ fresh /\ fresh' = FALSE /\ pc \in {"write", "copy"}
      /\ UNCHANGED <<op, old, readEntryIndex, handle, pc>>
  BY DEF InitializePage
<1>3. FreePages' = FreePages /\ FreePages >= 0
  <2>1. FreePages = PageCount - n - 1 /\ PageCount \in Nat
    BY <1>2, TypeFacts DEF FreePages
  <2>2. FreePages' = PageCount - (n + 1) - 0
    BY <1>1, <1>2 DEF FreePages
  <2> HIDE DEF n
  <2>3. FreePages' = FreePages
    BY <1>1, <2>1, <2>2
  <2>. QED  BY <2>3 DEF PageInv, Shape
<1>4. \A q \in 1 .. n + 1 : q \in 1 .. n \/ q = n + 1
  <2> HIDE DEF n
  <2>. QED  BY <1>1
<1>5. \A q \in 1 .. n : q \in 1 .. n + 1
  <2> HIDE DEF n
  <2>. QED  BY <1>1
<1>6. Shape'
  <2>0. ENTRY_COUNT \in Nat
    BY TypeFacts
  <2>1. (\A q \in DOMAIN log : Len(log[q].items) <= ENTRY_COUNT)'
    BY <1>1, <1>4, <2>0 DEF PageInv, Shape
  <2>2. (\A q \in DOMAIN log : log[q].state = "active" => q = Len(log) /\ ~fresh)'
    BY <1>1, <1>2, <1>4
  <2>3. (\A q, r \in DOMAIN log :
           log[q].state = "freeing" /\ log[r].state = "freeing" => q = r)'
    BY <1>1, <1>4 DEF PageInv, Shape
  <2>4. (\A q \in DOMAIN log : \A j \in DOMAIN log[q].items :
           Half(q, j) => log[q].state = "active" /\ j = Len(log[q].items))'
    <3> SUFFICES ASSUME NEW q \in 1 .. n + 1, NEW j \in DOMAIN log'[q].items,
                        log'[q].items[j].state = "half"
                 PROVE  FALSE
      BY <1>1 DEF Half
    <3>1. q \in 1 .. n
      BY <1>1, <1>4
    <3>2. Half(q, j) /\ j \in DOMAIN log[q].items /\ log[q].state # "active"
      BY <1>1, <3>1 DEF Half
    <3>. QED  BY <1>1, <3>1, <3>2 DEF PageInv, Shape
  <2>. QED  BY <1>3, <2>1, <2>2, <2>3, <2>4 DEF Shape
<1>7. SomeFreeing' <=> SomeFreeing
  BY <1>1, <1>4, <1>5 DEF SomeFreeing
<1>8. log' # << >>
  BY <1>1, EmptySeq
<1>9. NvsTypes'
  BY <1>1, <1>2 DEF PageInv, NvsTypes
<1>10. Stage'
  BY <1>1, <1>2, <1>3, <1>7, <1>8 DEF PageInv, Stage, Calls
<1>11. Copying'
  <2>1. \A f \in 1 .. n + 1 : log'[f].state = "freeing" => 0 <= Len(log'[f].items)
    BY <1>1, LogTypes
  <2>. QED  BY <1>1, <1>2, <1>7, <1>8, <2>1 DEF PageInv, Copying
<1>. QED  BY <1>6, <1>9, <1>10, <1>11 DEF PageInv

(* A page that is marked full, or to be freed, has no half written item.   *)
LEMMA MarkPageIs ==
    ASSUME PageInv, NEW p \in 1 .. Len(log), NEW s \in {"full", "freeing"},
           log' = WithPage(log, p, s), ~SomeHalf
    PROVE  /\ log' \in Seq(PageSet) /\ Len(log') = Len(log) /\ log' # << >>
           /\ DOMAIN log = 1 .. Len(log) /\ DOMAIN log' = 1 .. Len(log)
           /\ \A q \in 1 .. Len(log) :
                /\ log'[q].items = log[q].items
                /\ DOMAIN log[q].items = 1 .. Len(log[q].items)
                /\ log'[q].state = IF q = p THEN s ELSE log[q].state
           /\ ~SomeHalf'
<1>1. log \in Seq(PageSet) /\ s \in {"active", "full", "freeing"}
  BY DEF PageInv, NvsTypes
<1>2. /\ log' \in Seq(PageSet) /\ Len(log') = Len(log)
      /\ \A q \in 1 .. Len(log) :
           /\ log'[q].state = IF q = p THEN s ELSE log[q].state
           /\ log'[q].items = log[q].items
  BY <1>1, SetPageIs
<1>3. /\ DOMAIN log = 1 .. Len(log) /\ DOMAIN log' = 1 .. Len(log)
      /\ \A q \in 1 .. Len(log) : DOMAIN log[q].items = 1 .. Len(log[q].items)
  BY <1>1, <1>2, LogTypes
<1>4. ~SomeHalf'
  BY <1>2, <1>3 DEF SomeHalf, Half
<1>5. log' # << >>
  <2>1. Len(log) \in Nat /\ Len(log) # 0
    BY <1>1, LogTypes
  <2>. QED  BY <1>2, <2>1, EmptySeq
<1>. QED  BY <1>2, <1>3, <1>4, <1>5

(* When the last page has no half written item, no page has one.           *)
LEMMA NoHalf ==
    ASSUME PageInv, log # << >>, Last(log).state # "active" \/ NoneHalf
    PROVE  ~SomeHalf
<1>1. Len(log) \in 1 .. Len(log) /\ Last(log) = log[Len(log)] /\ DOMAIN log = 1 .. Len(log)
  BY LastIs, FreePagesIs DEF PageInv
<1>2. \A p \in 1 .. Len(log) : \A i \in DOMAIN log[p].items :
        Half(p, i) => p = Len(log) /\ log[p].state = "active"
  BY <1>1 DEF PageInv, Shape
<1>3. Last(log).state = "active" => \A i \in DOMAIN log[Len(log)].items : ~Half(Len(log), i)
  BY <1>1 DEF NoneHalf, Half
<1>. QED  BY <1>1, <1>2, <1>3 DEF SomeHalf

(* MarkFull alters the state of the last page.                             *)
LEMMA MarkFullIs ==
    ASSUME PageInv, MarkFull
    PROVE  /\ log # << >> /\ ~fresh /\ ~SomeHalf /\ Len(log) \in 1 .. Len(log)
           /\ log' = WithPage(log, Len(log), "full") /\ log[Len(log)].state = "active"
<1>1. log # << >> /\ ~fresh
  BY DEF MarkFull, HasRoom, PageInv, Stage, Calls
<1>2. ~SomeHalf
  BY <1>1, NoHalf DEF MarkFull
<1>3. Len(log) \in 1 .. Len(log) /\ Last(log) = log[Len(log)]
  BY <1>1, LastIs
<1>. QED  BY <1>1, <1>2, <1>3 DEF MarkFull, WithPage

(* PageManager::requestNewPage frees a page when none takes items any      *)
(* more.                                                                   *)
LEMMA FreePageIs ==
    ASSUME PageInv, FreePage
    PROVE  /\ log # << >> /\ ~fresh /\ ~SomeHalf /\ MostUnused \in 1 .. Len(log)
           /\ log' = WithPage(log, MostUnused, "freeing")
           /\ \A p \in DOMAIN log : log[p].state # "active"
<1>1. log # << >> /\ ~fresh /\ Last(log).state # "active"
  BY DEF FreePage, NeedsPage, HasRoom, PageInv, Stage, Calls
<1>2. ~SomeHalf
  BY <1>1, NoHalf
<1>3. MostUnused \in 1 .. Len(log)
  BY <1>1, MostUnusedIs DEF PageInv
<1>. QED  BY <1>1, <1>2, <1>3, LastIs DEF FreePage, WithPage

(* MarkFull and FreePage keep PageInv.                                     *)
LEMMA PagesMark ==
    ASSUME PageInv, MarkFull \/ FreePage
    PROVE  PageInv'
<1> DEFINE n == Len(log)
<1>0. n \in Nat /\ DOMAIN log = 1 .. n
  BY FreePagesIs DEF PageInv
<1>1. CASE MarkFull
  <2>1. /\ ~fresh /\ ~SomeHalf /\ n \in 1 .. n
        /\ log' = WithPage(log, n, "full") /\ log[n].state = "active"
    BY <1>1, MarkFullIs
  <2>2. /\ log' \in Seq(PageSet) /\ Len(log') = n /\ log' # << >>
        /\ DOMAIN log' = 1 .. n
        /\ \A q \in 1 .. n : /\ log'[q].items = log[q].items
                             /\ log'[q].state = IF q = n THEN "full" ELSE log[q].state
        /\ ~SomeHalf'
    <3>1. "full" \in {"full", "freeing"}
      OBVIOUS
    <3>. QED  BY <2>1, <3>1, MarkPageIs
  <2>3. pc = "write" /\ UNCHANGED <<fresh, op, old, readEntryIndex, handle, pc>>
    BY <1>1 DEF MarkFull, ram
  <2>4. FreePages' = FreePages
    BY <2>2, <2>3 DEF FreePages
  <2>5. (SomeFreeing' => SomeFreeing)
    BY <1>0, <2>2 DEF SomeFreeing
  <2>6. Shape'
    <3>1. (\A q \in DOMAIN log : Len(log[q].items) <= ENTRY_COUNT)'
      BY <1>0, <2>2 DEF PageInv, Shape
    <3>2. (\A q \in DOMAIN log : log[q].state = "active" => q = Len(log) /\ ~fresh)'
      BY <1>0, <2>1, <2>2, <2>3 DEF PageInv, Shape
    <3>3. (\A q, r \in DOMAIN log :
             log[q].state = "freeing" /\ log[r].state = "freeing" => q = r)'
      BY <1>0, <2>2 DEF PageInv, Shape
    <3>4. (\A q \in DOMAIN log : \A j \in DOMAIN log[q].items :
             Half(q, j) => log[q].state = "active" /\ j = Len(log[q].items))'
      BY <2>2 DEF SomeHalf
    <3>. QED  BY <2>4, <3>1, <3>2, <3>3, <3>4 DEF PageInv, Shape
  <2>7. NvsTypes'
    BY <2>2, <2>3 DEF PageInv, NvsTypes
  <2>8. Stage' /\ Copying'
    BY <2>1, <2>2, <2>3, <2>4, <2>5 DEF PageInv, Stage, Calls, Copying
  <2>. QED  BY <2>6, <2>7, <2>8 DEF PageInv
<1>2. CASE FreePage
  <2> DEFINE u == MostUnused
  <2>1. /\ ~fresh /\ ~SomeHalf /\ u \in 1 .. n
        /\ log' = WithPage(log, u, "freeing")
        /\ \A p \in DOMAIN log : log[p].state # "active"
    BY <1>2, FreePageIs
  <2>2. /\ log' \in Seq(PageSet) /\ Len(log') = n /\ log' # << >>
        /\ DOMAIN log' = 1 .. n
        /\ \A q \in 1 .. n : /\ log'[q].items = log[q].items
                             /\ log'[q].state = IF q = u THEN "freeing" ELSE log[q].state
        /\ ~SomeHalf'
    <3>1. "freeing" \in {"full", "freeing"}
      OBVIOUS
    <3>. QED  BY <2>1, <3>1, MarkPageIs
  <2>3. /\ pc = "write" /\ pc' = "copy" /\ fresh' = TRUE /\ FreePages = 1
        /\ UNCHANGED <<op, old, readEntryIndex, handle>>
    BY <1>2 DEF FreePage, NeedsPage
  <2>4. ~SomeFreeing /\ readEntryIndex = 0
    BY <2>3 DEF PageInv, Stage, Calls
  <2> HIDE DEF u
  <2>5. SomeFreeing'
    BY <2>1, <2>2 DEF SomeFreeing
  <2>6. FreePages' >= 0
    <3>1. PageCount - n - 0 = 1 /\ PageCount \in Nat
      BY <2>1, <2>3, TypeFacts DEF FreePages
    <3>2. FreePages' = PageCount - n - 1
      BY <2>2, <2>3 DEF FreePages
    <3> HIDE DEF n
    <3>. QED  BY <1>0, <3>1, <3>2
  <2>7. Shape'
    <3>1. (\A q \in DOMAIN log : Len(log[q].items) <= ENTRY_COUNT)'
      BY <1>0, <2>2 DEF PageInv, Shape
    <3>2. (\A q \in DOMAIN log : log[q].state = "active" => q = Len(log) /\ ~fresh)'
      BY <1>0, <2>1, <2>2
    <3>3. (\A q, r \in DOMAIN log :
             log[q].state = "freeing" /\ log[r].state = "freeing" => q = r)'
      BY <1>0, <2>2, <2>4 DEF SomeFreeing
    <3>4. (\A q \in DOMAIN log : \A j \in DOMAIN log[q].items :
             Half(q, j) => log[q].state = "active" /\ j = Len(log[q].items))'
      BY <2>2 DEF SomeHalf
    <3>. QED  BY <2>6, <3>1, <3>2, <3>3, <3>4 DEF Shape
  <2>8. NvsTypes'
    BY <2>2, <2>3 DEF PageInv, NvsTypes, Places
  <2>9. Stage' /\ Copying'
    BY <2>2, <2>3, <2>4, <2>5 DEF Stage, Calls, Copying
  <2>. QED  BY <2>7, <2>8, <2>9 DEF PageInv
<1>. QED  BY <1>1, <1>2

(* A page is erased: what becomes of the others.                           *)
Up(p, q) == IF q < p THEN q ELSE q + 1

Without(p) ==
    \/ log' = RemoveAt(log, p)
    \/ log' = Front(log) /\ p = Len(log)

(* The log without page p: the pages after it move up.                     *)
LEMMA RemoveIs ==
    ASSUME PageInv, NEW p \in 1 .. Len(log), Without(p), fresh' = fresh
    PROVE  /\ log' \in Seq(PageSet) /\ Len(log') = Len(log) - 1 /\ Len(log) \in Nat
           /\ DOMAIN log = 1 .. Len(log) /\ DOMAIN log' = 1 .. Len(log) - 1
           /\ \A q \in 1 .. Len(log) - 1 :
                /\ Up(p, q) \in 1 .. Len(log) /\ Up(p, q) # p
                /\ log'[q] = log[Up(p, q)]
                /\ Up(p, q) = Len(log) <=> q = Len(log) - 1 /\ p # Len(log)
           /\ \A q, r \in 1 .. Len(log) - 1 : Up(p, q) = Up(p, r) => q = r
           /\ \A q \in 1 .. Len(log) : q # p => \E r \in 1 .. Len(log) - 1 : q = Up(p, r)
           /\ Shape' /\ (SomeFreeing' => SomeFreeing) /\ (SomeHalf' => SomeHalf)
           /\ FreePages' = FreePages + 1
<1> DEFINE n == Len(log)
<1>1. log \in Seq(PageSet) /\ n \in Nat /\ DOMAIN log = 1 .. n
  BY FreePagesIs DEF PageInv, NvsTypes
<1>2. /\ log' \in Seq(PageSet) /\ Len(log') = n - 1
      /\ \A q \in 1 .. n - 1 : log'[q] = IF q < p THEN log[q] ELSE log[q + 1]
  <2>1. CASE log' = RemoveAt(log, p)
    BY <1>1, <2>1, RemoveAtIs
  <2>2. CASE log' = Front(log) /\ p = Len(log)
    <3>1. Len(log) > 0 /\ \A q \in 1 .. n - 1 : q < p
      BY <1>1, <2>2
    <3>2. /\ log' \in Seq(PageSet) /\ Len(log') = n - 1
          /\ \A q \in 1 .. n - 1 : log'[q] = log[q]
      BY <1>1, <2>2, <3>1, FrontIs
    <3>. QED  BY <3>1, <3>2
  <2>. QED  BY <2>1, <2>2 DEF Without
<1>3. DOMAIN log' = 1 .. n - 1
  BY <1>2, LogTypes
<1> HIDE DEF n
<1>4. \A q \in 1 .. n - 1 : /\ Up(p, q) \in 1 .. n /\ Up(p, q) # p
                            /\ log'[q] = log[Up(p, q)]
                            /\ Up(p, q) = n <=> q = n - 1 /\ p # n
  <2> TAKE q \in 1 .. n - 1
  <2>1. p \in 1 .. n
    BY DEF n
  <2>2. CASE q < p
    <3>1. Up(p, q) = q /\ log'[q] = log[q]
      BY <1>2, <2>2 DEF Up
    <3>. QED  BY <1>1, <2>1, <2>2, <3>1
  <2>3. CASE ~(q < p)
    <3>1. Up(p, q) = q + 1 /\ log'[q] = log[q + 1]
      BY <1>2, <2>3 DEF Up
    <3>. QED  BY <1>1, <2>1, <2>3, <3>1
  <2>. QED  BY <2>2, <2>3
<1>5. \A q, r \in 1 .. n - 1 : Up(p, q) = Up(p, r) => q = r
  BY <1>1 DEF Up, n
<1>6. \A q \in 1 .. n : q # p => \E r \in 1 .. n - 1 : q = Up(p, r)
  <2> SUFFICES ASSUME NEW q \in 1 .. n, q # p PROVE \E r \in 1 .. n - 1 : q = Up(p, r)
    OBVIOUS
  <2>1. p \in 1 .. n
    BY DEF n
  <2>2. CASE q < p
    <3>1. q \in 1 .. n - 1 /\ Up(p, q) = q
      BY <1>1, <2>1, <2>2 DEF Up
    <3>. QED  BY <3>1
  <2>3. CASE q > p
    <3>1. q - 1 \in 1 .. n - 1 /\ Up(p, q - 1) = q
      BY <1>1, <2>1, <2>3 DEF Up
    <3>. QED  BY <3>1
  <2>. QED  BY <1>1, <2>1, <2>2, <2>3
<1>7. FreePages' = FreePages + 1 /\ FreePages \in Int
  <2> DEFINE f == IF fresh THEN 1 ELSE 0
  <2>1. FreePages = PageCount - n - f /\ FreePages' = PageCount - (n - 1) - f
    BY <1>2 DEF FreePages, n
  <2>2. f \in Nat /\ PageCount \in Nat
    BY TypeFacts
  <2> HIDE DEF f
  <2>. QED  BY <1>1, <2>1, <2>2
<1>8. SomeFreeing' => SomeFreeing
  BY <1>1, <1>3, <1>4 DEF SomeFreeing
<1>9. SomeHalf' => SomeHalf
  BY <1>1, <1>3, <1>4 DEF SomeHalf, Half
<1>10. Shape'
  <2>1. (\A q \in DOMAIN log : Len(log[q].items) <= ENTRY_COUNT)'
    BY <1>1, <1>3, <1>4 DEF PageInv, Shape
  <2>2. (\A q \in DOMAIN log : log[q].state = "active" => q = Len(log) /\ ~fresh)'
    <3>1. \A q \in 1 .. n : log[q].state = "active" => q = n /\ ~fresh
      BY <1>1 DEF PageInv, Shape, n
    <3>. QED  BY <1>2, <1>3, <1>4, <3>1
  <2>3. (\A q, r \in DOMAIN log :
           log[q].state = "freeing" /\ log[r].state = "freeing" => q = r)'
    BY <1>1, <1>3, <1>4, <1>5 DEF PageInv, Shape
  <2>4. (\A q \in DOMAIN log : \A j \in DOMAIN log[q].items :
           Half(q, j) => log[q].state = "active" /\ j = Len(log[q].items))'
    <3>1. \A q \in 1 .. n : \A j \in DOMAIN log[q].items :
            log[q].items[j].state = "half"
              => log[q].state = "active" /\ j = Len(log[q].items)
      BY <1>1 DEF PageInv, Shape, Half
    <3>. QED  BY <1>3, <1>4, <3>1 DEF Half
  <2>5. FreePages' >= 0
    BY <1>7 DEF PageInv, Shape
  <2>. QED  BY <2>1, <2>2, <2>3, <2>4, <2>5 DEF Shape
<1>. QED  BY <1>1, <1>2, <1>3, <1>4, <1>5, <1>6, <1>7, <1>8, <1>9, <1>10 DEF n

(* The page that is being freed is not the copy.                           *)
LEMMA EraseFreedIs ==
    ASSUME PageInv, EraseFreed
    PROVE  /\ Freeing \in 1 .. Len(log) /\ log[Freeing].state = "freeing" /\ SomeFreeing
           /\ Without(Freeing) /\ log # << >> /\ ~SomeHalf
           /\ ~fresh => Freeing # Len(log)
<1>1. pc = "copy" /\ (fresh \/ NoneHalf) /\ log' = RemoveAt(log, Freeing) /\ SomeFreeing
  BY DEF EraseFreed, PageInv, Copying
<1>2. Freeing \in 1 .. Len(log) /\ log[Freeing].state = "freeing"
  BY <1>1, FreeingIs DEF PageInv
<1>3. log # << >> /\ DOMAIN log = 1 .. Len(log)
  BY <1>2, FreePagesIs DEF PageInv
<1>4. ~SomeHalf
  <2>1. CASE fresh
    BY <2>1 DEF PageInv, Shape, SomeHalf
  <2>2. CASE NoneHalf
    BY <1>3, <2>2, NoHalf
  <2>. QED  BY <1>1, <2>1, <2>2
<1>5. ~fresh => Freeing # Len(log)
  BY <1>1, <1>2, <1>3, LastIs DEF PageInv, Copying
<1>. QED  BY <1>1, <1>2, <1>3, <1>4, <1>5 DEF Without

(* PageManager::load discards the last page, a copy that was not finished. *)
LEMMA RecoverDiscardIs ==
    ASSUME PageInv, RecoverDiscard
    PROVE  /\ Len(log) \in 1 .. Len(log) /\ Without(Len(log)) /\ SomeFreeing
           /\ log[Len(log)].state = "active" /\ Last(log) = log[Len(log)] /\ ~SomeHalf
           /\ Freeing \in 1 .. Len(log) /\ log[Freeing].state = "freeing"
           /\ Freeing # Len(log)
<1>1. pc = "recover" /\ SomeFreeing /\ Last(log).state = "active" /\ log' = Front(log)
  BY FreeingIs DEF RecoverDiscard, PageInv
<1>2. log # << >> /\ ~SomeHalf
  BY <1>1 DEF PageInv, Stage
<1>3. Freeing \in 1 .. Len(log) /\ log[Freeing].state = "freeing"
  BY <1>1, FreeingIs DEF PageInv
<1>4. Len(log) \in 1 .. Len(log) /\ Last(log) = log[Len(log)]
  BY <1>2, LastIs
<1>. QED  BY <1>1, <1>2, <1>3, <1>4 DEF Without

(* Erasing a page keeps PageInv.                                           *)
LEMMA PagesRemove ==
    ASSUME PageInv, RecoverDiscard \/ FormatSector \/ EraseFreed
    PROVE  PageInv'
<1> DEFINE n == Len(log)
<1>0. n \in Nat /\ DOMAIN log = 1 .. n /\ FreePages \in Int
  BY FreePagesIs DEF PageInv
<1>1. ASSUME log' \in Seq(PageSet), Len(log') = n - 1, NEW p \in 1 .. n, p # n
      PROVE  log' # << >>
  <2>1. n > 1
    <3> HIDE DEF n
    <3>. QED  BY <1>0, <1>1
  <2> HIDE DEF n
  <2>2. n - 1 # 0
    BY <1>0, <2>1
  <2>. QED  BY <1>1, <2>2, EmptySeq
<1>2. CASE RecoverDiscard
  <2>1. /\ n \in 1 .. n /\ Without(n) /\ ~SomeHalf
        /\ Freeing \in 1 .. n /\ Freeing # n
    BY <1>2, RecoverDiscardIs
  <2>2. pc = "recover" /\ UNCHANGED ram /\ UNCHANGED pc
    BY <1>2 DEF RecoverDiscard
  <2>3. /\ log' \in Seq(PageSet) /\ Len(log') = n - 1 /\ Shape' /\ (SomeHalf' => SomeHalf)
    BY <2>1, <2>2, RemoveIs DEF ram
  <2>4. log' # << >>
    BY <1>1, <2>1, <2>3
  <2>5. NvsTypes' /\ Copying'
    BY <2>2, <2>3 DEF PageInv, NvsTypes, ram, Copying
  <2>6. Stage'
    BY <2>1, <2>2, <2>3, <2>4 DEF PageInv, Stage, Calls, ram
  <2>. QED  BY <2>3, <2>5, <2>6 DEF PageInv
<1>3. CASE FormatSector
  <2>1. PICK p \in 1 .. n : log' = RemoveAt(log, p)
    BY <1>0, <1>3 DEF FormatSector
  <2>2. pc = "format" /\ UNCHANGED ram /\ UNCHANGED pc
    BY <1>3 DEF FormatSector
  <2>3. /\ log' \in Seq(PageSet) /\ Shape' /\ (SomeHalf' => SomeHalf)
        /\ (SomeFreeing' => SomeFreeing)
    BY <2>1, <2>2, RemoveIs DEF ram, Without
  <2>4. NvsTypes' /\ Copying'
    BY <2>2, <2>3 DEF PageInv, NvsTypes, ram, Copying
  <2>5. Stage'
    BY <2>2, <2>3 DEF PageInv, Stage, Calls, ram
  <2>. QED  BY <2>3, <2>4, <2>5 DEF PageInv
<1>4. CASE EraseFreed
  <2> DEFINE f == Freeing
  <2>1. /\ f \in 1 .. n /\ log[f].state = "freeing"
        /\ Without(f) /\ ~SomeHalf /\ (~fresh => f # n)
    BY <1>4, EraseFreedIs
  <2>2. /\ pc = "copy" /\ pc' \in {"loaded", "write"} /\ readEntryIndex' = 0
        /\ UNCHANGED <<fresh, op, old, handle>>
    BY <1>4 DEF EraseFreed
  <2> HIDE DEF f
  <2>3. /\ log' \in Seq(PageSet) /\ Len(log') = n - 1 /\ DOMAIN log' = 1 .. n - 1
        /\ \A q \in 1 .. n - 1 : /\ Up(f, q) \in 1 .. n /\ Up(f, q) # f
                                 /\ log'[q] = log[Up(f, q)]
        /\ Shape' /\ (SomeHalf' => SomeHalf) /\ FreePages' = FreePages + 1
    BY <2>1, <2>2, RemoveIs
  <2>4. ~SomeFreeing'
    <3>1. \A q \in 1 .. n : log[q].state = "freeing" => q = f
      BY <1>0, <2>1 DEF PageInv, Shape
    <3>. QED  BY <2>3, <3>1 DEF SomeFreeing
  <2>5. fresh \/ log' # << >>
    BY <1>1, <2>1, <2>3
  <2>6. FreePages' >= 1
    <3>1. FreePages >= 0
      BY DEF PageInv, Shape
    <3>. QED  BY <1>0, <2>3, <3>1
  <2>7. NvsTypes' /\ Copying'
    BY <2>2, <2>3 DEF PageInv, NvsTypes, Copying, Places, Calls
  <2>8. Stage'
    BY <2>1, <2>2, <2>3, <2>4, <2>5, <2>6 DEF PageInv, Stage, Calls
  <2>. QED  BY <2>3, <2>7, <2>8 DEF PageInv
<1>. QED  BY <1>2, <1>3, <1>4

(* The partition as it is found.                                           *)
LEMMA InitIs ==
    ASSUME Init
    PROVE  /\ log \in Seq(PageSet) /\ Len(log) \in {0, PageCount - 1, PageCount}
           /\ \A p \in 1 .. Len(log) :
                /\ log[p].state = "full" /\ Len(log[p].items) = ENTRY_COUNT
                /\ \A i \in 1 .. ENTRY_COUNT : log[p].items[i] = Item(Foreign(p, i), "u8", 1)
<1>1. PICK n \in {0, PageCount - 1, PageCount} : log = UsedBefore(n)
  BY DEF Init
<1>2. n \in Nat /\ \A p \in 1 .. n : p \in 1 .. PageCount
  BY TypeFacts
<1>3. ASSUME NEW p \in 1 .. n
      PROVE  /\ log[p] \in PageSet /\ log[p].state = "full"
             /\ Len(log[p].items) = ENTRY_COUNT
             /\ \A i \in 1 .. ENTRY_COUNT : log[p].items[i] = Item(Foreign(p, i), "u8", 1)
  <2> DEFINE t == [j \in 1 .. ENTRY_COUNT |-> Item(Foreign(p, j), "u8", 1)]
  <2>1. log[p] = [state |-> "full", items |-> t]
    BY <1>1 DEF UsedBefore
  <2>2. \A j \in 1 .. ENTRY_COUNT : Item(Foreign(p, j), "u8", 1) \in ItemSet
    <3> TAKE j \in 1 .. ENTRY_COUNT
    <3>1. Foreign(p, j) \in AllKeys
      BY <1>2 DEF AllKeys
    <3>. QED  BY <3>1, TypeFacts DEF Item, ItemSet
  <2>3. t \in Seq(ItemSet) /\ Len(t) = ENTRY_COUNT
    <3>1. t \in [1 .. ENTRY_COUNT -> ItemSet] /\ ENTRY_COUNT \in Nat
      BY <2>2, TypeFacts
    <3> HIDE DEF t
    <3>. QED  BY <3>1, SeqDef, LenProperties
  <2>4. \A i \in 1 .. ENTRY_COUNT : t[i] = Item(Foreign(p, i), "u8", 1)
    OBVIOUS
  <2> HIDE DEF t
  <2>. QED  BY <2>1, <2>3, <2>4 DEF PageSet
<1>4. log \in Seq(PageSet) /\ Len(log) = n
  <2>1. log = [p \in 1 .. n |-> log[p]]
    BY <1>1 DEF UsedBefore
  <2>2. log \in [1 .. n -> PageSet]
    BY <1>3, <2>1
  <2>. QED  BY <1>2, <2>2, SeqDef, LenProperties
<1>. QED  BY <1>1, <1>3, <1>4

(* A partition as it may be before the first start.                        *)
LEMMA PagesInit ==
    ASSUME Init
    PROVE  PageInv
<1>1. /\ log \in Seq(PageSet) /\ Len(log) \in {0, PageCount - 1, PageCount}
      /\ \A p \in 1 .. Len(log) :
           /\ log[p].state = "full" /\ Len(log[p].items) = ENTRY_COUNT
           /\ \A i \in 1 .. ENTRY_COUNT : log[p].items[i] = Item(Foreign(p, i), "u8", 1)
  BY InitIs
<1>2. /\ fresh = FALSE /\ op = NoOp /\ old = FALSE /\ readEntryIndex = 0
      /\ handle = FALSE /\ pc = "off"
  BY DEF Init
<1>3. NvsTypes
  <2>1. op \in [key : AllKeys, type : Types \cup {"none"}, value : Values \cup {None, 1}]
    BY <1>2, TypeFacts
  <2>. QED  BY <1>1, <1>2, <2>1 DEF NvsTypes, Places
<1>4. /\ DOMAIN log = 1 .. Len(log)
      /\ \A p \in 1 .. Len(log) : DOMAIN log[p].items = 1 .. ENTRY_COUNT
  BY <1>1, LogTypes
<1>5. ~SomeFreeing /\ ~SomeHalf
  <2>1. ~SomeFreeing
    BY <1>1, <1>4 DEF SomeFreeing
  <2>2. \A k, t, v : Item(k, t, v).state = "written"
    BY DEF Item
  <2>. QED  BY <1>1, <1>4, <2>1, <2>2 DEF SomeHalf, Half
<1>6. FreePages >= 0
  <2>1. FreePages = PageCount - Len(log) - 0 /\ PageCount \in Nat
    BY <1>2, TypeFacts DEF FreePages
  <2>. QED  BY <1>1, <2>1
<1>7. Shape
  <2>1. \A p \in DOMAIN log : Len(log[p].items) <= ENTRY_COUNT
    BY <1>1, <1>4, TypeFacts
  <2>. QED  BY <1>1, <1>4, <1>5, <1>6, <2>1 DEF Shape, SomeHalf
<1>. QED  BY <1>2, <1>3, <1>7 DEF PageInv, Stage, Copying, Calls

(* A page is freed only while there is another to copy it to.              *)
LEMMA SpareNext ==
    ASSUME PageInv, PageInv', Spare, [Next]_vars
    PROVE  Spare'
<1>1. CASE pc' \in {"loaded", "format"} \cup Calls
  BY <1>1 DEF PageInv, Stage, Spare
<1>2. CASE pc' = "copy"
  <2>1. CASE ~fresh'
    BY <1>2, <2>1 DEF PageInv, Copying, Spare
  <2>2. CASE fresh'
    <3>1. log' \in Seq(PageSet) /\ FreePages' >= 0
      BY DEF PageInv, NvsTypes, Shape
    <3>2. /\ Len(log') \in Nat /\ PageCount \in Nat
          /\ PageCount - Len(log') - 1 >= 0
      BY <2>2, <3>1, TypeFacts DEF FreePages
    <3>3. Len(log') < PageCount
      BY <3>2
    <3>. QED  BY <3>3 DEF Spare
  <2>. QED  BY <2>1, <2>2
<1>3. CASE UNCHANGED log
  BY <1>3 DEF Spare, SomeFreeing
<1>4. CASE LoadHalfWritten \/ LoadReplaced \/ (LoadLast /\ log' # log)
  <2>1. PICK p, i : log' = Altered(log, p, i, "erased")
    BY <1>4 DEF LoadHalfWritten, LoadReplaced, LoadLast, SetState, Altered
  <2>2. fresh' = fresh
    BY <1>4 DEF LoadHalfWritten, LoadReplaced, LoadLast, ram
  <2>3. /\ SomeFreeing' <=> SomeFreeing
        /\ Len(log') = Len(log)
        /\ \A q \in 1 .. Len(log) : log'[q].state = log[q].state
    BY <2>1, <2>2, KeepShape
  <2>4. ASSUME SomeFreeing
        PROVE  Last(log').state = Last(log).state
    <3>1. DOMAIN log # {} /\ Len(log) \in Nat /\ DOMAIN log = 1 .. Len(log)
      BY <2>4, FreePagesIs DEF SomeFreeing, PageInv
    <3>2. Len(log) \in 1 .. Len(log)
      BY <3>1
    <3>. QED  BY <2>3, <3>2 DEF Last
  <2>. QED  BY <2>3, <2>4 DEF Spare
<1>5. CASE RecoverDiscard
  <2>1. /\ Len(log) \in Nat /\ PageCount \in Nat /\ Len(log) > 0 /\ ~fresh
        /\ PageCount - Len(log) - 0 >= 0
    BY <1>5, FreePagesIs, TypeFacts DEF RecoverDiscard, PageInv, Stage, Shape
  <2>2. Len(log') = Len(log) - 1
    BY <1>5, <2>1, FrontIs DEF RecoverDiscard, PageInv, NvsTypes
  <2>3. Len(log') < PageCount
    BY <2>1, <2>2
  <2>. QED  BY <2>3 DEF Spare
<1>6. CASE UNCHANGED vars
  BY <1>3, <1>6 DEF vars
<1>7. CASE Load
  BY <1>1, <1>2, <1>3, <1>4, <1>5, <1>7
     DEF Load, Power, LoadPages, LoadLast, RecoverActivate, RecoverNothing, Calls
<1>8. CASE Begin \/ eraseAll \/ close \/ Crash
  BY <1>1, <1>3, <1>8 DEF Begin, BeginFormat, FormatSector, Formatted, BeginOpen,
     eraseAll, close, Crash, Calls
<1>9. CASE Write \/ Erase
  BY <1>1, <1>2, <1>9
     DEF Write, InitializePage, WriteItem, CopyItem, WriteEntry, MarkWritten, EraseReplaced,
         MarkFull, TakeFreePage, NeedsPage, FreePage, EraseFreed, WriteFails, Erase,
         EraseItem, EraseReturn, EraseNext, EraseAllReturn, Refuse, Return, ram, Calls
<1>10. CASE \/ \E u \in Uses, v \in Values : setInt(u[1], u[2], v)
            \/ \E k \in Keys : erase(k)
  BY <1>3, <1>10 DEF setInt, erase, Call
<1>. QED  BY <1>6, <1>7, <1>8, <1>9, <1>10 DEF Next, Library

(* No page is being freed in a partition the program starts with.          *)
LEMMA SpareInit == Init => Spare
<1> SUFFICES ASSUME Init PROVE ~SomeFreeing
  BY DEF Spare
<1>1. PICK n : log = UsedBefore(n)
  BY DEF Init
<1>2. \A p \in DOMAIN log : log[p].state = "full"
  BY <1>1 DEF UsedBefore
<1>. QED  BY <1>2 DEF SomeFreeing

(* So the recovery gets its page.                                          *)
LEMMA ActivatesIs ==
    ASSUME PageInv, Spare, RecoverActivate
    PROVE  Activates
<1>1. SomeFreeing /\ Last(log).state # "active" /\ ~fresh
  BY FreeingIs DEF RecoverActivate, PageInv, Stage
<1>2. /\ Len(log) < PageCount /\ Len(log) \in Nat /\ PageCount \in Nat
      /\ FreePages = PageCount - Len(log) - 0
  BY <1>1, FreePagesIs, TypeFacts DEF Spare, PageInv
<1>3. FreePages > 0
  BY <1>2
<1>. QED  BY <1>3 DEF RecoverActivate, Activates

(* The pages are used as they should be in every state.                    *)
LEMMA PagesNext ==
    ASSUME PageInv, Spare, [Next]_vars
    PROVE  PageInv'
<1>0. RecoverActivate => Activates
  BY ActivatesIs
<1>1. CASE \/ Power \/ RecoverNothing \/ BeginFormat \/ Formatted \/ BeginOpen
           \/ \E u \in Uses, v \in Values : setInt(u[1], u[2], v)
           \/ WriteFails \/ \E k \in Keys : erase(k)
           \/ eraseAll \/ EraseReturn \/ EraseAllReturn \/ Refuse \/ close
           \/ UNCHANGED vars
  BY <1>1, PagesQuiet
<1>2. CASE LoadPages \/ Activates \/ TakeFreePage \/ Crash
  BY <1>2, PagesFresh
<1>3. CASE \/ LoadHalfWritten \/ LoadReplaced \/ LoadLast \/ EraseReplaced
           \/ EraseItem \/ EraseNext
  BY <1>3, PagesErase
<1>4. CASE MarkWritten
  BY <1>4, PagesMarkWritten
<1>5. CASE WriteItem \/ CopyItem
  BY <1>5, PagesWrite
<1>6. CASE InitializePage
  BY <1>6, PagesInitialize
<1>7. CASE MarkFull \/ FreePage
  BY <1>7, PagesMark
<1>8. CASE RecoverDiscard \/ FormatSector \/ EraseFreed
  BY <1>8, PagesRemove
<1>. QED  BY <1>0, <1>1, <1>2, <1>3, <1>4, <1>5, <1>6, <1>7, <1>8
          DEF Next, Library, Load, Begin, Write, Erase

(* PageInv holds at every flash write, of a call as of the recovery.       *)
(* The recovery never lacks a page for the copy it makes.                  *)
THEOREM PagesInductive == Spec => [](PageInv /\ Spare)
<1>1. Init => PageInv /\ Spare
  BY PagesInit, SpareInit
<1>2. PageInv /\ Spare /\ [Next]_vars => PageInv' /\ Spare'
  BY PagesNext, SpareNext
<1>. QED  BY <1>1, <1>2, PTL DEF Spec

(* No page overflows, one page at most takes items, and between calls no   *)
(* page is left half freed and there is a free one, so that the next begin *)
(* does not find a partition it would have to erase.                       *)
THEOREM PagesSoundHolds == Spec => []PagesSound
<1>1. PageInv => PagesSound
  <2> SUFFICES ASSUME PageInv PROVE PagesSound
    OBVIOUS
  <2>1. \A p \in DOMAIN log : Len(log[p].items) <= ENTRY_COUNT
    BY DEF PageInv, Shape
  <2>2. Cardinality(ActivePages) <= 1
    <3>1. ActivePages \subseteq {Len(log)}
      BY DEF PageInv, Shape, ActivePages
    <3>2. IsFiniteSet({Len(log)}) /\ Cardinality({Len(log)}) = 1
      BY FS_Singleton
    <3>3. /\ IsFiniteSet(ActivePages)
          /\ Cardinality(ActivePages) <= Cardinality({Len(log)})
      BY <3>1, <3>2, FS_Subset
    <3>. QED  BY <3>2, <3>3
  <2>3. pc = "idle" => FreePages >= 1 /\ Freeing = 0
    BY FreeingIs DEF PageInv, Stage, Calls
  <2>. QED  BY <2>1, <2>2, <2>3 DEF PagesSound
<1>. QED  BY <1>1, PagesInductive, PTL
-----------------------------------------------------------------------------
(* The invariant of the items.                                             *)

(* A key is always stored with the same type.                              *)
LEMMA KeyKinds ==
    /\ \A u \in Uses : u[1] \in 1 .. 99 /\ u = <<u[1], u[2]>>
    /\ \A k \in ForeignKeys : k \in Nat /\ k > 99
    /\ "none" \notin Types /\ "any" \notin Types
<1>1. \A u \in Uses : u[1] \in 1 .. 99 /\ u = <<u[1], u[2]>>
  <2> TAKE u \in Uses
  <2>1. u \in (1 .. 99) \X Range(GetOrder)
    BY NvsAssumption
  <2>. QED  BY <2>1
<1>2. \A k \in ForeignKeys : k \in Nat /\ k > 99
  <2> SUFFICES ASSUME NEW i \in 1 .. PageCount, NEW j \in 1 .. ENTRY_COUNT
               PROVE  Foreign(i, j) \in Nat /\ Foreign(i, j) > 99
    BY DEF ForeignKeys
  <2>1. i \in Nat /\ j \in Nat /\ ENTRY_COUNT \in Nat
    BY TypeFacts
  <2> DEFINE m == i * ENTRY_COUNT
  <2>2. m \in Nat
    BY <2>1
  <2>3. Foreign(i, j) = 100 + m + j
    BY DEF Foreign
  <2> HIDE DEF m
  <2>. QED  BY <2>1, <2>2, <2>3
<1>3. "none" \notin Types /\ "any" \notin Types
  BY DEF Types, Range, GetOrder
<1>. QED  BY <1>1, <1>2, <1>3

(* With one type per setting a key has one type.                           *)
LEMMA OneType ==
    ASSUME OneTypeEach, NEW a \in Pairs, NEW b \in Pairs, a[1] = b[1]
    PROVE  a[2] = b[2]
<1>1. ASSUME NEW c \in Pairs
      PROVE  \/ c \in Uses /\ c[1] \in 1 .. 99
             \/ c[2] = "u8" /\ (c[1] = 0 \/ (c[1] \in Nat /\ c[1] > 99))
  BY KeyKinds DEF Pairs, Namespace
<1>2. CASE a \in Uses /\ b \in Uses
  BY <1>2 DEF OneTypeEach
<1>3. CASE ~(a \in Uses /\ b \in Uses)
  <2>1. ASSUME NEW c \in Pairs, NEW d \in Pairs, c[1] = d[1], c \in Uses
        PROVE  d \in Uses
    <3> DEFINE x == c[1]
    <3>1. x \in 1 .. 99
      BY <2>1, KeyKinds
    <3>2. d \in Uses \/ x = 0 \/ (x \in Nat /\ x > 99)
      BY <1>1, <2>1
    <3> HIDE DEF x
    <3>. QED  BY <3>1, <3>2
  <2>2. a \notin Uses /\ b \notin Uses
    BY <1>3, <2>1
  <2>. QED  BY <1>1, <2>2
<1>. QED  BY <1>2, <1>3

(* So an item has the type its key is used with.                           *)
LEMMA SameType ==
    ASSUME OneTypeEach, Kinds,
           NEW p \in DOMAIN log, NEW i \in DOMAIN log[p].items, NEW t,
           <<log[p].items[i].key, t>> \in Pairs
    PROVE  log[p].items[i].type = t
<1> DEFINE a == <<log[p].items[i].key, log[p].items[i].type>>
           b == <<log[p].items[i].key, t>>
<1>1. a \in Pairs /\ b \in Pairs /\ a[1] = b[1]
  BY DEF Kinds
<1>2. a[2] = b[2]
  <2> HIDE DEF a, b
  <2>. QED  BY <1>1, OneType
<1>. QED  BY <1>2

(* Where a key is kept: an item that counts, in a page that counts.        *)
At(p, i, k) == p \in DOMAIN log /\ i \in DOMAIN log[p].items /\ Live(p, i, k)

(* When no page is being freed all pages count.                            *)
LEMMA AllCount ==
    ASSUME ~SomeFreeing
    PROVE  \A p : Counts(p)
BY DEF SomeFreeing, Counts

(* A key exists if it is kept somewhere.                                   *)
LEMMA ExistsAt == \A k : Exists(k) <=> \E p, i : At(p, i, k)
BY DEF Exists, At

(* A page that has an item of the key is found to have one.                *)
LEMMA PageFinds ==
    ASSUME OneTypeEach, PageInv, Kinds, NEW k, NEW t,
           t = "any" \/ <<k, t>> \in Pairs,
           NEW q \in DOMAIN log, NEW j \in DOMAIN log[q].items, Holds(q, j, k)
    PROVE  PageFind(log[q], k, t) # 0
<1>0. /\ q \in 1 .. Len(log) /\ log[q] \in PageSet
      /\ DOMAIN log[q].items = 1 .. Len(log[q].items)
  BY LogTypes DEF PageInv, NvsTypes
<1> SUFFICES ASSUME PageFind(log[q], k, t) = 0 PROVE FALSE
  OBVIOUS
<1>1. log[q].items[j].state = "written" /\ log[q].items[j].key = k
  BY DEF Holds
<1>2. t # "any" /\ \E l \in 1 .. Len(log[q].items) :
                      log[q].items[l].key = k /\ log[q].items[l].type # t
  BY <1>0, <1>1, PageFindIs
<1>3. PICK l \in DOMAIN log[q].items : log[q].items[l].key = k /\ log[q].items[l].type # t
  BY <1>0, <1>2
<1>4. <<log[q].items[l].key, t>> \in Pairs
  BY <1>2, <1>3
<1>. QED  BY <1>3, <1>4, SameType

(* Storage::findItem finds the first item of the key there is.             *)
LEMMA FindsFirst ==
    ASSUME OneTypeEach, PageInv, Kinds, NEW k, NEW t,
           t = "any" \/ <<k, t>> \in Pairs
    PROVE  LET p == FindItem(k, t)
               i == PageFind(log[p], k, t)
           IN  /\ p = 0 => \A q \in DOMAIN log : \A j \in DOMAIN log[q].items : ~Holds(q, j, k)
               /\ p # 0 =>
                    /\ p \in DOMAIN log /\ i \in DOMAIN log[p].items /\ Holds(p, i, k)
                    /\ \A q \in DOMAIN log : \A j \in DOMAIN log[q].items :
                         Holds(q, j, k) => p < q \/ (p = q /\ i <= j)
<1> DEFINE p == FindItem(k, t)
           i == PageFind(log[p], k, t)
<1>0. NvsTypes /\ log \in Seq(PageSet) /\ DOMAIN log = 1 .. Len(log)
      /\ Len(log) \in Nat
      /\ \A q \in 1 .. Len(log) : /\ log[q] \in PageSet
                                  /\ DOMAIN log[q].items = 1 .. Len(log[q].items)
  BY LogTypes DEF PageInv, NvsTypes
<1>1. \A q \in DOMAIN log : \A j \in DOMAIN log[q].items :
        Holds(q, j, k) => PageFind(log[q], k, t) # 0
  BY PageFinds
<1>2. p = 0 => \A q \in DOMAIN log : PageFind(log[q], k, t) = 0
  BY <1>0, FindItemIs
<1>3. p # 0 => /\ p \in DOMAIN log /\ i # 0
               /\ \A q \in DOMAIN log : PageFind(log[q], k, t) # 0 => p <= q
  BY <1>0, FindItemIs
<1> HIDE DEF p
<1>4. CASE p = 0
  BY <1>1, <1>2, <1>4 DEF p
<1>5. CASE p # 0
  <2>1. p \in DOMAIN log /\ log[p] \in PageSet /\ i # 0 /\ DOMAIN log[p].items = 1 .. Len(log[p].items)
    BY <1>0, <1>3, <1>5
  <2>2. /\ i \in DOMAIN log[p].items /\ Holds(p, i, k)
        /\ \A j \in DOMAIN log[p].items : Holds(p, j, k) => i <= j
    BY <2>1, PageFindIs DEF Holds
  <2> HIDE DEF i
  <2>3. ASSUME NEW q \in DOMAIN log, NEW j \in DOMAIN log[q].items, Holds(q, j, k)
        PROVE  p < q \/ (p = q /\ i <= j)
    <3>1. p <= q
      BY <1>1, <1>3, <1>5, <2>3
    <3>2. p \in Nat /\ q \in Nat
      BY <1>0, <2>1
    <3>. QED  BY <2>2, <2>3, <3>1, <3>2
  <2>. QED  BY <1>5, <2>1, <2>2, <2>3 DEF p, i
<1>. QED  BY <1>4, <1>5

(* A step that leaves the log alone leaves alone what is in it.            *)
LEMMA KeepLog ==
    ASSUME UNCHANGED log
    PROVE  /\ \A p, i, k : At(p, i, k)' <=> At(p, i, k)
           /\ \A p, i, k : Live(p, i, k)' <=> Live(p, i, k)
           /\ \A p, i, k : Holds(p, i, k)' <=> Holds(p, i, k)
           /\ \A k : Exists(k)' <=> Exists(k)
           /\ \A p, i : IsWritten(p, i)' <=> IsWritten(p, i)
           /\ \A p, i : Half(p, i)' <=> Half(p, i)
           /\ SomeFreeing' <=> SomeFreeing
           /\ SomeHalf' <=> SomeHalf
           /\ Kinds' <=> Kinds
           /\ \A p, i : pc' \in {"off", "load", "last", "replace"} /\ Newest(p, i)
                          => Newest(p, i)'
<1>1. \A p, i, k : Holds(p, i, k)' <=> Holds(p, i, k)
  BY DEF Holds
<1>2. \A p : Counts(p)' <=> Counts(p)
  BY DEF Counts
<1>3. \A p, i, k : Live(p, i, k)' <=> Live(p, i, k)
  BY <1>1, <1>2 DEF Live
<1>4. \A p, i, k : At(p, i, k)' <=> At(p, i, k)
  BY <1>3 DEF At
<1>5. \A k : Exists(k)' <=> Exists(k)
  BY <1>3 DEF Exists
<1>6. \A p, i : IsWritten(p, i)' <=> IsWritten(p, i)
  BY DEF IsWritten
<1>7. \A p, i : Half(p, i)' <=> Half(p, i)
  BY DEF Half
<1>8. (SomeFreeing' <=> SomeFreeing) /\ (SomeHalf' <=> SomeHalf)
  BY <1>7 DEF SomeFreeing, SomeHalf
<1>9. Kinds' <=> Kinds
  BY DEF Kinds
<1>10. ASSUME NEW p, NEW i, pc' \in {"off", "load", "last", "replace"}, Newest(p, i)
       PROVE  Newest(p, i)'
  BY <1>6, <1>10 DEF Newest
<1>. QED  BY <1>1, <1>3, <1>4, <1>5, <1>6, <1>7, <1>8, <1>9, <1>10

Early == {"off", "load", "last", "replace"}

(* Fewer items, or the same, stay unique.                                  *)
LEMMA KeepUnique ==
    ASSUME Unique, \A p, i, k : At(p, i, k)' => At(p, i, k),
           \A p, i, k : At(p, i, k)' /\ Newest(p, i) => Newest(p, i)'
    PROVE  Unique'
<1> SUFFICES ASSUME NEW p \in DOMAIN log', NEW q \in DOMAIN log',
                    NEW i \in DOMAIN log'[p].items, NEW j \in DOMAIN log'[q].items,
                    NEW k \in AllKeys, Live(p, i, k)', Live(q, j, k)'
             PROVE  (p = q /\ i = j) \/ Newest(p, i)' \/ Newest(q, j)'
  BY DEF Unique
<1>1. At(p, i, k)' /\ At(q, j, k)'
  BY DEF At
<1>2. At(p, i, k) /\ At(q, j, k)
  BY <1>1
<1>3. (p = q /\ i = j) \/ Newest(p, i) \/ Newest(q, j)
  BY <1>2 DEF Unique, At
<1>. QED  BY <1>1, <1>3

(* Outside of a write and the recovery from one a key is kept once.        *)
LEMMA StrictUnique ==
    ASSUME Unique, pc \notin Early, NEW p, NEW i, NEW q, NEW j, NEW k,
           At(p, i, k), At(q, j, k), k \in AllKeys
    PROVE  p = q /\ i = j
BY DEF Unique, At, Newest, Early

(* The power comes and goes, and a call begins or ends.                    *)
LEMMA DataStutter ==
    ASSUME DataInv, UNCHANGED vars
    PROVE  DataInv'
<1>0. UNCHANGED <<log, fresh, op, old, readEntryIndex, handle, pc>>
  BY DEF vars, ram
<1>1. /\ \A p, i, k : At(p, i, k)' <=> At(p, i, k)
      /\ \A p, i, k : Live(p, i, k)' <=> Live(p, i, k)
      /\ \A p, i, k : Holds(p, i, k)' <=> Holds(p, i, k)
      /\ \A k : Exists(k)' <=> Exists(k)
      /\ \A p, i : IsWritten(p, i)' <=> IsWritten(p, i)
      /\ \A p, i : Half(p, i)' <=> Half(p, i)
      /\ SomeFreeing' <=> SomeFreeing
      /\ SomeHalf' <=> SomeHalf
      /\ Kinds' <=> Kinds
  BY <1>0, KeepLog
<1>2. \A p, i : Newest(p, i)' <=> Newest(p, i)
  BY <1>0, <1>1 DEF Newest
<1>3. Kinds' /\ Source' /\ Copied'
  BY <1>0, <1>1 DEF DataInv, Source, Copied
<1>4. Unique'
  BY <1>0, <1>1, <1>2, KeepUnique DEF DataInv
<1>5. NoneReplaced'
  BY <1>0, <1>1 DEF DataInv, NoneReplaced
<1>6. Unopened'
  BY <1>0, <1>1 DEF DataInv, Unopened
<1>7. Writing'
  BY <1>0, <1>1 DEF DataInv, Writing
<1>8. Replacing'
  BY <1>0, <1>1 DEF DataInv, Replacing
<1>9. Erasing'
  BY <1>0, <1>1 DEF DataInv, Erasing
<1>. QED  BY <1>3, <1>4, <1>5, <1>6, <1>7, <1>8, <1>9 DEF DataInv

(* A step that leaves the log alone keeps what is said of the items.       *)
LEMMA DataQuiet ==
    ASSUME OneTypeEach, PageInv, DataInv,
           \/ Power \/ LoadPages \/ Activates \/ RecoverNothing
           \/ BeginFormat \/ Formatted \/ BeginOpen
           \/ \E u \in Uses, v \in Values : setInt(u[1], u[2], v)
           \/ TakeFreePage \/ WriteFails \/ \E k \in Keys : erase(k)
           \/ eraseAll \/ EraseReturn \/ EraseAllReturn \/ Refuse \/ close \/ Crash
    PROVE  DataInv'
<1>0. /\ UNCHANGED log /\ (pc' = "copy" => Activates) /\ (pc' = "last" => LoadPages)
      /\ pc' # "replace" /\ (pc' = "format" => BeginFormat)
      /\ pc' = "write" => \/ BeginOpen \/ TakeFreePage
                          \/ \E u \in Uses, v \in Values : setInt(u[1], u[2], v)
      /\ pc' = "erase" => \E k \in Keys : erase(k)
      /\ pc' # "erased"
      /\ pc \in Early => pc' \in Early \/ (LoadPages /\ log = << >>)
  BY DEF Power, LoadPages, Activates, RecoverNothing, BeginFormat, Formatted,
         BeginOpen, setInt, TakeFreePage, WriteFails, erase, eraseAll, EraseReturn,
         EraseAllReturn, Call, Refuse, close, Crash, Return, NeedsPage, Early
<1>1. /\ \A p, i, k : At(p, i, k)' <=> At(p, i, k)
      /\ \A p, i, k : Live(p, i, k)' <=> Live(p, i, k)
      /\ \A p, i, k : Holds(p, i, k)' <=> Holds(p, i, k)
      /\ \A k : Exists(k)' <=> Exists(k)
      /\ \A p, i : IsWritten(p, i)' <=> IsWritten(p, i)
      /\ \A p, i : Half(p, i)' <=> Half(p, i)
      /\ SomeFreeing' <=> SomeFreeing
      /\ SomeHalf' <=> SomeHalf
      /\ Kinds'
      /\ \A p, i : pc' \in Early /\ Newest(p, i) => Newest(p, i)'
  BY <1>0, KeepLog DEF DataInv, Early
<1>2. Source' /\ Copied'
  <2>1. CASE Activates
    BY <1>0, <2>1 DEF Activates, Source, Copied
  <2>2. CASE ~Activates
    BY <1>0, <1>1, <2>2 DEF DataInv, Source, Copied
  <2>. QED  BY <2>1, <2>2
<1>3. Unique'
  <2>1. CASE pc \in Early /\ pc' \notin Early
    BY <1>0, <2>1 DEF Unique
  <2>2. CASE ~(pc \in Early /\ pc' \notin Early)
    <3>1. \A p, i : Newest(p, i) => Newest(p, i)'
      BY <1>1, <2>2 DEF Newest, Early
    <3>. QED  BY <1>1, <3>1, KeepUnique DEF DataInv
  <2>. QED  BY <2>1, <2>2
<1>4. NoneReplaced'
  <2> SUFFICES ASSUME LoadPages,
                      NEW p \in DOMAIN log, NEW i \in DOMAIN log[p].items,
                      NEW j \in DOMAIN log[p].items, NEW k \in AllKeys,
                      Live(p, i, k), Live(p, j, k), i # j
               PROVE  FALSE
    BY <1>0, <1>1 DEF NoneReplaced
  <2>1. Newest(p, i) \/ Newest(p, j)
    BY DEF DataInv, Unique
  <2>2. p \in ActivePages
    BY <2>1 DEF Newest, ActivePages
  <2>3. /\ Len(log[p].items) \in Nat /\ DOMAIN log[p].items = 1 .. Len(log[p].items)
        /\ Len(log[p].items) <= ENTRY_COUNT /\ ENTRY_COUNT \in Nat
    BY LogTypes, TypeFacts DEF PageInv, NvsTypes, Shape
  <2>4. ASSUME NEW a \in DOMAIN log[p].items, NEW b \in DOMAIN log[p].items, a < b,
               Holds(p, a, k), Holds(p, b, k)
        PROVE  FALSE
    <3>1. a \in 1 .. ENTRY_COUNT /\ b \in 1 .. ENTRY_COUNT /\ b <= Len(log[p].items)
      BY <2>3
    <3>2. <<p, a, b>> \in Replaced
      BY <2>2, <2>4, <3>1 DEF Replaced, Holds
    <3>. QED  BY <3>2 DEF LoadPages
  <2>5. i < j \/ j < i
    BY <2>3
  <2>. QED  BY <2>4, <2>5 DEF Live
<1>5. Unopened'
  <2>1. CASE BeginFormat
    <3>1. Len(log) = PageCount /\ ~SomeFreeing
      <4>1. FreePages = 0 /\ pc = "loaded"
        BY <2>1 DEF BeginFormat
      <4>2. ~SomeFreeing /\ ~fresh
        <5>1. fresh => FreePages >= 1
          BY <4>1 DEF PageInv, Stage
        <5>. QED  BY <4>1, <5>1 DEF PageInv, Stage
      <4>3. PageCount - Len(log) - 0 = 0 /\ Len(log) \in Nat /\ PageCount \in Nat
        BY <4>1, <4>2, FreePagesIs, TypeFacts DEF PageInv
      <4>. QED  BY <4>2, <4>3
    <3>. QED  BY <1>0, <1>1, <3>1 DEF DataInv, Unopened
  <2>2. CASE ~BeginFormat
    BY <1>0, <1>1, <2>2 DEF DataInv, Unopened
  <2>. QED  BY <2>1, <2>2
<1>6. Erasing'
  <2>1. CASE \E k \in Keys : erase(k)
    <3>1. PICK k \in Keys : erase(k)
      BY <2>1
    <3>2. /\ pc' \in {"erase", "refuse"} /\ op'.value = None /\ op'.key = k
          /\ pc = "idle"
      BY <3>1 DEF erase, Call
    <3>3. pc' = "erase" => Exists(k)
      <4> SUFFICES ASSUME pc' = "erase" PROVE Exists(k)
        OBVIOUS
      <4>1. FindItem(k, "any") # 0
        BY <3>1 DEF erase, Call
      <4>2. \E p \in DOMAIN log : \E i \in DOMAIN log[p].items : Holds(p, i, k)
        BY <4>1, FindsFirst DEF DataInv
      <4>3. ~SomeFreeing
        BY <3>2 DEF PageInv, Stage, Calls
      <4>. QED  BY <4>2, <4>3, AllCount DEF Exists, Live
    <3>. QED  BY <1>1, <3>2, <3>3 DEF Erasing
  <2>2. CASE ~\E k \in Keys : erase(k)
    <3>1. pc' \notin {"write", "copy", "replace", "erase", "erased", "refuse"} => op' = NoOp
      BY DEF Power, LoadPages, Activates, RecoverNothing, BeginFormat, Formatted,
             BeginOpen, setInt, TakeFreePage, WriteFails, erase, eraseAll, EraseReturn,
             EraseAllReturn, Call, Refuse, close, Crash, Return, NeedsPage, ram, DataInv, Erasing
    <3>. QED  BY <1>0, <2>2, <3>1 DEF Erasing
  <2>. QED  BY <2>1, <2>2
<1>7. Replacing'
  BY <1>0 DEF Replacing
<1>8. Writing'
  <2>1. CASE Activates
    <3>1. op' = NoOp /\ pc' = "copy"
      BY <2>1 DEF Activates, DataInv, Erasing
    <3>. QED  BY <3>1 DEF Writing
  <2>2. CASE TakeFreePage
    <3>1. UNCHANGED <<op, old, pc>>
      BY <2>2 DEF TakeFreePage
    <3>. QED  BY <1>0, <1>1, <3>1 DEF DataInv, Writing
  <2>3. CASE BeginOpen /\ pc' = "write"
    <3>1. /\ pc = "loaded" /\ FindItem(Namespace, "u8") = 0 /\ old' = FALSE
          /\ op' = [key |-> Namespace, type |-> "u8", value |-> 1]
      BY <2>3 DEF BeginOpen
    <3>2. <<Namespace, "u8">> \in Pairs /\ op'.key = Namespace /\ op'.type = "u8"
          /\ op'.value = 1
      BY <3>1 DEF Pairs
    <3>3. ~Exists(Namespace)
      BY <3>1, <3>2, FindsFirst DEF DataInv, Exists, Live
    <3>4. ~SomeHalf
      BY <3>1 DEF PageInv, Stage
    <3>. QED  BY <1>1, <2>3, <3>1, <3>2, <3>3, <3>4 DEF Writing, SomeHalf
  <2>4. ASSUME NEW u \in Uses, NEW v \in Values, setInt(u[1], u[2], v)
        PROVE  Writing'
    <3>0. CASE ~handle
      BY <2>4, <3>0 DEF setInt, Call, Writing
    <3> SUFFICES ASSUME handle PROVE Writing'
      BY <3>0
    <3>1. /\ pc = "idle" /\ pc' = "write" /\ op'.key = u[1] /\ op'.type = u[2]
          /\ op'.value = v
      BY <2>4 DEF setInt, Call
    <3>2. <<u[1], u[2]>> \in Pairs
      BY KeyKinds DEF Pairs
    <3>3. ~SomeHalf /\ ~SomeFreeing
      BY <3>1 DEF PageInv, Stage, Calls
    <3>4. FindItem(u[1], u[2]) # 0 <=> Exists(u[1])
      BY <3>2, <3>3, FindsFirst, AllCount DEF DataInv, Exists, Live
    <3>5. old' <=> Exists(u[1])
      BY <2>4, <3>4, Zenon DEF setInt, Call
    <3>. QED  BY <1>1, <3>1, <3>2, <3>3, <3>5 DEF Writing, SomeHalf
  <2>5. CASE pc' \notin {"write", "copy"}
    BY <1>0, <2>5 DEF Writing
  <2>. QED  BY <1>0, <2>1, <2>2, <2>3, <2>4, <2>5
<1>. QED  BY <1>1, <1>2, <1>3, <1>4, <1>5, <1>6, <1>7, <1>8 DEF DataInv

(* An item is erased: the others stay as they are.                         *)
LEMMA EraseIs ==
    ASSUME PageInv, NEW p, NEW i, log' = Altered(log, p, i, "erased"), fresh' = fresh
    PROVE  /\ DOMAIN log' = DOMAIN log /\ Len(log') = Len(log)
           /\ \A q \in DOMAIN log :
                /\ DOMAIN log'[q].items = DOMAIN log[q].items
                /\ log'[q].state = log[q].state
                /\ \A j \in DOMAIN log[q].items :
                     /\ Same(log'[q].items[j], log[q].items[j])
                     /\ IsWritten(q, j)' <=> IsWritten(q, j) /\ ~(q = p /\ j = i)
                     /\ \A k : Holds(q, j, k)' <=> Holds(q, j, k) /\ ~(q = p /\ j = i)
           /\ \A q, j, k : At(q, j, k)' <=> At(q, j, k) /\ ~(q = p /\ j = i)
           /\ \A k : Exists(k)' => Exists(k)
           /\ SomeFreeing' <=> SomeFreeing
           /\ Kinds => Kinds'
           /\ \A q, j, k : pc' \in Early /\ At(q, j, k)' /\ Newest(q, j) => Newest(q, j)'
<1>1. /\ (SomeFreeing' <=> SomeFreeing) /\ log' \in Seq(PageSet)
      /\ Len(log') = Len(log)
      /\ \A q \in 1 .. Len(log) :
           /\ log'[q].state = log[q].state
           /\ Len(log'[q].items) = Len(log[q].items)
           /\ \A j \in 1 .. Len(log[q].items) :
                /\ Same(log'[q].items[j], log[q].items[j])
                /\ log'[q].items[j].state =
                     IF q = p /\ j = i THEN "erased" ELSE log[q].items[j].state
  <2>1. "erased" \in {"written", "erased"}
    OBVIOUS
  <2>. QED  BY <2>1, KeepShape
<1>2. /\ DOMAIN log = 1 .. Len(log) /\ DOMAIN log' = 1 .. Len(log)
      /\ \A q \in 1 .. Len(log) : /\ DOMAIN log[q].items = 1 .. Len(log[q].items)
                                  /\ DOMAIN log'[q].items = 1 .. Len(log[q].items)
  BY <1>1, LogTypes DEF PageInv, NvsTypes
<1>3. ASSUME NEW q \in DOMAIN log, NEW j \in DOMAIN log[q].items
      PROVE  /\ Same(log'[q].items[j], log[q].items[j])
             /\ IsWritten(q, j)' <=> IsWritten(q, j) /\ ~(q = p /\ j = i)
             /\ \A k : Holds(q, j, k)' <=> Holds(q, j, k) /\ ~(q = p /\ j = i)
  <2>1. /\ Same(log'[q].items[j], log[q].items[j])
        /\ log'[q].items[j].state =
             IF q = p /\ j = i THEN "erased" ELSE log[q].items[j].state
    <3>1. q \in 1 .. Len(log) /\ j \in 1 .. Len(log[q].items)
      BY <1>2
    <3>. QED  BY <1>1, <3>1
  <2>2. log'[q].items[j].key = log[q].items[j].key
    BY <2>1 DEF Same
  <2>3. IsWritten(q, j)' <=> IsWritten(q, j) /\ ~(q = p /\ j = i)
    BY <2>1 DEF IsWritten
  <2>. QED  BY <2>1, <2>2, <2>3 DEF Holds, IsWritten
<1>4. \A q \in DOMAIN log : Counts(q)' <=> Counts(q)
  BY <1>1, <1>2 DEF Counts
<1>5. \A q, j, k : At(q, j, k)' <=> At(q, j, k) /\ ~(q = p /\ j = i)
  BY <1>2, <1>3, <1>4 DEF At, Live
<1>6. \A k : Exists(k)' => Exists(k)
  BY <1>2, <1>3, <1>4 DEF Exists, Live
<1>7. Kinds => Kinds'
  <2> SUFFICES ASSUME Kinds, NEW q \in DOMAIN log, NEW j \in DOMAIN log[q].items
               PROVE  /\ <<log'[q].items[j].key, log'[q].items[j].type>> \in Pairs
                      /\ log'[q].items[j].value \in Values \cup {1}
    BY <1>2 DEF Kinds
  <2>1. Same(log'[q].items[j], log[q].items[j])
    BY <1>3
  <2>2. /\ <<log[q].items[j].key, log[q].items[j].type>> \in Pairs
        /\ log[q].items[j].value \in Values \cup {1}
    BY DEF Kinds
  <2>. QED  BY <2>1, <2>2 DEF Same
<1>8. ASSUME NEW q, NEW j, NEW k, pc' \in Early, At(q, j, k)', Newest(q, j)
      PROVE  Newest(q, j)'
  BY <1>1, <1>2, <1>3, <1>8 DEF Newest, Early, At
<1>. QED  BY <1>1, <1>2, <1>3, <1>5, <1>6, <1>7, <1>8

(* Erasing an item, where no write comes next, keeps DataInv if the key    *)
(* has one item then and the call knows.                                   *)
LEMMA EraseData ==
    ASSUME PageInv, DataInv, NEW p, NEW i, log' = Altered(log, p, i, "erased"),
           fresh' = fresh,
           pc' \notin {"last", "format", "write", "copy", "replace", "erase"},
           \A f \in DOMAIN log : log[f].state = "freeing" => f # p,
           Unique', Erasing'
    PROVE  DataInv'
<1>1. /\ DOMAIN log' = DOMAIN log /\ Len(log') = Len(log)
      /\ \A q \in DOMAIN log :
           /\ DOMAIN log'[q].items = DOMAIN log[q].items
           /\ log'[q].state = log[q].state
           /\ \A j \in DOMAIN log[q].items :
                /\ Same(log'[q].items[j], log[q].items[j])
                /\ IsWritten(q, j)' <=> IsWritten(q, j) /\ ~(q = p /\ j = i)
                /\ \A k : Holds(q, j, k)' <=> Holds(q, j, k) /\ ~(q = p /\ j = i)
      /\ SomeFreeing' <=> SomeFreeing
      /\ Kinds'
  BY EraseIs DEF DataInv
<1>2. Source'
  <2> SUFFICES ASSUME NEW f \in DOMAIN log, log[f].state = "freeing",
                      Last(log').state = "active",
                      NEW j \in DOMAIN Last(log').items
               PROVE  \E l \in DOMAIN log[f].items :
                        /\ IsWritten(f, l)'
                        /\ Same(Last(log').items[j], log'[f].items[l])
    BY <1>1 DEF Source
  <2>1. log # << >> /\ Len(log) \in DOMAIN log /\ Last(log) = log[Len(log)]
    BY LastIs, FreePagesIs DEF PageInv
  <2>2. Last(log') = log'[Len(log)]
    BY <1>1 DEF Last
  <2>3. Last(log).state = "active" /\ j \in DOMAIN Last(log).items
    BY <1>1, <2>1, <2>2
  <2>4. PICK l \in DOMAIN log[f].items :
          IsWritten(f, l) /\ Same(Last(log).items[j], log[f].items[l])
    BY <2>3 DEF DataInv, Source
  <2>5. Same(log'[Len(log)].items[j], log[Len(log)].items[j])
        /\ Same(log'[f].items[l], log[f].items[l]) /\ f # p
    BY <1>1, <2>1, <2>3
  <2>. QED  BY <1>1, <2>1, <2>2, <2>4, <2>5 DEF Same
<1>3. Copied' /\ NoneReplaced' /\ Replacing' /\ Writing'
  BY DEF Copied, NoneReplaced, Replacing, Writing
<1>4. Unopened'
  BY <1>1 DEF DataInv, Unopened
<1>. QED  BY <1>1, <1>2, <1>3, <1>4 DEF DataInv

(* The items of an active page that do not count any more are erased.      *)
LEMMA DataLoad ==
    ASSUME PageInv, DataInv, LoadHalfWritten \/ LoadReplaced
    PROVE  DataInv'
<1>1. PICK p \in ActivePages : \E i : log' = Altered(log, p, i, "erased")
  BY DEF LoadHalfWritten, LoadReplaced, SetState, HalfWritten, Replaced, Altered
<1>2. PICK i : log' = Altered(log, p, i, "erased")
  BY <1>1
<1>3. UNCHANGED ram /\ UNCHANGED pc /\ pc = "load"
  BY DEF LoadHalfWritten, LoadReplaced
<1>4. fresh' = fresh /\ op' = op /\ pc' \in Early
  BY <1>3 DEF ram, Early
<1>5. Unique'
  BY <1>2, <1>4, EraseIs, KeepUnique DEF DataInv
<1>6. Erasing'
  BY <1>3, <1>4 DEF DataInv, Erasing
<1>7. \A f \in DOMAIN log : log[f].state = "freeing" => f # p
  BY DEF ActivePages
<1>. QED  BY <1>2, <1>3, <1>4, <1>5, <1>6, <1>7, EraseData

(* nvs_erase_key and nvs_erase_all.                                        *)
LEMMA DataErase ==
    ASSUME OneTypeEach, PageInv, DataInv, EraseItem \/ EraseNext
    PROVE  DataInv'
<1>1. UNCHANGED ram /\ pc \in {"erase", "eraseAll"} /\ pc' \in {"erased", "eraseAll"}
      /\ \E p, i : log' = Altered(log, p, i, "erased")
  BY DEF EraseItem, EraseNext, SetState, Altered
<1>2. PICK p, i : log' = Altered(log, p, i, "erased")
  BY <1>1
<1>3. fresh' = fresh /\ op' = op /\ ~SomeFreeing
  BY <1>1 DEF ram, PageInv, Stage, Calls
<1>4. Unique'
  <2>1. \A q, j : ~Newest(q, j)
    BY <1>1 DEF Newest
  <2>2. \A q, j, k : At(q, j, k)' => At(q, j, k)
    BY <1>2, <1>3, EraseIs
  <2>. QED  BY <2>1, <2>2, KeepUnique DEF DataInv
<1>5. Erasing'
  <2>1. CASE EraseItem
    <3> DEFINE a == FindItem(op.key, "any")
               b == PageFind(log[a], op.key, "any")
    <3>1. pc = "erase" /\ pc' = "erased" /\ log' = Altered(log, a, b, "erased")
      BY <2>1 DEF EraseItem, SetState, Altered
    <3>2. op.key \in Keys /\ op.value = None /\ Exists(op.key)
      BY <3>1 DEF DataInv, Erasing
    <3>3. a # 0
      BY <3>2, FindsFirst DEF DataInv, Exists, Live
    <3>4. a \in DOMAIN log /\ b \in DOMAIN log[a].items /\ Holds(a, b, op.key)
      BY <3>3, FindsFirst DEF DataInv
    <3>5. At(a, b, op.key) /\ op.key \in AllKeys
      BY <1>3, <3>4, AllCount DEF At, Live, PageInv, NvsTypes
    <3>6. \A q, j : At(q, j, op.key)' => At(q, j, op.key) /\ ~(q = a /\ j = b)
      BY <1>3, <3>1, EraseIs
    <3> HIDE DEF a, b
    <3>7. pc \notin Early
      BY <3>1 DEF Early
    <3>8. \A q, j : ~At(q, j, op.key)'
      BY <3>5, <3>6, <3>7, StrictUnique DEF DataInv
    <3>9. ~Exists(op.key)'
      BY <1>3, <3>8 DEF Exists, At
    <3>. QED  BY <1>3, <3>1, <3>2, <3>9 DEF Erasing
  <2>2. CASE EraseNext
    <3>1. pc = "eraseAll" /\ pc' = "eraseAll"
      BY <2>2 DEF EraseNext
    <3>. QED  BY <1>3, <3>1 DEF DataInv, Erasing
  <2>. QED  BY <2>1, <2>2
<1>6. \A f \in DOMAIN log : log[f].state = "freeing" => f # p
  BY <1>3 DEF SomeFreeing
<1>. QED  BY <1>1, <1>2, <1>3, <1>4, <1>5, <1>6, EraseData

(* A set of numbers with a bound has a greatest one.                       *)
LEMMA MaxIs ==
    ASSUME NEW n \in Nat, NEW S, S \subseteq 1 .. n, S # {}
    PROVE  Max(S) \in S /\ \A y \in S : y <= Max(S)
<1> DEFINE T == {n - x : x \in S}
<1>0. \A x \in S : x \in Nat /\ x <= n
  OBVIOUS
<1>1. T \subseteq Nat /\ T # {}
  <2>1. \A x \in S : n - x \in Nat
    BY <1>0
  <2>2. T \subseteq Nat
    BY <2>1
  <2>3. PICK x : x \in S
    OBVIOUS
  <2>4. n - x \in T
    BY <2>3
  <2>. QED  BY <2>2, <2>4
<1>2. PICK m \in T : \A y \in T : m <= y
  <2> HIDE DEF T
  <2>. QED  BY <1>1, NatMin
<1>3. PICK x \in S : m = n - x
  OBVIOUS
<1>4. \A y \in S : x >= y
  <2> TAKE y \in S
  <2>1. n - y \in T
    OBVIOUS
  <2>2. n - x <= n - y
    BY <1>2, <1>3, <2>1
  <2>. QED  BY <1>0, <2>2
<1>5. Max(S) \in S /\ \A y \in S : Max(S) >= y
  BY <1>4 DEF Max
<1>. QED  BY <1>0, <1>5

(* The last item of the last page, and its twin in an earlier page.        *)
LEMMA LastItemIs ==
    ASSUME PageInv, log # << >>
    PROVE  LET n == Len(log)
           IN  /\ LastItem # 0 => /\ LastItem \in DOMAIN log[n].items
                                  /\ IsWritten(n, LastItem)
               /\ \A i \in DOMAIN log[n].items :
                    IsWritten(n, i) => LastItem # 0 /\ i <= LastItem
<1> DEFINE n == Len(log)
           m == Len(log[n].items)
           S == {i \in 1 .. m : log[n].items[i].state = "written"}
<1>1. Last(log) = log[n] /\ n \in 1 .. n
  BY LastIs
<1>2. m \in Nat /\ DOMAIN log[n].items = 1 .. m
  BY <1>1, LogTypes DEF PageInv, NvsTypes
<1>3. LastItem = IF S # {} THEN Max(S) ELSE 0
  BY <1>1 DEF LastItem, SelectLastInSeq
<1>4. S # {} => Max(S) \in S /\ \A y \in S : y <= Max(S)
  <2>1. S \subseteq 1 .. m
    OBVIOUS
  <2> HIDE DEF S, m
  <2>. QED  BY <1>2, <2>1, MaxIs
<1>5. \A i \in DOMAIN log[n].items : i \in S <=> IsWritten(n, i)
  BY <1>2 DEF IsWritten
<1>6. S \subseteq DOMAIN log[n].items
  BY <1>2
<1>7. S # {} => Max(S) # 0
  BY <1>2, <1>4
<1> HIDE DEF S, m, n
<1>. QED  BY <1>3, <1>4, <1>5, <1>6, <1>7 DEF n

(* PageManager::load finds the twin of the last item, if there is one.     *)
LEMMA TwinIs ==
    ASSUME PageInv, log # << >>
    PROVE  LET n == Len(log)
               e == log[n].items[LastItem]
               ok(p) == log[p].state # "freeing" /\ PageFind(log[p], e.key, e.type) # 0
           IN  /\ Twin # 0 => LastItem # 0 /\ Twin \in 1 .. n - 1 /\ ok(Twin)
               /\ Twin = 0 /\ LastItem # 0 => \A p \in 1 .. n - 1 : ~ok(p)
<1> DEFINE n == Len(log)
           e == log[n].items[LastItem]
           ok(p) == log[p].state # "freeing" /\ PageFind(log[p], e.key, e.type) # 0
           S == {p \in 1 .. n - 1 : ok(p)}
<1>1. Last(log) = log[n] /\ n \in 1 .. n /\ n \in Nat /\ n > 0 /\ log \in Seq(PageSet)
  BY LastIs, FreePagesIs DEF PageInv, NvsTypes
<1>2. Len(Front(log)) = n - 1 /\ \A p \in 1 .. n - 1 : Front(log)[p] = log[p]
  BY <1>1, FrontIs
<1>3. {p \in 1 .. Len(Front(log)) :
          Front(log)[p].state # "freeing" /\ PageFind(Front(log)[p], e.key, e.type) # 0} = S
  BY <1>2
<1>4. LastItem # 0 => Twin = IF S # {} THEN Min(S) ELSE 0
  BY <1>1, <1>3 DEF Twin, SelectInSeq
<1>5. LastItem = 0 => Twin = 0
  BY DEF Twin
<1>6. S # {} => Min(S) \in S
  <2>1. S \subseteq Nat
    BY <1>1
  <2> HIDE DEF S
  <2>. QED  BY <2>1, MinIs
<1>7. CASE LastItem = 0
  BY <1>5, <1>7
<1>8. CASE LastItem # 0 /\ S = {}
  BY <1>4, <1>8
<1>9. CASE LastItem # 0 /\ S # {}
  <2>1. Twin \in S
    BY <1>4, <1>6, <1>9
  <2>2. Twin # 0
    BY <1>1, <2>1
  <2>. QED  BY <1>9, <2>1, <2>2
<1>. QED  BY <1>7, <1>8, <1>9

(* A step that writes nothing erases nothing.                              *)
LEMMA NothingErased ==
    ASSUME PageInv, UNCHANGED log
    PROVE  log' = Altered(log, 0, 0, "erased") /\ 0 \notin DOMAIN log
<1>1. DOMAIN log = 1 .. Len(log) /\ log \in Seq(PageSet) /\ Len(log) \in Nat
  BY FreePagesIs DEF PageInv, NvsTypes
<1>2. 0 \notin DOMAIN log
  BY <1>1
<1>3. log = [p \in DOMAIN log |-> log[p]]
  BY <1>1
<1>4. log = Altered(log, 0, 0, "erased")
  BY <1>2, <1>3 DEF Altered
<1>. QED  BY <1>2, <1>4

(* The last item that was written is the last item of the last page.       *)
LEMMA NewestIs ==
    ASSUME PageInv, NEW p, NEW i, NEW k, At(p, i, k), Newest(p, i)
    PROVE  /\ log # << >> /\ p = Len(log) /\ log[p].state = "active" /\ ~SomeFreeing
           /\ LastItem # 0 /\ i = LastItem
<1>1. /\ p \in DOMAIN log /\ i \in DOMAIN log[p].items /\ IsWritten(p, i)
      /\ Counts(p) /\ log[p].state = "active"
      /\ \A j \in DOMAIN log[p].items : IsWritten(p, j) => j <= i
  BY DEF At, Live, Holds, IsWritten, Newest
<1>2. p = Len(log) /\ log # << >>
  BY <1>1, FreePagesIs DEF PageInv, Shape
<1>3. ~SomeFreeing
  BY <1>1 DEF Counts, SomeFreeing
<1>4. LastItem # 0 /\ i <= LastItem
  BY <1>1, <1>2, LastItemIs
<1>5. LastItem \in DOMAIN log[p].items /\ LastItem <= i
  BY <1>1, <1>2, <1>4, LastItemIs
<1>6. DOMAIN log[p].items \subseteq Nat
  BY <1>1, LogTypes DEF PageInv, NvsTypes
<1>. QED  BY <1>1, <1>2, <1>3, <1>4, <1>5, <1>6

(* A twin of the last item is there only if the last item replaces it.     *)
LEMMA TwinOf ==
    ASSUME OneTypeEach, PageInv, DataInv, pc = "last", Twin # 0
    PROVE  LET n == Len(log)
               k == log[n].items[LastItem].key
               b == PageFind(log[Twin], k, "any")
           IN  /\ Twin \in DOMAIN log /\ Twin # n /\ ~SomeFreeing
               /\ At(Twin, b, k) /\ At(n, LastItem, k) /\ k \in AllKeys
               /\ Last(log) = log[n]
<1> DEFINE n == Len(log)
           l == LastItem
           e == log[n].items[l]
           k == e.key
           t == Twin
<1>0. log # << >>
  BY DEF PageInv, Stage
<1>1. /\ n \in 1 .. n /\ n \in Nat /\ DOMAIN log = 1 .. n /\ Last(log) = log[n]
      /\ log \in Seq(PageSet)
  BY <1>0, LastIs, FreePagesIs DEF PageInv, NvsTypes
<1>2. l # 0 /\ t \in 1 .. n - 1 /\ log[t].state # "freeing" /\ PageFind(log[t], k, e.type) # 0
  BY <1>0, TwinIs
<1>3. l \in DOMAIN log[n].items /\ IsWritten(n, l)
  BY <1>0, <1>2, LastItemIs
<1>4. t \in DOMAIN log /\ t # n
  <2> HIDE DEF n, t
  <2>. QED  BY <1>1, <1>2
<1>5. log[t].state # "active" /\ Counts(t)
  BY <1>1, <1>4 DEF PageInv, Shape, Counts
<1>6. k \in AllKeys /\ <<k, e.type>> \in Pairs
  <2>1. e \in ItemSet
    BY <1>1, <1>3, LogTypes
  <2>2. k \in AllKeys
    BY <2>1 DEF ItemSet
  <2>. QED  BY <1>1, <1>3, <2>2 DEF DataInv, Kinds
<1>7. log[t] \in PageSet /\ DOMAIN log[t].items = 1 .. Len(log[t].items)
  BY <1>1, <1>4, LogTypes
<1> HIDE DEF n, l, t, k
<1>8. \E c \in DOMAIN log[t].items : Holds(t, c, k)
  BY <1>2, <1>7, PageFindIs DEF Holds
<1>9. PICK c \in DOMAIN log[t].items : Holds(t, c, k)
  BY <1>8
<1>10. PageFind(log[t], k, "any") # 0
  BY <1>4, <1>9, PageFinds DEF DataInv
<1>11. PageFind(log[t], k, "any") \in DOMAIN log[t].items /\ Holds(t, PageFind(log[t], k, "any"), k)
  BY <1>7, <1>10, PageFindIs DEF Holds
<1>12. At(t, PageFind(log[t], k, "any"), k)
  BY <1>4, <1>5, <1>11 DEF At, Live
<1>13. \A i : ~Newest(t, i)
  BY <1>5 DEF Newest
<1>14. Counts(n)
  <2> SUFFICES ASSUME ~Counts(n) PROVE FALSE
    OBVIOUS
  <2>1. PICK f \in DOMAIN log : log[f].state = "freeing" /\ log[n].state = "active"
    BY DEF Counts
  <2>2. \E i \in DOMAIN log[f].items :
          IsWritten(f, i) /\ Same(log[n].items[l], log[f].items[i])
    BY <1>1, <1>3, <2>1 DEF DataInv, Source
  <2>3. PICK i \in DOMAIN log[f].items :
          IsWritten(f, i) /\ Same(log[n].items[l], log[f].items[i])
    BY <2>2
  <2>4. log[f].items[i].key = k
    BY <2>3 DEF Same, k
  <2>5. At(f, i, k)
    BY <2>1, <2>3, <2>4 DEF At, Live, Holds, IsWritten, Counts
  <2>6. f # t
    BY <1>2, <2>1
  <2>7. ~Newest(f, i)
    BY <2>1 DEF Newest
  <2>. QED  BY <1>6, <1>12, <1>13, <2>5, <2>6, <2>7 DEF DataInv, Unique, At
<1>15. At(n, l, k)
  <2>1. Holds(n, l, k)
    BY <1>3 DEF Holds, IsWritten, k
  <2>. QED  BY <1>1, <1>3, <1>14, <2>1 DEF At, Live
<1>16. ~SomeFreeing
  <2>1. Newest(n, l)
    BY <1>4, <1>6, <1>12, <1>13, <1>15 DEF DataInv, Unique, At
  <2>. QED  BY <1>15, <2>1, NewestIs
<1>. QED  BY <1>1, <1>4, <1>6, <1>12, <1>15, <1>16 DEF n, l, t, k

(* So after it has been erased every key has one item.                     *)
LEMMA DataLoadLast ==
    ASSUME OneTypeEach, PageInv, DataInv, LoadLast
    PROVE  DataInv'
<1> DEFINE n == Len(log)
           l == LastItem
           k == log[n].items[l].key
           b == PageFind(log[Twin], k, "any")
<1>0. /\ pc = "last" /\ pc' = "recover" /\ UNCHANGED <<fresh, op>> /\ log # << >>
      /\ n \in 1 .. n /\ DOMAIN log = 1 .. n /\ Last(log) = log[n] /\ n \in Nat
  <2>1. pc = "last" /\ pc' = "recover" /\ UNCHANGED <<fresh, op>> /\ log # << >>
    BY DEF LoadLast, ram, PageInv, Stage
  <2>. QED  BY <2>1, LastIs, FreePagesIs DEF PageInv
<1>1. ASSUME NEW q, NEW j, q # n, At(q, j, k), l # 0, IsWritten(n, l), ~SomeFreeing,
             l \in DOMAIN log[n].items
      PROVE  Twin # 0
  <2>1. /\ q \in DOMAIN log /\ j \in DOMAIN log[q].items /\ Holds(q, j, k)
    BY <1>1 DEF At, Live
  <2>2. <<k, log[n].items[l].type>> \in Pairs
    BY <1>0, <1>1 DEF DataInv, Kinds
  <2>3. PageFind(log[q], k, log[n].items[l].type) # 0
    BY <2>1, <2>2, PageFinds DEF DataInv
  <2>4. log[q].state # "freeing"
    BY <1>1, <2>1 DEF SomeFreeing
  <2>5. q \in 1 .. n - 1
    <3> HIDE DEF n
    <3>. QED  BY <1>0, <1>1, <2>1
  <2>. QED  BY <1>0, <1>1, <2>3, <2>4, <2>5, TwinIs
<1>2. PICK p, i : /\ log' = Altered(log, p, i, "erased")
                  /\ (Twin = 0 /\ p = 0) \/ (Twin # 0 /\ p = Twin /\ i = b)
  <2>1. CASE Twin = 0
    BY <2>1, NothingErased DEF LoadLast
  <2>2. CASE Twin # 0
    BY <1>0, <2>2 DEF LoadLast, SetState, Altered
  <2>. QED  BY <2>1, <2>2
<1>3. \A q, j, h : At(q, j, h)' <=> At(q, j, h) /\ ~(q = p /\ j = i)
  BY <1>0, <1>2, EraseIs
<1> HIDE DEF b
<1>4. ASSUME NEW q, NEW j, NEW r, NEW m, NEW h \in AllKeys,
             At(q, j, h)', At(r, m, h)', ~(q = r /\ j = m), Newest(q, j)
      PROVE  FALSE
  <2>1. At(q, j, h) /\ At(r, m, h) /\ ~(r = p /\ m = i)
    BY <1>3, <1>4
  <2>2. q = n /\ j = l /\ l # 0 /\ ~SomeFreeing
    BY <1>4, <2>1, NewestIs
  <2>3. h = k /\ IsWritten(n, l) /\ l \in DOMAIN log[n].items
    BY <2>1, <2>2 DEF At, Live, Holds, IsWritten
  <2>4. r # n
    <3>1. r = n => m = l
      BY <1>0, <2>1, <2>2 DEF DataInv, NoneReplaced, At
    <3>. QED  BY <1>4, <2>2, <3>1
  <2>5. Twin # 0
    BY <1>1, <2>1, <2>2, <2>3, <2>4
  <2>6. At(Twin, b, k) /\ Twin # n /\ k \in AllKeys
    BY <1>0, <2>5, TwinOf DEF b
  <2>7. ~Newest(r, m) /\ ~Newest(Twin, b)
    BY <2>1, <2>4, <2>6, NewestIs
  <2>8. r = Twin /\ m = b
    BY <2>1, <2>3, <2>6, <2>7 DEF DataInv, Unique, At
  <2>. QED  BY <1>2, <2>1, <2>5, <2>8
<1>5. Unique'
  <2> SUFFICES ASSUME NEW q \in DOMAIN log', NEW r \in DOMAIN log',
                      NEW j \in DOMAIN log'[q].items, NEW m \in DOMAIN log'[r].items,
                      NEW h \in AllKeys, Live(q, j, h)', Live(r, m, h)', ~(q = r /\ j = m)
               PROVE  FALSE
    BY DEF Unique
  <2>1. At(q, j, h)' /\ At(r, m, h)'
    BY DEF At
  <2>2. At(q, j, h) /\ At(r, m, h)
    BY <1>3, <2>1
  <2>3. Newest(q, j) \/ Newest(r, m)
    BY <2>2 DEF DataInv, Unique, At
  <2>. QED  BY <1>4, <2>1, <2>3
<1>6. Erasing'
  BY <1>0 DEF DataInv, Erasing
<1>7. \A f \in DOMAIN log : log[f].state = "freeing" => f # p
  <2>1. Twin # 0 => ~SomeFreeing
    BY <1>0, TwinOf
  <2>2. Twin = 0 => p \notin DOMAIN log
    BY <1>0, <1>2
  <2>. QED  BY <1>2, <2>1, <2>2 DEF SomeFreeing
<1>. QED  BY <1>0, <1>2, <1>5, <1>6, <1>7, EraseData

(* The item that was replaced is the first one writeItem finds.            *)
LEMMA ReplacedIs ==
    ASSUME OneTypeEach, PageInv, DataInv, pc = "replace"
    PROVE  LET n == Len(log)
               m == Len(log[n].items)
               p == FindItem(op.key, op.type)
               i == PageFind(log[p], op.key, op.type)
           IN  /\ ~SomeFreeing /\ At(n, m, op.key)
               /\ \A q, j, k : At(q, j, k) /\ Newest(q, j) => q = n /\ j = m
               /\ old => At(p, i, op.key) /\ ~(p = n /\ i = m)
               /\ ~old => \A q, j : At(q, j, op.key) => q = n /\ j = m
<1> DEFINE n == Len(log)
           m == Len(log[n].items)
           p == FindItem(op.key, op.type)
           i == PageFind(log[p], op.key, op.type)
<1>1. /\ ~SomeFreeing /\ log # << >> /\ Last(log).state = "active" /\ Last(log).items # << >>
      /\ IsWritten(Len(log), Len(Last(log).items)) /\ Same(Last(Last(log).items), op)
      /\ <<op.key, op.type>> \in Pairs
  BY DEF PageInv, Stage, Calls, DataInv, Replacing, Writing
<1>2. /\ n \in 1 .. n /\ DOMAIN log = 1 .. n /\ Last(log) = log[n] /\ n \in Nat
  BY <1>1, LastIs, FreePagesIs DEF PageInv
<1>3. /\ DOMAIN log[n].items = 1 .. m /\ m \in Nat /\ log[n].items \in Seq(ItemSet)
  BY <1>2, LogTypes DEF PageInv, NvsTypes
<1>4. m \in DOMAIN log[n].items /\ Last(log[n].items) = log[n].items[m]
  <2>1. m # 0
    BY <1>1, <1>2, <1>3, EmptySeq
  <2> HIDE DEF n
  <2>. QED  BY <1>3, <2>1 DEF Last
<1>5. Holds(n, m, op.key)
  BY <1>1, <1>2, <1>4 DEF Holds, IsWritten, Same
<1>6. At(n, m, op.key)
  BY <1>1, <1>2, <1>4, <1>5, AllCount DEF At, Live
<1>7. ASSUME NEW q, NEW j, NEW k, At(q, j, k), Newest(q, j)
      PROVE  q = n /\ j = m
  <2>1. q = n
    BY <1>7, NewestIs
  <2>2. m <= j /\ j \in DOMAIN log[n].items
    BY <1>1, <1>2, <1>4, <1>7, <2>1 DEF Newest, At
  <2> HIDE DEF m
  <2>. QED  BY <1>3, <2>1, <2>2
<1>8. old <=> \E q \in DOMAIN log : \E j \in DOMAIN log[q].items :
                 Live(q, j, op.key) /\ ~(q = n /\ j = Len(log[q].items))
  BY DEF DataInv, Replacing
<1>9. ASSUME old
      PROVE  At(p, i, op.key) /\ ~(p = n /\ i = m)
  <2>1. PICK q \in DOMAIN log : \E j \in DOMAIN log[q].items :
                 Live(q, j, op.key) /\ ~(q = n /\ j = Len(log[q].items))
    BY <1>8, <1>9
  <2>2. PICK j \in DOMAIN log[q].items : Holds(q, j, op.key) /\ ~(q = n /\ j = m)
    BY <2>1 DEF Live
  <2>3. p # 0
    BY <1>1, <2>2, FindsFirst DEF DataInv
  <2>4. /\ p \in DOMAIN log /\ i \in DOMAIN log[p].items /\ Holds(p, i, op.key)
        /\ p < q \/ (p = q /\ i <= j)
    BY <1>1, <2>2, <2>3, FindsFirst DEF DataInv
  <2>5. DOMAIN log[q].items = 1 .. Len(log[q].items) /\ Len(log[q].items) \in Nat
    BY <1>2, LogTypes DEF PageInv, NvsTypes
  <2>6. ~(p = n /\ i = m)
    <3> SUFFICES ASSUME p = n, i = m PROVE FALSE
      OBVIOUS
    <3> HIDE DEF p, i
    <3>1. q = n
      <4> HIDE DEF n
      <4>. QED  BY <1>2, <2>4
    <3>2. m <= j /\ j \in 1 .. m
      <4>1. p = q /\ i <= j
        <5> HIDE DEF n, m
        <5>. QED  BY <1>2, <2>4, <3>1
      <4>. QED  BY <1>3, <3>1, <4>1
    <3>3. j = m
      <4> HIDE DEF m
      <4>. QED  BY <1>3, <3>2
    <3>. QED  BY <2>2, <3>1, <3>3
  <2>. QED  BY <1>1, <2>4, <2>6, AllCount DEF At, Live
<1>10. ASSUME ~old, NEW q, NEW j, At(q, j, op.key)
       PROVE  q = n /\ j = m
  BY <1>8, <1>10 DEF At
<1>. QED  BY <1>1, <1>6, <1>7, <1>9, <1>10

(* Storage::writeItem erases the item that was replaced: one is left.      *)
LEMMA DataEraseReplaced ==
    ASSUME OneTypeEach, PageInv, DataInv, EraseReplaced
    PROVE  DataInv'
<1> DEFINE n == Len(log)
           m == Len(log[n].items)
           a == FindItem(op.key, op.type)
           b == PageFind(log[a], op.key, op.type)
<1>0. pc = "replace" /\ pc' = "idle" /\ op' = NoOp /\ fresh' = fresh
  BY DEF EraseReplaced, Return
<1>1. /\ ~SomeFreeing /\ At(n, m, op.key)
      /\ \A q, j, k : At(q, j, k) /\ Newest(q, j) => q = n /\ j = m
      /\ old => At(a, b, op.key) /\ ~(a = n /\ b = m)
      /\ ~old => \A q, j : At(q, j, op.key) => q = n /\ j = m
  BY <1>0, ReplacedIs
<1>2. PICK p, i : /\ log' = Altered(log, p, i, "erased")
                  /\ old => p = a /\ i = b
  <2>1. CASE ~old
    BY <2>1, NothingErased DEF EraseReplaced
  <2>2. CASE old
    BY <2>2 DEF EraseReplaced, SetState, Altered
  <2>. QED  BY <2>1, <2>2
<1>3. \A q, j, h : At(q, j, h)' <=> At(q, j, h) /\ ~(q = p /\ j = i)
  BY <1>0, <1>2, EraseIs
<1> HIDE DEF a, b, n, m
<1>4. ASSUME NEW q, NEW j, NEW r, NEW s, NEW h \in AllKeys,
             At(q, j, h)', At(r, s, h)', ~(q = r /\ j = s), Newest(q, j)
      PROVE  FALSE
  <2>1. At(q, j, h) /\ At(r, s, h) /\ ~(r = p /\ s = i)
    BY <1>3, <1>4
  <2>2. q = n /\ j = m /\ ~(r = n /\ s = m)
    BY <1>1, <1>4, <2>1
  <2>3. h = op.key
    BY <1>1, <2>1, <2>2 DEF At, Live, Holds
  <2>4. old /\ p = a /\ i = b
    BY <1>1, <1>2, <2>1, <2>2, <2>3
  <2>5. ~Newest(r, s) /\ ~Newest(a, b)
    BY <1>1, <2>1, <2>2, <2>4
  <2>6. r = a /\ s = b
    BY <1>1, <2>1, <2>3, <2>4, <2>5 DEF DataInv, Unique, At
  <2>. QED  BY <2>1, <2>4, <2>6
<1>5. Unique'
  <2> SUFFICES ASSUME NEW q \in DOMAIN log', NEW r \in DOMAIN log',
                      NEW j \in DOMAIN log'[q].items, NEW s \in DOMAIN log'[r].items,
                      NEW h \in AllKeys, Live(q, j, h)', Live(r, s, h)', ~(q = r /\ j = s)
               PROVE  FALSE
    BY DEF Unique
  <2>1. At(q, j, h)' /\ At(r, s, h)'
    BY DEF At
  <2>2. At(q, j, h) /\ At(r, s, h)
    BY <1>3, <2>1
  <2>3. Newest(q, j) \/ Newest(r, s)
    BY <2>2 DEF DataInv, Unique, At
  <2>. QED  BY <1>4, <2>1, <2>3
<1>6. Erasing'
  BY <1>0 DEF Erasing, NoOp
<1>7. \A f \in DOMAIN log : log[f].state = "freeing" => f # p
  BY <1>1 DEF SomeFreeing
<1>. QED  BY <1>0, <1>2, <1>5, <1>6, <1>7, EraseData

(* The item that was written counts from now on, unless it is a copy.      *)
LEMMA MarkWrittenAt ==
    ASSUME PageInv, MarkWritten
    PROVE  LET n == Len(log)
               m == Len(log[n].items)
           IN  /\ n \in DOMAIN log /\ m \in DOMAIN log[n].items /\ Half(n, m)
               /\ log'[n].items[m].state = "written"
               /\ log[n].state = "active" /\ Last(log) = log[n] /\ Last(log)' = log'[n]
               /\ DOMAIN log' = DOMAIN log /\ Len(log') = n /\ log' # << >>
               /\ \A q \in DOMAIN log :
                    /\ DOMAIN log'[q].items = DOMAIN log[q].items
                    /\ Len(log'[q].items) = Len(log[q].items)
                    /\ log'[q].state = log[q].state
                    /\ \A j \in DOMAIN log[q].items :
                         /\ Same(log'[q].items[j], log[q].items[j])
                         /\ IsWritten(q, j)' <=> IsWritten(q, j) \/ (q = n /\ j = m)
                         /\ \A k : Holds(q, j, k) => Holds(q, j, k)'
                         /\ log'[q].items[j].state = "erased" => log[q].items[j].state = "erased"
               /\ SomeFreeing' <=> SomeFreeing
               /\ \A q, j, k : At(q, j, k)' <=>
                    \/ At(q, j, k)
                    \/ q = n /\ j = m /\ ~SomeFreeing /\ log[n].items[m].key = k
               /\ \A q, j, k : At(q, j, k) => ~(q = n /\ j = m)
               /\ Kinds => Kinds'
<1> DEFINE n == Len(log)
           m == Len(log[n].items)
<1>1. /\ log # << >> /\ n \in 1 .. n /\ m \in 1 .. m /\ Last(log) = log[n]
      /\ log[n].state = "active" /\ Half(n, m)
      /\ log' = Altered(log, n, m, "written")
  BY MarkWrittenIs
<1>2. /\ (SomeFreeing' <=> SomeFreeing) /\ log' \in Seq(PageSet)
      /\ Len(log') = n /\ log' # << >>
      /\ \A q \in 1 .. n :
           /\ log'[q].state = log[q].state
           /\ Len(log'[q].items) = Len(log[q].items)
           /\ \A j \in 1 .. Len(log[q].items) :
                /\ Same(log'[q].items[j], log[q].items[j])
                /\ log'[q].items[j].state =
                     IF q = n /\ j = m THEN "written" ELSE log[q].items[j].state
  <2>1. "written" \in {"written", "erased"} /\ fresh' = fresh
    BY DEF MarkWritten, ram
  <2>. QED  BY <1>1, <2>1, KeepShape
<1>3. /\ DOMAIN log = 1 .. n /\ DOMAIN log' = 1 .. n
      /\ \A q \in 1 .. n : /\ DOMAIN log[q].items = 1 .. Len(log[q].items)
                            /\ DOMAIN log'[q].items = 1 .. Len(log[q].items)
  BY <1>2, LogTypes DEF PageInv, NvsTypes
<1>4. Last(log)' = log'[n] /\ n \in DOMAIN log /\ m \in DOMAIN log[n].items
  BY <1>1, <1>2, <1>3 DEF Last
<1>5. ASSUME NEW q \in DOMAIN log, NEW j \in DOMAIN log[q].items
      PROVE  /\ Same(log'[q].items[j], log[q].items[j])
             /\ IsWritten(q, j)' <=> IsWritten(q, j) \/ (q = n /\ j = m)
             /\ log'[q].items[j].state = "erased" => log[q].items[j].state = "erased"
  <2>1. /\ Same(log'[q].items[j], log[q].items[j])
        /\ log'[q].items[j].state =
             IF q = n /\ j = m THEN "written" ELSE log[q].items[j].state
    BY <1>2, <1>3
  <2>2. CASE q = n /\ j = m
    BY <2>1, <2>2 DEF IsWritten
  <2>3. CASE ~(q = n /\ j = m)
    BY <2>1, <2>3 DEF IsWritten
  <2>. QED  BY <2>2, <2>3
<1>6. ASSUME NEW q \in DOMAIN log, NEW j \in DOMAIN log[q].items, NEW k
      PROVE  Holds(q, j, k)' <=> \/ Holds(q, j, k)
                                 \/ q = n /\ j = m /\ log[n].items[m].key = k
  <2>1. log'[q].items[j].key = log[q].items[j].key
    BY <1>5 DEF Same
  <2>. QED  BY <1>5, <2>1 DEF Holds, IsWritten
<1>7. \A q \in DOMAIN log : Counts(q)' <=> Counts(q)
  BY <1>2, <1>3 DEF Counts
<1>8. Counts(n) <=> ~SomeFreeing
  BY <1>1 DEF Counts, SomeFreeing
<1> HIDE DEF n, m
<1>9. \A q, j, k : At(q, j, k)' <=>
        \/ At(q, j, k)
        \/ q = n /\ j = m /\ ~SomeFreeing /\ log[n].items[m].key = k
  BY <1>3, <1>4, <1>6, <1>7, <1>8 DEF At, Live
<1>10. \A q, j, k : At(q, j, k) => ~(q = n /\ j = m)
  BY <1>1 DEF At, Live, Holds, Half
<1>11. Kinds => Kinds'
  <2> SUFFICES ASSUME Kinds, NEW q \in DOMAIN log, NEW j \in DOMAIN log[q].items
               PROVE  /\ <<log'[q].items[j].key, log'[q].items[j].type>> \in Pairs
                      /\ log'[q].items[j].value \in Values \cup {1}
    BY <1>3 DEF Kinds
  <2>1. Same(log'[q].items[j], log[q].items[j])
    BY <1>5
  <2>2. /\ <<log[q].items[j].key, log[q].items[j].type>> \in Pairs
        /\ log[q].items[j].value \in Values \cup {1}
    BY DEF Kinds
  <2>. QED  BY <2>1, <2>2 DEF Same
<1>12. \A q \in DOMAIN log :
         /\ DOMAIN log'[q].items = DOMAIN log[q].items
         /\ Len(log'[q].items) = Len(log[q].items)
         /\ log'[q].state = log[q].state
         /\ \A j \in DOMAIN log[q].items :
              /\ Same(log'[q].items[j], log[q].items[j])
              /\ IsWritten(q, j)' <=> IsWritten(q, j) \/ (q = n /\ j = m)
              /\ \A k : Holds(q, j, k) => Holds(q, j, k)'
              /\ log'[q].items[j].state = "erased" => log[q].items[j].state = "erased"
  BY <1>2, <1>3, <1>5, <1>6
<1>13. log'[n].items[m].state = "written"
  BY <1>4, <1>5 DEF IsWritten
<1>14. /\ log[n].state = "active" /\ Last(log) = log[n] /\ Half(n, m)
       /\ DOMAIN log' = DOMAIN log /\ Len(log') = n /\ log' # << >>
       /\ SomeFreeing' <=> SomeFreeing
  BY <1>1, <1>2, <1>3
<1>. QED  BY <1>4, <1>9, <1>10, <1>11, <1>12, <1>13, <1>14 DEF n, m

(* From its mark in the entry table on an item counts.                     *)
LEMMA DataMarkWritten ==
    ASSUME OneTypeEach, PageInv, DataInv, MarkWritten
    PROVE  DataInv'
<1> DEFINE n == Len(log)
           m == Len(log[n].items)
<1>1. /\ n \in DOMAIN log /\ m \in DOMAIN log[n].items /\ Half(n, m)
      /\ log[n].state = "active" /\ Last(log) = log[n] /\ Last(log)' = log'[n]
      /\ DOMAIN log' = DOMAIN log /\ Len(log') = n /\ log' # << >>
      /\ \A q \in DOMAIN log :
           /\ DOMAIN log'[q].items = DOMAIN log[q].items
           /\ Len(log'[q].items) = Len(log[q].items)
           /\ log'[q].state = log[q].state
           /\ \A j \in DOMAIN log[q].items :
                /\ Same(log'[q].items[j], log[q].items[j])
                /\ IsWritten(q, j)' <=> IsWritten(q, j) \/ (q = n /\ j = m)
                /\ \A k : Holds(q, j, k) => Holds(q, j, k)'
                /\ log'[q].items[j].state = "erased" => log[q].items[j].state = "erased"
      /\ SomeFreeing' <=> SomeFreeing
      /\ Kinds'
  BY MarkWrittenAt DEF DataInv
<1>2. /\ \A q, j, k : At(q, j, k)' <=>
           \/ At(q, j, k)
           \/ q = n /\ j = m /\ ~SomeFreeing /\ log[n].items[m].key = k
      /\ \A q, j, k : At(q, j, k) => ~(q = n /\ j = m)
  BY MarkWrittenAt
<1>3. /\ ~fresh /\ UNCHANGED <<fresh, op, old, readEntryIndex, handle>>
      /\ pc \in {"write", "copy"} /\ pc' = IF pc = "write" THEN "replace" ELSE pc
  BY DEF MarkWritten, ram
<1>4. (pc = "write" => ~SomeFreeing) /\ (pc = "copy" => SomeFreeing)
  BY DEF PageInv, Stage, Calls, Copying
<1> HIDE DEF n, m
<1>5. Source'
  <2> SUFFICES ASSUME NEW f \in DOMAIN log, log[f].state = "freeing",
                      NEW j \in DOMAIN log[n].items
               PROVE  \E i \in DOMAIN log[f].items :
                        /\ IsWritten(f, i)' /\ Same(log'[n].items[j], log'[f].items[i])
                        /\ pc' = "copy" => i <= readEntryIndex
    BY <1>1, <1>3 DEF Source
  <2>1. PICK i \in DOMAIN log[f].items :
          /\ IsWritten(f, i) /\ Same(log[n].items[j], log[f].items[i])
          /\ pc = "copy" => i <= readEntryIndex
    BY <1>1 DEF DataInv, Source
  <2>2. Same(log'[n].items[j], log[n].items[j]) /\ Same(log'[f].items[i], log[f].items[i])
        /\ IsWritten(f, i)'
    BY <1>1, <2>1
  <2>3. Same(log'[n].items[j], log'[f].items[i])
    BY <2>1, <2>2 DEF Same
  <2>4. pc' = "copy" => pc = "copy"
    BY <1>3
  <2>. QED  BY <2>1, <2>2, <2>3, <2>4
<1>6. Copied'
  <2> SUFFICES ASSUME pc = "copy", ~fresh PROVE Copied'
    BY <1>3 DEF Copied
  <2>1. \A j \in DOMAIN log[n].items : Same(log'[n].items[j], log[n].items[j])
    BY <1>1
  <2>2. ASSUME NEW f \in DOMAIN log, NEW i \in DOMAIN log[f].items,
               log[f].state = "freeing", IsWritten(f, i)', i <= readEntryIndex
        PROVE  \E j \in DOMAIN log[n].items : Same(log'[n].items[j], log'[f].items[i])
    <3>1. f # n /\ IsWritten(f, i)
      BY <1>1, <2>2
    <3>2. PICK j \in DOMAIN log[n].items : Same(log[n].items[j], log[f].items[i])
      BY <1>1, <2>2, <3>1 DEF DataInv, Copied
    <3>3. Same(log'[f].items[i], log[f].items[i]) /\ Same(log'[n].items[j], log[n].items[j])
      BY <1>1
    <3>4. Same(log'[n].items[j], log'[f].items[i])
      BY <3>2, <3>3 DEF Same
    <3>. QED  BY <3>4
  <2>3. ASSUME NEW i \in DOMAIN log[n].items, NEW j \in DOMAIN log[n].items,
               log'[n].items[i].key = log'[n].items[j].key
        PROVE  i = j
    <3>1. log[n].items[i].key = log[n].items[j].key
      BY <2>1, <2>3 DEF Same
    <3>. QED  BY <1>1, <3>1 DEF DataInv, Copied
  <2>4. \A j \in DOMAIN log[n].items : log'[n].items[j].state # "erased"
    BY <1>1 DEF DataInv, Copied
  <2>. QED  BY <1>1, <1>3, <2>2, <2>3, <2>4 DEF Copied
<1>7. Unique'
  <2>1. CASE pc = "copy"
    <3>1. \A q, j, k : At(q, j, k)' => At(q, j, k)
      BY <1>2, <1>4, <2>1
    <3>2. \A q, j : ~Newest(q, j)
      BY <2>1 DEF Newest
    <3>. QED  BY <3>1, <3>2, KeepUnique DEF DataInv
  <2>2. CASE pc = "write"
    <3>1. \A p, i : p = n /\ i = m => Newest(p, i)'
      <4>1. \A j \in DOMAIN log[n].items : j <= m
        BY <1>1, LogTypes DEF PageInv, NvsTypes, n, m
      <4>2. pc' = "replace"
        BY <1>3, <2>2
      <4>. QED  BY <1>1, <4>1, <4>2 DEF Newest
    <3> SUFFICES ASSUME NEW p \in DOMAIN log', NEW q \in DOMAIN log',
                        NEW i \in DOMAIN log'[p].items, NEW j \in DOMAIN log'[q].items,
                        NEW k \in AllKeys, Live(p, i, k)', Live(q, j, k)'
                 PROVE  (p = q /\ i = j) \/ Newest(p, i)' \/ Newest(q, j)'
      BY DEF Unique
    <3>0. CASE (p = n /\ i = m) \/ (q = n /\ j = m)
      BY <3>0, <3>1
    <3>5. CASE ~(p = n /\ i = m) /\ ~(q = n /\ j = m)
      <4>2. At(p, i, k)' /\ At(q, j, k)'
        BY DEF At
      <4>3. At(p, i, k) /\ At(q, j, k)
        BY <1>2, <3>5, <4>2
      <4>4. pc \notin Early
        BY <2>2 DEF Early
      <4>. QED  BY <4>3, <4>4, StrictUnique DEF DataInv
    <3>. QED  BY <3>0, <3>5
  <2>. QED  BY <1>3, <2>1, <2>2
<1>8. NoneReplaced' /\ Erasing'
  BY <1>3 DEF NoneReplaced, Erasing
<1>9. Unopened'
  <2>1. CASE pc = "copy"
    BY <1>1, <1>3, <1>4, <2>1 DEF Unopened
  <2>2. CASE pc = "write"
    <3>1. FreePages >= 1 /\ FreePages = PageCount - n - 0
      BY <1>3, <2>2, FreePagesIs DEF PageInv, Stage, Calls, n
    <3>2. n # PageCount
      BY <3>1, TypeFacts
    <3>. QED  BY <1>1, <1>3, <2>2, <3>2 DEF Unopened
  <2>. QED  BY <1>3, <2>1, <2>2
<1>10. Writing'
  <2>1. CASE pc = "copy"
    <3>1. \A k : Exists(k)' <=> Exists(k)
      <4>1. \A q, j, k : At(q, j, k)' <=> At(q, j, k)
        BY <1>2, <1>4, <2>1
      <4>2. \A k : Exists(k)' <=> \E q, j : At(q, j, k)'
        BY DEF Exists, At
      <4>. QED  BY <4>1, <4>2, ExistsAt
    <3>. QED  BY <1>3, <2>1, <3>1 DEF DataInv, Writing
  <2>2. CASE pc = "write"
    BY <1>3, <2>2 DEF DataInv, Writing
  <2>. QED  BY <1>3, <2>1, <2>2
<1>11. Replacing'
  <2> SUFFICES ASSUME pc = "write" PROVE Replacing'
    BY <1>3 DEF Replacing
  <2>0. ~SomeFreeing
    BY <1>4
  <2>1. Same(log[n].items[m], op) /\ op # NoOp
    <3>1. Same(log[n].items[m], op)
      BY <1>1 DEF DataInv, Writing
    <3>2. op.type # "none"
      <4>1. <<op.key, op.type>> \in Pairs
        BY DEF DataInv, Writing
      <4>2. op.type \in Types
        BY <4>1, TypeFacts, KeyKinds DEF Pairs
      <4>. QED  BY <4>2, KeyKinds
    <3>. QED  BY <3>1, <3>2 DEF NoOp
  <2>2. log'[n].items \in Seq(ItemSet) /\ Len(log'[n].items) = m /\ m # 0
    <3>1. PageInv'
      BY PagesMarkWritten
    <3>2. m \in 1 .. m
      BY MarkWrittenIs DEF n, m
    <3>. QED  BY <1>1, <3>1, <3>2, LogTypes DEF PageInv, NvsTypes, n, m
  <2>3. /\ Last(log'[n].items) = log'[n].items[m] /\ log'[n].items # << >>
    BY <2>2, EmptySeq DEF Last
  <2>4. Same(log'[n].items[m], op)
    <3>1. Same(log'[n].items[m], log[n].items[m])
      BY <1>1
    <3>. QED  BY <2>1, <3>1 DEF Same
  <2>5. log'[n].items[m].state = "written"
    BY MarkWrittenAt DEF n, m
  <2>6. PICK c : c = op.key
    OBVIOUS
  <2>7. old <=> \E p, i : At(p, i, c)
    BY <2>1, <2>6, ExistsAt DEF DataInv, Writing
  <2>8. (\E p, i : At(p, i, c)) => \E p, i : At(p, i, c)' /\ ~(p = n /\ i = m)
    BY <1>2
  <2>9. (\E p, i : At(p, i, c)' /\ ~(p = n /\ i = m)) => \E p, i : At(p, i, c)
    BY <1>2
  <2>10. old' <=> \E p \in DOMAIN log' : \E i \in DOMAIN log'[p].items :
                    Live(p, i, c)' /\ ~(p = n /\ i = Len(log'[p].items))
    <3>1. old' <=> \E p, i : At(p, i, c)' /\ ~(p = n /\ i = m)
      BY <1>3, <2>7, <2>8, <2>9
    <3>. QED  BY <2>2, <3>1 DEF At
  <2>11. /\ op' = op /\ Len(log') = n /\ Last(log') = log'[n]
         /\ log'[n].state = "active" /\ log' # << >>
    BY <1>1, <1>3
  <2>. QED  BY <2>2, <2>3, <2>4, <2>5, <2>6, <2>10, <2>11 DEF Replacing, IsWritten
<1>. QED  BY <1>1, <1>5, <1>6, <1>7, <1>8, <1>9, <1>10, <1>11 DEF DataInv

(* An item that is half written does not count.                            *)
LEMMA WriteEntryAt ==
    ASSUME PageInv, log # << >>, NEW e \in ItemSet, WriteEntry(e), NoneHalf, ~fresh,
           Last(log).state = "active", Len(Last(log).items) < ENTRY_COUNT
    PROVE  LET n == Len(log)
               m == Len(log[n].items)
           IN  /\ n \in DOMAIN log /\ m \in Nat /\ DOMAIN log' = DOMAIN log /\ Len(log') = n
               /\ Last(log) = log[n] /\ Last(log') = log'[n] /\ log[n].state = "active"
               /\ DOMAIN log[n].items = 1 .. m /\ DOMAIN log'[n].items = 1 .. m + 1
               /\ \A q \in DOMAIN log :
                    /\ log'[q].state = log[q].state
                    /\ q # n => DOMAIN log'[q].items = DOMAIN log[q].items
                    /\ \A j \in DOMAIN log[q].items :
                         j \in DOMAIN log'[q].items /\ log'[q].items[j] = log[q].items[j]
                    /\ \A j \in DOMAIN log'[q].items :
                         j \in DOMAIN log[q].items \/ (q = n /\ j = m + 1)
               /\ log'[n].items[m + 1].state = "half" /\ Same(log'[n].items[m + 1], e)
               /\ \A q \in DOMAIN log' : \A j \in DOMAIN log'[q].items :
                    Half(q, j)' => q = n /\ j = m + 1
               /\ SomeFreeing' <=> SomeFreeing
               /\ \A q, j, k : At(q, j, k)' <=> At(q, j, k)
               /\ \A k : Exists(k)' <=> Exists(k)
               /\ Kinds /\ <<e.key, e.type>> \in Pairs /\ e.value \in Values \cup {1} => Kinds'
<1> DEFINE n == Len(log)
           m == Len(log[n].items)
<1>1. /\ n \in 1 .. n /\ m \in Nat /\ Last(log) = log[n] /\ Last(log)' = log'[n]
      /\ log' \in Seq(PageSet) /\ Len(log') = n /\ ~SomeHalf
      /\ \A q \in 1 .. n :
           /\ log'[q].state = log[q].state
           /\ q # n => log'[q].items = log[q].items
           /\ \A j \in 1 .. Len(log[q].items) :
                log'[q].items[j] = log[q].items[j]
      /\ Len(log'[n].items) = m + 1 /\ log'[n].items[m + 1].state = "half"
      /\ Same(log'[n].items[m + 1], e)
      /\ (SomeFreeing' <=> SomeFreeing)
  BY WriteEntryIs
<1>2. /\ DOMAIN log = 1 .. n /\ DOMAIN log' = 1 .. n
      /\ \A q \in 1 .. n : /\ DOMAIN log[q].items = 1 .. Len(log[q].items)
                           /\ DOMAIN log'[q].items = 1 .. Len(log'[q].items)
  BY <1>1, LogTypes DEF PageInv, NvsTypes
<1>3. DOMAIN log[n].items = 1 .. m /\ DOMAIN log'[n].items = 1 .. m + 1
  BY <1>1, <1>2
<1> HIDE DEF m
<1>4. (\A j \in 1 .. m : j \in 1 .. m + 1) /\ \A j \in 1 .. m + 1 : j \in 1 .. m \/ j = m + 1
  BY <1>1
<1>5. ASSUME NEW q \in DOMAIN log
      PROVE  /\ log'[q].state = log[q].state
             /\ q # n => DOMAIN log'[q].items = DOMAIN log[q].items
             /\ \A j \in DOMAIN log[q].items :
                  j \in DOMAIN log'[q].items /\ log'[q].items[j] = log[q].items[j]
             /\ \A j \in DOMAIN log'[q].items :
                  j \in DOMAIN log[q].items \/ (q = n /\ j = m + 1)
  <2>1. /\ log'[q].state = log[q].state
        /\ q # n => log'[q].items = log[q].items
        /\ \A j \in DOMAIN log[q].items : log'[q].items[j] = log[q].items[j]
    BY <1>1, <1>2
  <2>2. CASE q = n
    BY <1>3, <1>4, <2>1, <2>2
  <2>3. CASE q # n
    BY <2>1, <2>3
  <2>. QED  BY <2>2, <2>3
<1>6. \A q \in DOMAIN log' : \A j \in DOMAIN log'[q].items :
        Half(q, j)' => q = n /\ j = m + 1
  <2> SUFFICES ASSUME NEW q \in DOMAIN log, NEW j \in DOMAIN log'[q].items, Half(q, j)',
                      ~(q = n /\ j = m + 1)
               PROVE  FALSE
    BY <1>2
  <2>1. j \in DOMAIN log[q].items /\ log'[q].items[j] = log[q].items[j]
    BY <1>5
  <2>2. Half(q, j)
    BY <2>1 DEF Half
  <2>. QED  BY <1>1, <2>1, <2>2 DEF SomeHalf
<1>7. \A q \in DOMAIN log : Counts(q)' <=> Counts(q)
  BY <1>2, <1>5 DEF Counts
<1>8. \A q, j, k : At(q, j, k)' <=> At(q, j, k)
  <2> TAKE q, j, k
  <2>1. ASSUME At(q, j, k) PROVE At(q, j, k)'
    BY <1>2, <1>5, <1>7, <2>1 DEF At, Live, Holds
  <2>2. ASSUME At(q, j, k)' PROVE At(q, j, k)
    <3>1. /\ q \in DOMAIN log /\ j \in DOMAIN log'[q].items /\ Counts(q)
          /\ log'[q].items[j].state = "written" /\ log'[q].items[j].key = k
      BY <1>2, <1>7, <2>2 DEF At, Live, Holds
    <3>2. ~(q = n /\ j = m + 1)
      BY <1>1, <3>1
    <3>3. j \in DOMAIN log[q].items
      BY <1>5, <3>1, <3>2
    <3>4. log'[q].items[j] = log[q].items[j]
      BY <1>5, <3>1, <3>3
    <3>. QED  BY <3>1, <3>3, <3>4 DEF At, Live, Holds
  <2>. QED  BY <2>1, <2>2
<1>9. \A k : Exists(k)' <=> Exists(k)
  <2>1. \A k : Exists(k)' <=> \E q, j : At(q, j, k)'
    BY DEF Exists, At
  <2>. QED  BY <1>8, <2>1, ExistsAt
<1>10. ASSUME Kinds, <<e.key, e.type>> \in Pairs, e.value \in Values \cup {1}
       PROVE  Kinds'
  <2> SUFFICES ASSUME NEW q \in DOMAIN log, NEW j \in DOMAIN log'[q].items
               PROVE  /\ <<log'[q].items[j].key, log'[q].items[j].type>> \in Pairs
                      /\ log'[q].items[j].value \in Values \cup {1}
    BY <1>2 DEF Kinds
  <2>1. CASE q = n /\ j = m + 1
    BY <1>1, <1>10, <2>1 DEF Same
  <2>2. CASE ~(q = n /\ j = m + 1)
    <3>1. j \in DOMAIN log[q].items /\ log'[q].items[j] = log[q].items[j]
      BY <1>5, <2>2
    <3>. QED  BY <1>10, <3>1 DEF Kinds
  <2>. QED  BY <2>1, <2>2
<1>11. n \in DOMAIN log /\ DOMAIN log' = DOMAIN log /\ Last(log') = log'[n]
  BY <1>1, <1>2
<1>. QED  BY <1>1, <1>3, <1>5, <1>6, <1>8, <1>9, <1>10, <1>11 DEF m

(* Storage::writeItem writes an item, which does not count yet.            *)
LEMMA DataWriteItem ==
    ASSUME PageInv, DataInv, WriteItem
    PROVE  DataInv'
<1> DEFINE n == Len(log)
           m == Len(log[n].items)
           e == Item(op.key, op.type, op.value)
<1>1. /\ e \in ItemSet /\ Same(e, op) /\ WriteEntry(e)
      /\ log # << >> /\ NoneHalf /\ ~fresh
      /\ Last(log).state = "active" /\ Len(Last(log).items) < ENTRY_COUNT
  BY WriteItemIs
<1>2. pc = "write" /\ UNCHANGED <<fresh, op, old, handle, pc, readEntryIndex>>
  BY DEF WriteItem, WriteEntry
<1>3. <<e.key, e.type>> \in Pairs /\ e.value \in Values \cup {1}
  BY <1>1, <1>2 DEF DataInv, Writing, Same
<1>4. ~SomeFreeing /\ FreePages >= 1
  BY <1>2 DEF PageInv, Stage, Calls
<1> HIDE DEF e
<1>5. /\ Len(log') = n
      /\ log'[n].items[m + 1].state = "half" /\ Same(log'[n].items[m + 1], e)
      /\ \A q \in DOMAIN log' : \A j \in DOMAIN log'[q].items :
           Half(q, j)' => q = n /\ j = m + 1
      /\ SomeFreeing' <=> SomeFreeing
      /\ \A q, j, k : At(q, j, k)' <=> At(q, j, k)
      /\ \A k : Exists(k)' <=> Exists(k)
      /\ Kinds'
  BY <1>1, <1>3, WriteEntryAt DEF DataInv
<1>6. Source'
  BY <1>4, <1>5 DEF Source, SomeFreeing
<1>7. Copied' /\ NoneReplaced' /\ Replacing' /\ Erasing'
  BY <1>2 DEF Copied, NoneReplaced, Replacing, Erasing
<1>8. Unique'
  <2>1. \A q, j : ~Newest(q, j)
    BY <1>2 DEF Newest
  <2>. QED  BY <1>5, <2>1, KeepUnique DEF DataInv
<1>9. Unopened'
  <2>1. FreePages = PageCount - n - 0
    BY <1>1, FreePagesIs DEF PageInv
  <2>2. n # PageCount
    BY <1>4, <2>1, TypeFacts
  <2>. QED  BY <1>2, <1>5, <2>2 DEF Unopened
<1>10. Writing'
  <2>1. ASSUME NEW q \in DOMAIN log', NEW j \in DOMAIN log'[q].items, Half(q, j)'
        PROVE  Same(log'[q].items[j], op)
    <3>1. Same(log'[q].items[j], e)
      BY <1>5, <2>1
    <3>. QED  BY <1>1, <3>1 DEF Same
  <2>. QED  BY <1>2, <1>5, <2>1 DEF DataInv, Writing
<1>. QED  BY <1>5, <1>6, <1>7, <1>8, <1>9, <1>10 DEF DataInv

(* A copy is an item of the page that is freed, and each of them is copied *)
(* once.                                                                   *)
LEMMA DataCopyItem ==
    ASSUME PageInv, DataInv, CopyItem
    PROVE  DataInv'
<1> DEFINE n == Len(log)
           m == Len(log[n].items)
           f == Freeing
           x == NextToCopy
           e == log[f].items[x]
<1>1. /\ f \in 1 .. n /\ log[f].state = "freeing" /\ SomeFreeing
      /\ x \in 1 .. Len(log[f].items)
      /\ e \in ItemSet /\ WriteEntry(e)
      /\ log # << >> /\ NoneHalf /\ ~fresh /\ readEntryIndex \in Nat
      /\ Last(log).state = "active" /\ Len(Last(log).items) < ENTRY_COUNT
      /\ x > readEntryIndex
  BY CopyItemIs
<1>2. /\ pc = "copy" /\ UNCHANGED <<fresh, op, old, handle, pc>>
      /\ readEntryIndex' = x
  BY DEF CopyItem, WriteEntry
<1>3. /\ IsWritten(f, x)
      /\ \A j \in readEntryIndex + 1 .. Len(log[f].items) : IsWritten(f, j) => x <= j
  <2>1. x # 0
    BY DEF CopyItem
  <2>. QED  BY <1>1, <2>1, NextToCopyIs DEF PageInv, IsWritten
<1>4. /\ f \in DOMAIN log /\ x \in DOMAIN log[f].items
      /\ DOMAIN log[f].items = 1 .. Len(log[f].items) /\ Len(log[f].items) \in Nat
  BY <1>1, LogTypes DEF PageInv, NvsTypes
<1>5. <<e.key, e.type>> \in Pairs /\ e.value \in Values \cup {1}
  BY <1>4 DEF DataInv, Kinds
<1>6. \A g \in DOMAIN log : log[g].state = "freeing" => g = f
  BY <1>1, <1>4 DEF PageInv, Shape
<1> HIDE DEF e, f, x
<1>7. /\ n \in DOMAIN log /\ m \in Nat /\ DOMAIN log' = DOMAIN log /\ Len(log') = n
      /\ Last(log) = log[n] /\ Last(log') = log'[n] /\ log[n].state = "active"
      /\ DOMAIN log[n].items = 1 .. m /\ DOMAIN log'[n].items = 1 .. m + 1
      /\ \A q \in DOMAIN log :
           /\ log'[q].state = log[q].state
           /\ q # n => DOMAIN log'[q].items = DOMAIN log[q].items
           /\ \A j \in DOMAIN log[q].items :
                j \in DOMAIN log'[q].items /\ log'[q].items[j] = log[q].items[j]
           /\ \A j \in DOMAIN log'[q].items :
                j \in DOMAIN log[q].items \/ (q = n /\ j = m + 1)
      /\ log'[n].items[m + 1].state = "half" /\ Same(log'[n].items[m + 1], e)
  BY <1>1, WriteEntryAt
<1>8. /\ SomeFreeing' <=> SomeFreeing
      /\ \A q, j, k : At(q, j, k)' <=> At(q, j, k)
      /\ \A k : Exists(k)' <=> Exists(k)
      /\ Kinds'
  BY <1>1, <1>5, WriteEntryAt DEF DataInv
<1>9. /\ f # n /\ DOMAIN log'[f].items = DOMAIN log[f].items /\ log'[f].state = "freeing"
      /\ \A i \in DOMAIN log[f].items : /\ log'[f].items[i] = log[f].items[i]
                                        /\ log'[f].items[i].state = "written" <=> IsWritten(f, i)
  <2>1. f # n
    BY <1>1, <1>7
  <2>. QED  BY <1>1, <1>4, <1>7, <2>1 DEF IsWritten
<1> HIDE DEF n, m
<1>10. ASSUME NEW j \in DOMAIN log[n].items
       PROVE  \E i \in DOMAIN log[f].items :
                /\ IsWritten(f, i) /\ Same(log[n].items[j], log[f].items[i])
                /\ i <= readEntryIndex
  BY <1>1, <1>2, <1>4, <1>7 DEF DataInv, Source
<1>11. Source'
  <2> SUFFICES ASSUME NEW g \in DOMAIN log, log'[g].state = "freeing",
                      NEW j \in DOMAIN log'[n].items
               PROVE  \E i \in DOMAIN log'[g].items :
                        /\ log'[g].items[i].state = "written" /\ Same(log'[n].items[j], log'[g].items[i])
                        /\ i <= x
    BY <1>2, <1>7 DEF Source, IsWritten
  <2>1. g = f
    BY <1>6, <1>7
  <2>2. CASE j = m + 1
    <3>1. Same(log'[n].items[j], log'[f].items[x]) /\ x <= x
      BY <1>1, <1>4, <1>7, <1>9, <2>2 DEF e
    <3>2. log'[f].items[x].state = "written"
      BY <1>3, <1>4, <1>9
    <3>. QED  BY <1>4, <1>9, <2>1, <3>1, <3>2
  <2>3. CASE j # m + 1
    <3>1. j \in DOMAIN log[n].items /\ log'[n].items[j] = log[n].items[j]
      BY <1>7, <2>3
    <3>2. PICK i \in DOMAIN log[f].items :
            /\ IsWritten(f, i) /\ Same(log[n].items[j], log[f].items[i])
            /\ i <= readEntryIndex
      BY <1>10, <3>1
    <3>3. i <= x
      BY <1>1, <1>4, <3>2
    <3>4. log'[f].items[i].state = "written" /\ Same(log'[n].items[j], log'[f].items[i])
      BY <1>9, <3>1, <3>2
    <3>. QED  BY <1>9, <2>1, <3>3, <3>4
  <2>. QED  BY <2>2, <2>3
<1>12. Copied'
  <2>1. ASSUME NEW g \in DOMAIN log, NEW i \in DOMAIN log'[g].items,
               log'[g].state = "freeing", log'[g].items[i].state = "written", i <= x
        PROVE  \E j \in DOMAIN log'[n].items : Same(log'[n].items[j], log'[g].items[i])
    <3>1. g = f /\ i \in DOMAIN log[f].items /\ IsWritten(f, i)
          /\ log'[g].items[i] = log[f].items[i]
      BY <1>6, <1>7, <1>9, <2>1
    <3>2. CASE i = x
      <4>1. m + 1 \in DOMAIN log'[n].items
        BY <1>7
      <4>. QED  BY <1>7, <3>1, <3>2, <4>1 DEF e
    <3>3. CASE i # x
      <4>1. i <= readEntryIndex
        BY <1>1, <1>3, <1>4, <2>1, <3>1, <3>3
      <4>2. PICK j \in DOMAIN log[n].items : Same(log[n].items[j], log[f].items[i])
        BY <1>1, <1>2, <1>4, <1>7, <3>1, <4>1 DEF DataInv, Copied
      <4>3. j \in DOMAIN log'[n].items /\ log'[n].items[j] = log[n].items[j]
        BY <1>7
      <4>. QED  BY <3>1, <4>2, <4>3
    <3>. QED  BY <3>2, <3>3
  <2>2. ASSUME NEW j \in DOMAIN log[n].items, log[n].items[j].key = e.key
        PROVE  FALSE
    <3>1. PICK i \in DOMAIN log[f].items :
            /\ IsWritten(f, i) /\ Same(log[n].items[j], log[f].items[i])
            /\ i <= readEntryIndex
      BY <1>10
    <3>2. log[f].items[i].key = e.key
      BY <2>2, <3>1 DEF Same
    <3>3. At(f, i, e.key) /\ At(f, x, e.key)
      BY <1>1, <1>3, <1>4, <3>1, <3>2 DEF At, Live, Holds, IsWritten, Counts, e
    <3>4. e.key \in AllKeys /\ pc \notin Early
      BY <1>1, <1>2 DEF ItemSet, Early
    <3>5. i = x
      BY <3>3, <3>4, StrictUnique DEF DataInv
    <3>. QED  BY <1>1, <1>4, <3>1, <3>5
  <2>3. ASSUME NEW i \in DOMAIN log'[n].items, NEW j \in DOMAIN log'[n].items,
               log'[n].items[i].key = log'[n].items[j].key
        PROVE  i = j
    <3>1. log'[n].items[m + 1].key = e.key
      BY <1>7 DEF Same
    <3>2. ASSUME NEW a \in DOMAIN log'[n].items, a # m + 1
          PROVE  a \in DOMAIN log[n].items /\ log'[n].items[a] = log[n].items[a]
      BY <1>7, <3>2
    <3>3. CASE i = m + 1 /\ j # m + 1
      BY <2>2, <2>3, <3>1, <3>2, <3>3
    <3>4. CASE i # m + 1 /\ j = m + 1
      BY <2>2, <2>3, <3>1, <3>2, <3>4
    <3>5. CASE i # m + 1 /\ j # m + 1
      BY <1>1, <1>2, <1>7, <2>3, <3>2, <3>5 DEF DataInv, Copied
    <3>. QED  BY <3>3, <3>4, <3>5
  <2>4. ASSUME NEW j \in DOMAIN log'[n].items
        PROVE  log'[n].items[j].state # "erased"
    <3>1. CASE j = m + 1
      BY <1>7, <3>1
    <3>2. CASE j # m + 1
      <4>1. j \in DOMAIN log[n].items /\ log'[n].items[j] = log[n].items[j]
        BY <1>7, <3>2
      <4>. QED  BY <1>1, <1>2, <1>7, <4>1 DEF DataInv, Copied
    <3>. QED  BY <3>1, <3>2
  <2>. QED  BY <1>2, <1>7, <2>1, <2>3, <2>4 DEF Copied, IsWritten
<1>13. NoneReplaced' /\ Replacing' /\ Erasing' /\ Unopened'
  BY <1>1, <1>2, <1>8 DEF NoneReplaced, Replacing, Erasing, Unopened
<1>14. Unique'
  <2>1. \A q, j : ~Newest(q, j)
    BY <1>2 DEF Newest
  <2>. QED  BY <1>8, <2>1, KeepUnique DEF DataInv
<1>15. Writing'
  BY <1>2, <1>8 DEF DataInv, Writing
<1>. QED  BY <1>8, <1>11, <1>12, <1>13, <1>14, <1>15 DEF DataInv


(* A key that is kept where it was exists as before.                       *)
LEMMA KeepExists ==
    ASSUME \A p, i, k : At(p, i, k)' <=> At(p, i, k)
    PROVE  \A k : Exists(k)' <=> Exists(k)
<1>1. \A k : Exists(k)' <=> \E q, j : At(q, j, k)'
  BY DEF Exists, At
<1>. QED  BY <1>1, ExistsAt

(* Nothing that counts comes or goes, and no value of it changes.          *)
Kept ==
    /\ \A q, j, k : At(q, j, k)' <=> At(q, j, k)
    /\ \A q, j, k : At(q, j, k) => log'[q].items[j].value = log[q].items[j].value

(* A new page comes without items.                                         *)
LEMMA InitializeKept ==
    ASSUME PageInv, InitializePage
    PROVE  Kept
<1> DEFINE n == Len(log)
<1>1. /\ n \in Nat /\ DOMAIN log = 1 .. n /\ DOMAIN log' = 1 .. n + 1
      /\ \A q \in 1 .. n : log'[q] = log[q] /\ log[q].state # "active"
      /\ DOMAIN log'[n + 1].items = {}
  BY InitializePageIs
<1> HIDE DEF n
<1>2. \A q \in DOMAIN log' : q \in DOMAIN log \/ q = n + 1
  BY <1>1
<1>3. \A q \in DOMAIN log : q \in DOMAIN log' /\ Counts(q) /\ Counts(q)'
  BY <1>1 DEF Counts
<1>4. \A q, j, k : At(q, j, k)' <=> At(q, j, k)
  <2> TAKE q, j, k
  <2>1. CASE q \in DOMAIN log
    BY <1>1, <1>3, <2>1 DEF At, Live, Holds
  <2>2. CASE q \notin DOMAIN log
    BY <1>1, <1>2, <2>2 DEF At
  <2>. QED  BY <2>1, <2>2
<1>. QED  BY <1>1, <1>4 DEF Kept, At

(* A new page is empty.                                                    *)
LEMMA DataInitialize ==
    ASSUME PageInv, DataInv, InitializePage
    PROVE  DataInv'
<1> DEFINE n == Len(log)
<1>1. /\ Len(log') = n + 1 /\ n \in Nat
      /\ DOMAIN log = 1 .. n /\ DOMAIN log' = 1 .. n + 1
      /\ \A q \in 1 .. n : log'[q] = log[q] /\ log[q].state # "active"
      /\ Last(log)' = log'[n + 1]
      /\ log'[n + 1].state = "active"
      /\ DOMAIN log'[n + 1].items = {}
      /\ readEntryIndex = 0
  BY InitializePageIs
<1>2. /\ fresh /\ ~fresh' /\ pc \in {"write", "copy"}
      /\ UNCHANGED <<op, old, readEntryIndex, handle, pc>>
  BY DEF InitializePage
<1>3. \A q \in DOMAIN log : \A i \in DOMAIN log[q].items : i # 0 /\ i \in Nat
  BY LogTypes DEF PageInv, NvsTypes
<1> HIDE DEF n
<1>4. \A q \in DOMAIN log' : q \in DOMAIN log \/ q = n + 1
  BY <1>1
<1>5. \A q \in DOMAIN log : q \in DOMAIN log'
  BY <1>1
<1>6. \A q, j, k : At(q, j, k)' <=> At(q, j, k)
  BY InitializeKept DEF Kept
<1>7. \A k : Exists(k)' <=> Exists(k)
  BY <1>6, KeepExists
<1>8. SomeFreeing' <=> SomeFreeing
  BY <1>1, <1>4, <1>5 DEF SomeFreeing
<1>9. Kinds'
  <2> SUFFICES ASSUME NEW q \in DOMAIN log', NEW j \in DOMAIN log'[q].items
               PROVE  /\ <<log'[q].items[j].key, log'[q].items[j].type>> \in Pairs
                      /\ log'[q].items[j].value \in Values \cup {1}
    BY DEF Kinds
  <2>1. q \in DOMAIN log /\ log'[q] = log[q]
    BY <1>1, <1>4
  <2>. QED  BY <2>1 DEF DataInv, Kinds
<1>10. Source'
  BY <1>1 DEF Source
<1>11. Copied'
  <2>1. ASSUME NEW f \in DOMAIN log', log'[f].state = "freeing",
               NEW i \in DOMAIN log'[f].items, i <= readEntryIndex'
        PROVE  FALSE
    <3>1. f \in DOMAIN log /\ log'[f] = log[f]
      BY <1>1, <1>4, <2>1
    <3>2. i \in Nat /\ i # 0 /\ i <= 0
      BY <1>1, <1>2, <1>3, <2>1, <3>1
    <3>. QED  BY <3>2
  <2>. QED  BY <1>1, <2>1 DEF Copied
<1>12. Unique'
  <2>1. \A q, j : ~Newest(q, j)
    BY <1>2 DEF Newest
  <2>. QED  BY <1>6, <2>1, KeepUnique DEF DataInv
<1>13. NoneReplaced' /\ Replacing' /\ Erasing'
  BY <1>2 DEF NoneReplaced, Replacing, Erasing
<1>14. Unopened'
  <2>1. CASE pc = "write"
    <3>1. FreePages >= 1
      BY <2>1 DEF PageInv, Stage, Calls
    <3>2. PageCount - n - 1 >= 1 /\ PageCount \in Nat
      BY <1>2, <3>1, FreePagesIs, TypeFacts DEF PageInv, n
    <3>3. n + 1 # PageCount
      BY <1>1, <3>2
    <3>. QED  BY <1>1, <1>2, <2>1, <3>3 DEF Unopened
  <2>2. CASE pc = "copy"
    <3>1. SomeFreeing
      BY <2>2 DEF PageInv, Copying
    <3>. QED  BY <1>2, <1>8, <2>2, <3>1 DEF Unopened
  <2>. QED  BY <1>2, <2>1, <2>2
<1>15. Writing'
  <2>1. ASSUME pc = "write", NEW q \in DOMAIN log', NEW j \in DOMAIN log'[q].items, Half(q, j)'
        PROVE  Same(log'[q].items[j], op)
    <3>1. q \in DOMAIN log /\ log'[q] = log[q]
      BY <1>1, <1>4, <2>1
    <3>2. Half(q, j)
      BY <2>1, <3>1 DEF Half
    <3>. QED  BY <2>1, <3>1, <3>2 DEF DataInv, Writing
  <2>. QED  BY <1>2, <1>7, <2>1 DEF DataInv, Writing
<1>. QED  BY <1>9, <1>10, <1>11, <1>12, <1>13, <1>14, <1>15 DEF DataInv

(* A page that is marked keeps its items.                                  *)
LEMMA DataMark ==
    ASSUME PageInv, DataInv, MarkFull \/ FreePage
    PROVE  DataInv' /\ Kept
<1>1. PICK p \in 1 .. Len(log) : \E s \in {"full", "freeing"} :
        log' = WithPage(log, p, s) /\ ~SomeHalf
  <2>1. CASE MarkFull
    BY <2>1, MarkFullIs
  <2>2. CASE FreePage
    BY <2>2, FreePageIs
  <2>. QED  BY <2>1, <2>2
<1>2. /\ Len(log') = Len(log) /\ DOMAIN log' = DOMAIN log /\ ~SomeHalf'
      /\ \A q \in DOMAIN log :
           /\ log'[q].items = log[q].items
           /\ log'[q].state = log[q].state \/ log'[q].state # "active"
  BY <1>1, MarkPageIs
<1>3. /\ pc = "write" /\ pc' \in {"write", "copy"} /\ UNCHANGED <<op, old, handle>>
      /\ pc' = "copy" => fresh'
      /\ pc' = "write" => UNCHANGED fresh
      /\ ~SomeFreeing /\ FreePages >= 1
  BY DEF MarkFull, FreePage, NeedsPage, ram, PageInv, Stage, Calls
<1>4. \A q \in DOMAIN log : log'[q].state # "active"
  <2>1. CASE MarkFull
    <3>1. /\ log' = WithPage(log, Len(log), "full") /\ Len(log) \in 1 .. Len(log)
      BY <2>1, MarkFullIs
    <3>2. \A q \in 1 .. Len(log) : log'[q].state = IF q = Len(log) THEN "full" ELSE log[q].state
      BY <1>1, <3>1, MarkPageIs
    <3>3. \A q \in DOMAIN log : log[q].state = "active" => q = Len(log)
      BY DEF PageInv, Shape
    <3>4. DOMAIN log = 1 .. Len(log)
      BY FreePagesIs DEF PageInv
    <3>. QED  BY <3>2, <3>3, <3>4
  <2>2. CASE FreePage
    BY <1>2, <2>2, FreePageIs
  <2>. QED  BY <2>1, <2>2
<1>5. \A q \in DOMAIN log : Counts(q) /\ Counts(q)'
  BY <1>2, <1>3, <1>4, AllCount DEF Counts
<1>6. \A q, j, k : At(q, j, k)' <=> At(q, j, k)
  BY <1>2, <1>5 DEF At, Live, Holds
<1>0. Kept
  BY <1>2, <1>6 DEF Kept, At
<1>7. \A k : Exists(k)' <=> Exists(k)
  BY <1>6, KeepExists
<1>8. Kinds'
  BY <1>2 DEF DataInv, Kinds
<1>9. Source'
  <2>1. log # << >> /\ Last(log)' = log'[Len(log)] /\ Len(log) \in DOMAIN log
    BY <1>1, <1>2, MarkPageIs, LastIs, FreePagesIs DEF PageInv, Last
  <2>. QED  BY <1>4, <2>1 DEF Source
<1>10. Copied' /\ NoneReplaced' /\ Replacing' /\ Erasing'
  BY <1>3 DEF Copied, NoneReplaced, Replacing, Erasing
<1>11. Unique'
  <2>1. \A q, j : ~Newest(q, j)
    BY <1>3 DEF Newest
  <2>. QED  BY <1>6, <2>1, KeepUnique DEF DataInv
<1>12. Unopened'
  <2>1. /\ FreePages <= PageCount - Len(log) /\ FreePages \in Int
        /\ Len(log) \in Nat /\ PageCount \in Nat
    BY FreePagesIs, TypeFacts DEF PageInv
  <2>2. Len(log) # PageCount
    BY <1>3, <2>1
  <2>. QED  BY <1>2, <1>3, <2>2 DEF Unopened
<1>13. Writing'
  <2>1. \A q \in DOMAIN log' : \A j \in DOMAIN log'[q].items : ~Half(q, j)'
    BY <1>2 DEF SomeHalf
  <2>2. op' # NoOp => op # NoOp
    BY <1>3
  <2>. QED  BY <1>3, <1>7, <2>1, <2>2 DEF DataInv, Writing
<1>. QED  BY <1>0, <1>8, <1>9, <1>10, <1>11, <1>12, <1>13 DEF DataInv


(* What a page that is erased leaves.                                      *)
LEMMA RemoveData ==
    ASSUME PageInv, Kinds, NEW p \in 1 .. Len(log), Without(p), fresh' = fresh
    PROVE  /\ \A q \in DOMAIN log' :
                /\ Up(p, q) \in DOMAIN log /\ Up(p, q) # p
                /\ log'[q] = log[Up(p, q)]
           /\ \A q, r \in DOMAIN log' : Up(p, q) = Up(p, r) => q = r
           /\ \A q \in DOMAIN log : q # p => \E r \in DOMAIN log' : q = Up(p, r)
           /\ Kinds'
<1>1. /\ DOMAIN log = 1 .. Len(log) /\ DOMAIN log' = 1 .. Len(log) - 1
      /\ \A q \in 1 .. Len(log) - 1 :
           /\ Up(p, q) \in 1 .. Len(log) /\ Up(p, q) # p
           /\ log'[q] = log[Up(p, q)]
      /\ \A q, r \in 1 .. Len(log) - 1 : Up(p, q) = Up(p, r) => q = r
      /\ \A q \in 1 .. Len(log) : q # p => \E r \in 1 .. Len(log) - 1 : q = Up(p, r)
  BY RemoveIs
<1>2. Kinds'
  <2> SUFFICES ASSUME NEW q \in DOMAIN log', NEW j \in DOMAIN log'[q].items
               PROVE  /\ <<log'[q].items[j].key, log'[q].items[j].type>> \in Pairs
                      /\ log'[q].items[j].value \in Values \cup {1}
    BY DEF Kinds
  <2>1. Up(p, q) \in DOMAIN log /\ log'[q] = log[Up(p, q)]
    BY <1>1
  <2>. QED  BY <2>1 DEF Kinds
<1>. QED  BY <1>1, <1>2

(* A copy that is thrown away did not count.                               *)
LEMMA DataRecoverDiscard ==
    ASSUME PageInv, DataInv, RecoverDiscard
    PROVE  DataInv' /\ Kept
<1> DEFINE n == Len(log)
<1>1. /\ n \in 1 .. n /\ Without(n) /\ SomeFreeing
      /\ log[n].state = "active" /\ Freeing \in 1 .. n
      /\ log[Freeing].state = "freeing" /\ Freeing # n
  BY RecoverDiscardIs
<1>2. pc = "recover" /\ UNCHANGED <<fresh, op, old, readEntryIndex, handle, pc>>
  BY DEF RecoverDiscard, ram
<1>3. /\ DOMAIN log = 1 .. n /\ DOMAIN log' = 1 .. n - 1 /\ n \in Nat
      /\ Len(log') = n - 1 /\ log' \in Seq(PageSet)
      /\ \A q \in 1 .. n - 1 : log'[q] = log[Up(n, q)]
      /\ Kinds'
  BY <1>1, <1>2, RemoveIs, RemoveData DEF DataInv
<1>4. \A q \in DOMAIN log' : q \in DOMAIN log /\ q # n /\ log'[q] = log[q]
  <2>1. \A q \in 1 .. n - 1 : q \in 1 .. n /\ q # n /\ Up(n, q) = q
    <3> HIDE DEF n
    <3>. QED  BY <1>3 DEF Up
  <2>. QED  BY <1>3, <2>1
<1>5. \A q \in DOMAIN log : q # n => q \in DOMAIN log'
  BY <1>3
<1>6. \A q \in DOMAIN log : q # n => log[q].state # "active"
  BY DEF PageInv, Shape
<1>7. SomeFreeing'
  <2>1. \A q \in DOMAIN log : q # n /\ log[q].state = "freeing" => SomeFreeing'
    BY <1>4, <1>5 DEF SomeFreeing
  <2>. QED  BY <1>1, <1>3, <2>1
<1>8. \A q \in DOMAIN log' : Counts(q) /\ Counts(q)'
  BY <1>4, <1>6 DEF Counts
<1>9. \A q, j, k : At(q, j, k)' => At(q, j, k)
  BY <1>4, <1>8 DEF At, Live, Holds
<1>0. Kept
  <2>1. ~Counts(n)
    BY <1>1, <1>3 DEF Counts, SomeFreeing
  <2>2. ASSUME NEW q, NEW j, NEW k, At(q, j, k)
        PROVE  At(q, j, k)' /\ log'[q].items[j].value = log[q].items[j].value
    <3>1. q \in DOMAIN log'
      BY <1>5, <2>1, <2>2 DEF At, Live
    <3>. QED  BY <1>4, <1>8, <2>2, <3>1 DEF At, Live, Holds
  <2>. QED  BY <1>9, <2>2 DEF Kept
<1>10. Source'
  <2>1. log' # << >> /\ Last(log)' = log'[n - 1] /\ n - 1 \in DOMAIN log'
    <3>1. n - 1 # 0 /\ n - 1 \in 1 .. n - 1
      BY <1>1
    <3>2. log' # << >>
      BY <1>3, <3>1, EmptySeq
    <3>. QED  BY <1>3, <3>1, <3>2 DEF Last
  <2>2. log'[n - 1].state # "active"
    BY <1>4, <1>6, <2>1
  <2>. QED  BY <2>1, <2>2 DEF Source
<1>11. Copied' /\ NoneReplaced' /\ Replacing'
  BY <1>2 DEF Copied, NoneReplaced, Replacing
<1>12. Unique'
  <2>1. \A q, j : ~Newest(q, j)
    BY <1>2 DEF Newest
  <2>. QED  BY <1>9, <2>1, KeepUnique DEF DataInv
<1>13. Unopened'
  BY <1>2, <1>7 DEF Unopened
<1>14. Writing' /\ Erasing'
  BY <1>2 DEF DataInv, Writing, Erasing
<1>. QED  BY <1>0, <1>3, <1>10, <1>11, <1>12, <1>13, <1>14 DEF DataInv

(* ArduinoNvs::begin formats a partition that was never opened.            *)
LEMMA DataFormatSector ==
    ASSUME PageInv, DataInv, FormatSector
    PROVE  DataInv'
<1>1. PICK p \in 1 .. Len(log) : Without(p)
  <2>1. DOMAIN log = 1 .. Len(log)
    BY FreePagesIs DEF PageInv
  <2>. QED  BY <2>1 DEF FormatSector, Without
<1>2. pc = "format" /\ UNCHANGED <<fresh, op, old, readEntryIndex, handle, pc>>
  BY DEF FormatSector, ram
<1>3. /\ \A q \in DOMAIN log' : Up(p, q) \in DOMAIN log /\ log'[q] = log[Up(p, q)]
      /\ \A q, r \in DOMAIN log' : Up(p, q) = Up(p, r) => q = r
      /\ Kinds'
  BY <1>1, <1>2, RemoveData DEF DataInv
<1>4. ~SomeFreeing /\ ~SomeFreeing'
  BY <1>1, <1>2, RemoveIs DEF PageInv, Stage
<1>5. \A q, j, k : At(q, j, k)' => q \in DOMAIN log' /\ At(Up(p, q), j, k)
  <2> SUFFICES ASSUME NEW q, NEW j, NEW k, At(q, j, k)'
               PROVE  q \in DOMAIN log' /\ At(Up(p, q), j, k)
    OBVIOUS
  <2>1. /\ q \in DOMAIN log' /\ j \in DOMAIN log'[q].items
        /\ log'[q].items[j].key = k /\ log'[q].items[j].state = "written"
    BY DEF At, Live, Holds
  <2>2. Counts(Up(p, q))
    BY <1>4, AllCount
  <2>. QED  BY <1>3, <2>1, <2>2 DEF At, Live, Holds
<1>6. Unique'
  <2> SUFFICES ASSUME NEW q, NEW i, NEW r, NEW j, NEW k \in AllKeys, At(q, i, k)', At(r, j, k)'
               PROVE  q = r /\ i = j
    BY DEF Unique, At
  <2>1. At(Up(p, q), i, k) /\ At(Up(p, r), j, k) /\ q \in DOMAIN log' /\ r \in DOMAIN log'
    BY <1>5
  <2>2. Up(p, q) = Up(p, r) /\ i = j
    BY <1>2, <2>1, StrictUnique DEF DataInv, Early
  <2>. QED  BY <1>3, <2>1, <2>2
<1>7. Unopened'
  <2> SUFFICES ASSUME NEW q \in DOMAIN log', NEW i \in DOMAIN log'[q].items,
                      Holds(q, i, Namespace)'
               PROVE  FALSE
    BY DEF Unopened
  <2>1. Holds(Up(p, q), i, Namespace) /\ Up(p, q) \in DOMAIN log
        /\ i \in DOMAIN log[Up(p, q)].items
    BY <1>3 DEF Holds
  <2>. QED  BY <1>2, <2>1 DEF DataInv, Unopened
<1>8. Source'
  BY <1>4 DEF Source, SomeFreeing
<1>9. Copied' /\ NoneReplaced' /\ Replacing' /\ Writing' /\ Erasing'
  BY <1>2 DEF Copied, NoneReplaced, Replacing, DataInv, Writing, Erasing
<1>. QED  BY <1>3, <1>6, <1>7, <1>8, <1>9 DEF DataInv


(* When a page has been freed, each of its items is in the copy, and       *)
(* nothing else is.                                                        *)
LEMMA FreedAt ==
    ASSUME PageInv, DataInv, EraseFreed, NEW f, f = Freeing
    PROVE  /\ f \in 1 .. Len(log) /\ Without(f) /\ fresh' = fresh
           /\ ~SomeFreeing' /\ ~SomeHalf'
           /\ \A q, j, k : At(q, j, k)' =>
                /\ q \in DOMAIN log' /\ j \in DOMAIN log'[q].items
                /\ \E r, i : /\ At(r, i, k)
                             /\ log[Up(f, q)].state = "active" => r = f
                             /\ log[Up(f, q)].state # "active" => r = Up(f, q) /\ i = j
           /\ \A r, i, k : At(r, i, k) =>
                \E q, j : /\ At(q, j, k)'
                          /\ log'[q].items[j].value = log[r].items[i].value
<1>1. /\ f \in 1 .. Len(log) /\ log[f].state = "freeing" /\ SomeFreeing
      /\ Without(f) /\ log # << >> /\ ~SomeHalf
  BY EraseFreedIs
<1>2. pc = "copy" /\ fresh' = fresh /\ NextToCopy = 0
  BY DEF EraseFreed
<1>3. /\ \A q \in DOMAIN log' : /\ Up(f, q) \in DOMAIN log /\ Up(f, q) # f
                                /\ log'[q] = log[Up(f, q)]
      /\ \A q \in DOMAIN log : q # f => \E r \in DOMAIN log' : q = Up(f, r)
  BY <1>1, <1>2, RemoveData DEF DataInv
<1>4. SomeHalf' => SomeHalf
  BY <1>1, <1>2, RemoveIs
<1>5. /\ DOMAIN log = 1 .. Len(log) /\ f \in DOMAIN log
      /\ DOMAIN log[f].items = 1 .. Len(log[f].items) /\ Len(log[f].items) \in Nat
      /\ readEntryIndex \in Nat
      /\ Last(log) = log[Len(log)] /\ Len(log) \in DOMAIN log
  BY <1>1, LogTypes, LastIs DEF PageInv, NvsTypes
<1>6. \A q \in DOMAIN log : log[q].state = "freeing" => q = f
  BY <1>1, <1>5 DEF PageInv, Shape
<1>7. ~SomeFreeing'
  BY <1>3, <1>6 DEF SomeFreeing
<1>8. \A q : Counts(q)'
  BY <1>7 DEF SomeFreeing, Counts
<1>9. \A q \in DOMAIN log : log[q].state = "active" => q = Len(log) /\ ~fresh
  BY DEF PageInv, Shape
<1>10. ASSUME NEW q, NEW j, NEW k, At(q, j, k)'
       PROVE  /\ q \in DOMAIN log' /\ j \in DOMAIN log'[q].items
              /\ \E r, i : /\ At(r, i, k)
                           /\ log[Up(f, q)].state = "active" => r = f
                           /\ log[Up(f, q)].state # "active" => r = Up(f, q) /\ i = j
  <2> DEFINE u == Up(f, q)
  <2>1. /\ q \in DOMAIN log' /\ j \in DOMAIN log'[q].items
        /\ log'[q].items[j].key = k /\ log'[q].items[j].state = "written"
    BY <1>10 DEF At, Live, Holds
  <2>2. u \in DOMAIN log /\ j \in DOMAIN log[u].items /\ Holds(u, j, k)
    BY <1>3, <2>1 DEF Holds
  <2> HIDE DEF u
  <2>3. CASE log[u].state = "active"
    <3>1. Last(log) = log[u]
      BY <1>5, <1>9, <2>2, <2>3
    <3>2. PICK i \in DOMAIN log[f].items :
            IsWritten(f, i) /\ Same(log[u].items[j], log[f].items[i])
      BY <1>1, <1>5, <2>2, <2>3, <3>1 DEF DataInv, Source
    <3>3. At(f, i, k)
      BY <1>1, <1>5, <2>2, <3>2 DEF At, Live, Holds, IsWritten, Same, Counts
    <3>. QED  BY <2>1, <2>3, <3>3 DEF u
  <2>4. CASE log[u].state # "active"
    <3>1. At(u, j, k)
      BY <2>2, <2>4 DEF At, Live, Counts
    <3>. QED  BY <2>1, <2>4, <3>1 DEF u
  <2>. QED  BY <2>3, <2>4
<1>11. ASSUME NEW u \in DOMAIN log, u # f, NEW j \in DOMAIN log[u].items, NEW k,
              Holds(u, j, k)
       PROVE  \E q, l : /\ At(q, l, k)'
                        /\ log'[q].items[l].value = log[u].items[j].value
  <2>1. PICK q \in DOMAIN log' : u = Up(f, q)
    BY <1>3, <1>11
  <2>2. log'[q] = log[u]
    BY <1>3, <2>1
  <2>3. Holds(q, j, k)' /\ j \in DOMAIN log'[q].items
    BY <1>11, <2>2 DEF Holds
  <2>4. At(q, j, k)'
    BY <1>8, <2>3 DEF At, Live
  <2>. QED  BY <2>2, <2>4
<1>12. ASSUME NEW r, NEW i, NEW k, At(r, i, k)
       PROVE  \E q, j : /\ At(q, j, k)'
                        /\ log'[q].items[j].value = log[r].items[i].value
  <2>2. r \in DOMAIN log /\ i \in DOMAIN log[r].items /\ Live(r, i, k)
    BY <1>12 DEF At
  <2>3. CASE r # f
    BY <1>11, <2>2, <2>3 DEF Live
  <2>4. CASE r = f
    <3>1. /\ i \in 1 .. Len(log[f].items) /\ log[f].items[i].state = "written"
          /\ log[f].items[i].key = k
      BY <1>5, <2>2, <2>4 DEF Live, Holds
    <3>2. \A j \in readEntryIndex + 1 .. Len(log[f].items) : log[f].items[j].state # "written"
      BY <1>1, <1>2, NextToCopyIs DEF PageInv
    <3>3. i <= readEntryIndex
      BY <1>5, <3>1, <3>2
    <3>4. ~fresh
      <4>1. fresh => readEntryIndex = 0
        BY DEF PageInv, Stage
      <4>. QED  BY <1>5, <3>1, <3>3, <4>1
    <3>5. PICK j \in DOMAIN Last(log).items :
            Same(Last(log).items[j], log[f].items[i])
      BY <1>1, <1>2, <1>5, <3>1, <3>3, <3>4 DEF DataInv, Copied, IsWritten
    <3>6. Last(log).items[j].state # "erased"
      BY <1>2, <3>4 DEF DataInv, Copied
    <3>7. Last(log).items[j].state = "written"
      <4>1. Last(log).items[j].state \in {"half", "written", "erased"}
        BY <1>5, LogTypes DEF PageInv, NvsTypes
      <4>2. Last(log).items[j].state # "half"
        BY <1>1, <1>5 DEF SomeHalf, Half
      <4>. QED  BY <3>6, <4>1, <4>2
    <3>8. Holds(Len(log), j, k)
      BY <1>5, <3>1, <3>5, <3>7 DEF Holds, Same
    <3>9. Len(log) # f
      BY <3>4, EraseFreedIs
    <3>10. log[Len(log)].items[j].value = log[r].items[i].value
      BY <1>5, <2>4, <3>5 DEF Same
    <3>. QED  BY <1>5, <1>11, <3>8, <3>9, <3>10
  <2>. QED  BY <2>3, <2>4
<1>. QED  BY <1>1, <1>2, <1>4, <1>7, <1>10, <1>12

(* When a freed page is erased its copy takes its place.                   *)
LEMMA DataEraseFreed ==
    ASSUME PageInv, DataInv, EraseFreed
    PROVE  DataInv'
<1>0. PICK f : f = Freeing
  OBVIOUS
<1>1. /\ f \in 1 .. Len(log) /\ Without(f) /\ fresh' = fresh
      /\ ~SomeFreeing' /\ ~SomeHalf'
      /\ \A q, j, k : At(q, j, k)' =>
           /\ q \in DOMAIN log' /\ j \in DOMAIN log'[q].items
           /\ \E r, i : /\ At(r, i, k)
                        /\ log[Up(f, q)].state = "active" => r = f
                        /\ log[Up(f, q)].state # "active" => r = Up(f, q) /\ i = j
      /\ \A r, i, k : At(r, i, k) => \E q, j : At(q, j, k)'
  BY <1>0, FreedAt
<1>2. /\ pc = "copy" /\ UNCHANGED <<op, old, handle>>
      /\ pc' = IF op = NoOp THEN "loaded" ELSE "write"
  BY DEF EraseFreed
<1>3. /\ \A q \in DOMAIN log' : /\ Up(f, q) \in DOMAIN log /\ Up(f, q) # f
                                /\ log'[q] = log[Up(f, q)]
      /\ \A q, r \in DOMAIN log' : Up(f, q) = Up(f, r) => q = r
      /\ Kinds'
  BY <1>1, RemoveData DEF DataInv
<1>4. \A k : Exists(k)' <=> Exists(k)
  <2>1. \A k : Exists(k)' <=> \E q, j : At(q, j, k)'
    BY DEF Exists, At
  <2>. QED  BY <1>1, <2>1, ExistsAt
<1>5. Unique'
  <2> SUFFICES ASSUME NEW q, NEW i, NEW r, NEW j, NEW k \in AllKeys, At(q, i, k)', At(r, j, k)'
               PROVE  q = r /\ i = j
    BY DEF Unique, At
  <2>1. /\ q \in DOMAIN log' /\ i \in DOMAIN log'[q].items
        /\ r \in DOMAIN log' /\ j \in DOMAIN log'[r].items
    BY <1>1
  <2>2. PICK qq, ii : /\ At(qq, ii, k)
                      /\ log[Up(f, q)].state = "active" => qq = f
                      /\ log[Up(f, q)].state # "active" => qq = Up(f, q) /\ ii = i
    BY <1>1
  <2>3. PICK rr, jj : /\ At(rr, jj, k)
                      /\ log[Up(f, r)].state = "active" => rr = f
                      /\ log[Up(f, r)].state # "active" => rr = Up(f, r) /\ jj = j
    BY <1>1
  <2>4. qq = rr /\ ii = jj
    BY <1>2, <2>2, <2>3, StrictUnique DEF DataInv, Early
  <2>5. CASE log[Up(f, q)].state = "active" /\ log[Up(f, r)].state = "active"
    <3>1. /\ Up(f, q) = Len(log) /\ Up(f, r) = Len(log) /\ ~fresh
      BY <1>3, <2>1, <2>5 DEF PageInv, Shape
    <3>2. /\ q = r /\ log'[q] = log[Len(log)] /\ Last(log) = log[Len(log)]
      BY <1>3, <2>1, <3>1 DEF Last
    <3>3. /\ i \in DOMAIN Last(log).items /\ j \in DOMAIN Last(log).items
          /\ Last(log).items[i].key = k /\ Last(log).items[j].key = k
      BY <2>1, <3>2 DEF At, Live, Holds
    <3>4. i = j
      BY <1>2, <3>1, <3>3 DEF DataInv, Copied
    <3>. QED  BY <3>2, <3>4
  <2>6. CASE log[Up(f, q)].state # "active" /\ log[Up(f, r)].state # "active"
    BY <1>3, <2>1, <2>2, <2>3, <2>4, <2>6
  <2>. QED  BY <1>3, <2>1, <2>2, <2>3, <2>4, <2>5, <2>6
<1>6. Source'
  BY <1>1 DEF Source, SomeFreeing
<1>7. Copied' /\ NoneReplaced' /\ Replacing'
  BY <1>2 DEF Copied, NoneReplaced, Replacing
<1>8. Unopened'
  <2>1. Len(log') = Len(log) - 1 /\ Len(log) \in Nat /\ PageCount \in Nat
    BY <1>1, RemoveIs, TypeFacts
  <2>2. FreePages >= 0 /\ FreePages <= PageCount - Len(log) /\ FreePages \in Int
    BY <2>1, FreePagesIs DEF PageInv, Shape
  <2>3. Len(log') # PageCount
    BY <2>1, <2>2
  <2>. QED  BY <1>2, <2>3 DEF Unopened
<1>9. Writing'
  <2>1. \A q \in DOMAIN log' : \A j \in DOMAIN log'[q].items : ~Half(q, j)'
    BY <1>1 DEF SomeHalf
  <2>. QED  BY <1>2, <1>4, <2>1 DEF DataInv, Writing
<1>10. Erasing'
  BY <1>2 DEF Erasing
<1>. QED  BY <1>3, <1>5, <1>6, <1>7, <1>8, <1>9, <1>10 DEF DataInv


(* The items of a partition that was used before have keys of their own.   *)
LEMMA ForeignOnce ==
    ASSUME NEW p \in Nat, NEW q \in Nat,
           NEW i \in 1 .. ENTRY_COUNT, NEW j \in 1 .. ENTRY_COUNT,
           Foreign(p, i) = Foreign(q, j)
    PROVE  p = q /\ i = j
<1>0. ENTRY_COUNT \in Nat /\ i \in Nat /\ j \in Nat
  BY TypeFacts
<1>1. p * ENTRY_COUNT \in Nat /\ q * ENTRY_COUNT \in Nat
  BY <1>0
<1>2. (p * ENTRY_COUNT) + i = (q * ENTRY_COUNT) + j
  <2> DEFINE a == p * ENTRY_COUNT
             b == q * ENTRY_COUNT
  <2>1. 100 + a + i = 100 + b + j /\ a \in Nat /\ b \in Nat
    BY <1>1 DEF Foreign
  <2> HIDE DEF a, b
  <2>2. a + i = b + j
    BY <1>0, <2>1
  <2>. QED  BY <2>2 DEF a, b
<1>3. ASSUME NEW x \in Nat, NEW y \in Nat, x < y
      PROVE  (x * ENTRY_COUNT) + ENTRY_COUNT <= y * ENTRY_COUNT
  <2>1. PICK d \in Nat : y = x + 1 + d
    <3>1. y - x - 1 \in Nat /\ y = x + 1 + (y - x - 1)
      BY <1>3
    <3>. QED  BY <3>1
  <2>2. y * ENTRY_COUNT = (x * ENTRY_COUNT) + ENTRY_COUNT + (d * ENTRY_COUNT)
    BY <1>0, <2>1
  <2>3. d * ENTRY_COUNT \in Nat /\ x * ENTRY_COUNT \in Nat
    BY <1>0
  <2>. QED  BY <1>0, <2>2, <2>3
<1>4. ~(p < q) /\ ~(q < p)
  <2> DEFINE a == p * ENTRY_COUNT
             b == q * ENTRY_COUNT
  <2>1. /\ a \in Nat /\ b \in Nat /\ a + i = b + j
        /\ p < q => a + ENTRY_COUNT <= b
        /\ q < p => b + ENTRY_COUNT <= a
    BY <1>1, <1>2, <1>3
  <2>2. i >= 1 /\ j >= 1 /\ i <= ENTRY_COUNT /\ j <= ENTRY_COUNT
    OBVIOUS
  <2> HIDE DEF a, b
  <2>. QED  BY <1>0, <2>1, <2>2
<1>5. p = q
  BY <1>4
<1>. QED  BY <1>0, <1>1, <1>2, <1>5

(* The items a partition may hold before the first start.                  *)
LEMMA DataInit ==
    ASSUME Init
    PROVE  DataInv
<1>1. /\ log \in Seq(PageSet) /\ Len(log) \in {0, PageCount - 1, PageCount}
      /\ \A p \in 1 .. Len(log) :
           /\ log[p].state = "full" /\ Len(log[p].items) = ENTRY_COUNT
           /\ \A i \in 1 .. ENTRY_COUNT : log[p].items[i] = Item(Foreign(p, i), "u8", 1)
  BY InitIs
<1>2. op = NoOp /\ pc = "off"
  BY DEF Init
<1>3. /\ DOMAIN log = 1 .. Len(log)
      /\ \A p \in 1 .. Len(log) : DOMAIN log[p].items = 1 .. ENTRY_COUNT
  BY <1>1, LogTypes
<1>4. \A p \in DOMAIN log : p \in Nat /\ p \in 1 .. PageCount
  <2> DEFINE n == Len(log)
  <2>1. n \in {0, PageCount - 1, PageCount} /\ DOMAIN log = 1 .. n /\ PageCount \in Nat
    BY <1>1, <1>3, TypeFacts
  <2> HIDE DEF n
  <2>2. n \in Int /\ n <= PageCount
    BY <2>1
  <2>. QED  BY <2>1, <2>2
<1>5. \A p \in DOMAIN log : \A i \in DOMAIN log[p].items :
        /\ i \in 1 .. ENTRY_COUNT
        /\ log[p].items[i].key = Foreign(p, i) /\ Foreign(p, i) \in ForeignKeys
        /\ log[p].items[i].type = "u8" /\ log[p].items[i].value = 1
  <2> TAKE p \in DOMAIN log
  <2> TAKE i \in DOMAIN log[p].items
  <2>1. i \in 1 .. ENTRY_COUNT /\ log[p].items[i] = Item(Foreign(p, i), "u8", 1)
    BY <1>1, <1>3
  <2>2. Foreign(p, i) \in ForeignKeys
    BY <1>4, <2>1 DEF ForeignKeys
  <2>. QED  BY <2>1, <2>2 DEF Item
<1>6. Kinds
  BY <1>5 DEF Kinds, Pairs
<1>7. Unique
  <2> SUFFICES ASSUME NEW p \in DOMAIN log, NEW q \in DOMAIN log,
                      NEW i \in DOMAIN log[p].items, NEW j \in DOMAIN log[q].items,
                      log[p].items[i].key = log[q].items[j].key
               PROVE  p = q /\ i = j
    BY DEF Unique, Live, Holds
  <2>1. Foreign(p, i) = Foreign(q, j)
    BY <1>5
  <2>. QED  BY <1>4, <1>5, <2>1, ForeignOnce
<1>8. Unopened
  <2> SUFFICES ASSUME NEW p \in DOMAIN log, NEW i \in DOMAIN log[p].items
               PROVE  log[p].items[i].key # Namespace
    BY DEF Unopened, Holds
  <2>. QED  BY <1>5, KeyKinds DEF Namespace
<1>9. Source
  BY <1>1, <1>3 DEF Source
<1>10. Copied /\ NoneReplaced /\ Writing /\ Replacing /\ Erasing
  BY <1>2 DEF Copied, NoneReplaced, Writing, Replacing, Erasing
<1>. QED  BY <1>6, <1>7, <1>8, <1>9, <1>10 DEF DataInv

(* Every step keeps DataInv.                                               *)
LEMMA DataNext ==
    ASSUME OneTypeEach, PageInv, Spare, DataInv, [Next]_vars
    PROVE  DataInv'
<1>0. RecoverActivate => Activates
  BY ActivatesIs
<1>1. CASE \/ Power \/ LoadPages \/ Activates \/ RecoverNothing
           \/ BeginFormat \/ Formatted \/ BeginOpen
           \/ \E u \in Uses, v \in Values : setInt(u[1], u[2], v)
           \/ TakeFreePage \/ WriteFails \/ \E k \in Keys : erase(k)
           \/ eraseAll \/ EraseReturn \/ EraseAllReturn \/ Refuse \/ close \/ Crash
  BY <1>1, DataQuiet
<1>2. CASE LoadHalfWritten \/ LoadReplaced
  BY <1>2, DataLoad
<1>3. CASE EraseItem \/ EraseNext
  BY <1>3, DataErase
<1>4. CASE LoadLast
  BY <1>4, DataLoadLast
<1>5. CASE EraseReplaced
  BY <1>5, DataEraseReplaced
<1>6. CASE MarkWritten
  BY <1>6, DataMarkWritten
<1>7. CASE WriteItem
  BY <1>7, DataWriteItem
<1>8. CASE CopyItem
  BY <1>8, DataCopyItem
<1>9. CASE InitializePage
  BY <1>9, DataInitialize
<1>10. CASE MarkFull \/ FreePage
  BY <1>10, DataMark
<1>11. CASE RecoverDiscard
  BY <1>11, DataRecoverDiscard
<1>12. CASE FormatSector
  BY <1>12, DataFormatSector
<1>13. CASE EraseFreed
  BY <1>13, DataEraseFreed
<1>14. CASE UNCHANGED vars
  BY <1>14, DataStutter
<1>. QED  BY <1>0, <1>1, <1>2, <1>3, <1>4, <1>5, <1>6, <1>7, <1>8, <1>9, <1>10, <1>11,
             <1>12, <1>13, <1>14 DEF Next, Library, Load, Begin, Write, Erase

(* If every setting is always set with the same type, the items are as     *)
(* they should be in every state, wherever the power went.                 *)
THEOREM DataInductive ==
    ASSUME OneTypeEach
    PROVE  Spec => [](PageInv /\ Spare /\ DataInv)
<1>1. Init => PageInv /\ Spare /\ DataInv
  BY PagesInit, SpareInit, DataInit
<1>2. PageInv /\ Spare /\ DataInv /\ [Next]_vars => PageInv' /\ Spare' /\ DataInv'
  BY PagesNext, SpareNext, DataNext
<1>. QED  BY <1>1, <1>2, PTL DEF Spec


(* Once the list is loaded a key has one item that counts.                 *)
LEMMA SmallSet ==
    ASSUME NEW S, \A x, y \in S : x = y
    PROVE  Cardinality(S) <= 1
<1>1. CASE S = {}
  BY <1>1, FS_EmptySet
<1>2. CASE S # {}
  <2>1. PICK x : S = {x}
    BY <1>2
  <2>. QED  BY <2>1, FS_Singleton
<1>. QED  BY <1>1, <1>2

(* Between two calls a key has one item at most, whatever crashes came     *)
(* before: README.rst of nvs_flash, "Keys are required to be unique".      *)
THEOREM KeysUniqueHolds ==
    ASSUME OneTypeEach
    PROVE  Spec => []KeysUnique
<1>1. PageInv /\ DataInv => KeysUnique
  <2> SUFFICES ASSUME PageInv, DataInv, pc = "idle", NEW k \in AllKeys
               PROVE  Cardinality(ItemsOf(k)) <= 1
    BY DEF KeysUnique
  <2>1. ~SomeFreeing
    BY DEF PageInv, Stage, Calls
  <2>2. ASSUME NEW w \in ItemsOf(k), NEW x \in ItemsOf(k)
        PROVE  w = x
    <3>1. At(w[1], w[2], k) /\ At(x[1], x[2], k)
      BY <2>1, AllCount DEF ItemsOf, At, Live
    <3>2. w = <<w[1], w[2]>> /\ x = <<x[1], x[2]>>
      BY DEF ItemsOf
    <3>3. w[1] = x[1] /\ w[2] = x[2]
      BY <3>1, StrictUnique DEF DataInv, Early
    <3>. QED  BY <3>2, <3>3
  <2>. QED  BY <2>2, SmallSet
<1>. QED  BY <1>1, DataInductive, PTL


(* The last item of a key that counts is the one whose value is stored.    *)
LastAt(p, i, k) ==
    /\ At(p, i, k)
    /\ \A q, j : At(q, j, k) => q < p \/ (q = p /\ j <= i)

StoredIsLast ==
    PageInv /\ Kinds =>
        /\ \A k : ~Exists(k) => Stored(k) = None
        /\ \A k : Exists(k) => \E p, i : LastAt(p, i, k)
        /\ \A p, i, k : LastAt(p, i, k) => Stored(k) = log[p].items[i].value
        /\ \A p, i, k : At(p, i, k) => p \in Nat /\ i \in Nat

(* The value of a key is that of its last item.                            *)
LEMMA StoredIs == StoredIsLast
<1> SUFFICES ASSUME PageInv, Kinds
             PROVE  /\ \A k : ~Exists(k) => Stored(k) = None
                    /\ \A k : Exists(k) => \E p, i : LastAt(p, i, k)
                    /\ \A p, i, k : LastAt(p, i, k) => Stored(k) = log[p].items[i].value
                    /\ \A p, i, k : At(p, i, k) => p \in Nat /\ i \in Nat
  BY DEF StoredIsLast
<1> DEFINE n == Len(log)
           m(p) == Len(log[p].items)
<1>1. /\ n \in Nat /\ DOMAIN log = 1 .. n
      /\ \A p \in 1 .. n : m(p) \in Nat /\ DOMAIN log[p].items = 1 .. m(p)
  BY LogTypes DEF PageInv, NvsTypes
<1>2. ASSUME NEW k, NEW v, IsStored(k, v)
      PROVE  \E p, i : /\ At(p, i, k) /\ log[p].items[i].value = v
                       /\ \A j \in i + 1 .. m(p) : ~Holds(p, j, k)
                       /\ \A q \in p + 1 .. n : Counts(q) =>
                            \A j \in DOMAIN log[q].items : ~Holds(q, j, k)
  BY <1>2, Zenon DEF IsStored, At, Live
<1> HIDE DEF n, m
<1>3. ASSUME NEW k, ~Exists(k)
      PROVE  Stored(k) = None
  BY <1>2, <1>3, ExistsAt DEF Stored
<1>4. ASSUME NEW p, NEW i, NEW k, At(p, i, k)
      PROVE  p \in 1 .. n /\ i \in 1 .. m(p) /\ p \in Nat /\ i \in Nat
  <2>1. p \in 1 .. n /\ i \in 1 .. m(p)
    BY <1>1, <1>4 DEF At
  <2>. QED  BY <1>1, <2>1
<1>5. ASSUME NEW k, Exists(k)
      PROVE  \E p, i : LastAt(p, i, k)
  <2> DEFINE S == {p \in 1 .. n : \E i : At(p, i, k)}
             P == Max(S)
             T == {i \in 1 .. m(P) : At(P, i, k)}
             I == Max(T)
  <2>1. S \subseteq 1 .. n /\ S # {}
    BY <1>4, <1>5, ExistsAt
  <2>2. P \in S /\ \A q \in S : q <= P
    <3> HIDE DEF S
    <3>. QED  BY <1>1, <2>1, MaxIs
  <2>3. P \in 1 .. n /\ \E i : At(P, i, k)
    BY <2>2
  <2> HIDE DEF P
  <2>4. T \subseteq 1 .. m(P) /\ T # {}
    BY <1>4, <2>3
  <2>5. I \in T /\ \A j \in T : j <= I
    <3> HIDE DEF T
    <3>. QED  BY <1>1, <2>3, <2>4, MaxIs
  <2>6. At(P, I, k)
    BY <2>5
  <2> HIDE DEF I
  <2>7. ASSUME NEW q, NEW j, At(q, j, k)
        PROVE  q < P \/ (q = P /\ j <= I)
    <3>1. q \in S /\ q \in Nat /\ P \in Nat
      BY <1>1, <1>4, <2>3, <2>7
    <3>2. q <= P
      BY <2>2, <3>1
    <3>3. q = P => j \in T
      BY <1>4, <2>7
    <3>. QED  BY <2>5, <3>1, <3>2, <3>3
  <2>. QED  BY <2>6, <2>7 DEF LastAt
<1>6. ASSUME NEW p, NEW i, NEW k, LastAt(p, i, k)
      PROVE  Stored(k) = log[p].items[i].value
  <2> DEFINE v == log[p].items[i].value
  <2>1. /\ At(p, i, k) /\ p \in 1 .. n /\ i \in 1 .. m(p) /\ p \in Nat /\ i \in Nat
        /\ \A q, j : At(q, j, k) => q < p \/ (q = p /\ j <= i)
    BY <1>4, <1>6 DEF LastAt
  <2>2. v \in Values \cup {1}
    BY <2>1 DEF Kinds, At
  <2>3. \A j \in i + 1 .. m(p) : ~Holds(p, j, k)
    <3> SUFFICES ASSUME NEW j \in i + 1 .. m(p), Holds(p, j, k) PROVE FALSE
      OBVIOUS
    <3>1. j \in 1 .. m(p) /\ j > i
      BY <1>1, <2>1
    <3>2. At(p, j, k)
      BY <1>1, <2>1, <3>1 DEF At, Live
    <3>. QED  BY <1>1, <2>1, <3>1, <3>2
  <2>4. \A q \in p + 1 .. n : Counts(q) => \A j \in DOMAIN log[q].items : ~Holds(q, j, k)
    <3> SUFFICES ASSUME NEW q \in p + 1 .. n, Counts(q), NEW j \in DOMAIN log[q].items,
                        Holds(q, j, k)
                 PROVE  FALSE
      OBVIOUS
    <3>1. q \in 1 .. n /\ q > p
      BY <1>1, <2>1
    <3>2. At(q, j, k)
      BY <1>1, <3>1 DEF At, Live
    <3>3. q < p \/ q = p
      BY <2>1, <3>2
    <3>. QED  BY <1>1, <2>1, <3>1, <3>3
  <2>5. IsStored(k, v)
    BY <1>1, <2>1, <2>3, <2>4 DEF IsStored, At, Live, m, n
  <2>6. ASSUME NEW w, IsStored(k, w)
        PROVE  w = v
    <3>1. PICK r, s : /\ At(r, s, k) /\ log[r].items[s].value = w
                      /\ \A j \in s + 1 .. m(r) : ~Holds(r, j, k)
                      /\ \A q \in r + 1 .. n : Counts(q) =>
                           \A j \in DOMAIN log[q].items : ~Holds(q, j, k)
      BY <1>2, <2>6
    <3>2. /\ r < p \/ (r = p /\ s <= i)
          /\ r \in 1 .. n /\ s \in 1 .. m(r) /\ r \in Nat /\ s \in Nat
      BY <1>4, <2>1, <3>1
    <3>3. Counts(p) /\ Holds(p, i, k) /\ i \in DOMAIN log[p].items
      BY <2>1 DEF At, Live
    <3>4. ~(r < p)
      <4> SUFFICES ASSUME r < p PROVE FALSE
        OBVIOUS
      <4>1. p \in r + 1 .. n
        BY <1>1, <2>1, <3>2
      <4>. QED  BY <3>1, <3>3, <4>1
    <3>5. r = p
      BY <3>2, <3>4
    <3>6. s = i
      <4> SUFFICES ASSUME s # i PROVE FALSE
        OBVIOUS
      <4>1. i \in s + 1 .. m(p)
        BY <1>1, <2>1, <3>2, <3>5
      <4>. QED  BY <3>1, <3>3, <3>5, <4>1
    <3>. QED  BY <3>1, <3>5, <3>6
  <2> HIDE DEF v
  <2>7. Stored(k) = CHOOSE w \in Values \cup {1} : IsStored(k, w)
    BY <2>2, <2>5 DEF Stored
  <2>8. Stored(k) = v
    BY <2>2, <2>5, <2>6, <2>7
  <2>. QED  BY <2>8 DEF v
<1>. QED  BY <1>3, <1>4, <1>5, <1>6

(* The same of the next state.                                             *)
LEMMA StoredIsNext == StoredIsLast'
BY StoredIs, PTL


(* Where a key has one item, that is the one.                              *)
LEMMA OnlyOne ==
    ASSUME PageInv, DataInv, pc \notin Early, NEW p, NEW i, NEW k \in AllKeys, At(p, i, k)
    PROVE  LastAt(p, i, k) /\ Stored(k) = log[p].items[i].value
<1>1. \A q, j : At(q, j, k) => q = p /\ j = i
  BY StrictUnique DEF DataInv
<1>2. /\ p \in Nat /\ i \in Nat
      /\ LastAt(p, i, k) => Stored(k) = log[p].items[i].value
  BY StoredIs DEF StoredIsLast, DataInv
<1>3. LastAt(p, i, k)
  BY <1>1, <1>2 DEF LastAt
<1>. QED  BY <1>2, <1>3

(* getInt finds an item of the key if there is one.                        *)
LEMMA GetIntIs ==
    ASSUME OneTypeEach, PageInv, DataInv, pc = "idle", handle, NEW k \in Keys
    PROVE  \/ ~Exists(k) /\ getInt(k) = None
           \/ \E p, i : At(p, i, k) /\ getInt(k) = log[p].items[i].value
<1> DEFINE S == {i \in 1 .. Len(GetOrder) : FindItem(k, GetOrder[i]) # 0}
           n == SelectInSeq(GetOrder, LAMBDA t : FindItem(k, t) # 0)
<1>1. n = IF S # {} THEN Min(S) ELSE 0
  BY DEF SelectInSeq
<1>2. Len(GetOrder) = 7 /\ Types = {GetOrder[i] : i \in 1 .. Len(GetOrder)}
  BY DEF GetOrder, Types, Range
<1>3. S # {} => n \in S /\ n # 0
  <2>1. S \subseteq Nat \ {0}
    BY <1>2
  <2> HIDE DEF S
  <2>2. S # {} => Min(S) \in S
    BY <2>1, MinIs
  <2>. QED  BY <1>1, <2>1, <2>2
<1>4. S = {} => n = 0
  BY <1>1
<1>5. getInt(k) = IF ~handle \/ n = 0 THEN None
                  ELSE LET p == log[FindItem(k, GetOrder[n])]
                       IN  p.items[PageFind(p, k, GetOrder[n])].value
  BY DEF getInt
<1>6. ~SomeFreeing
  BY DEF PageInv, Stage, Calls
<1>7. \A i \in S : i \in 1 .. Len(GetOrder) /\ FindItem(k, GetOrder[i]) # 0
  OBVIOUS
<1>8. \A i \in 1 .. Len(GetOrder) : FindItem(k, GetOrder[i]) # 0 => i \in S
  OBVIOUS
<1> HIDE DEF n, S
<1>9. CASE S = {}
  <2>1. getInt(k) = None
    BY <1>4, <1>5, <1>9
  <2>2. PICK u \in Uses : k = u[1]
    BY DEF Keys
  <2>3. u[2] \in Types /\ <<k, u[2]>> \in Pairs
    <3>1. u \in (1 .. 99) \X Types /\ u = <<u[1], u[2]>>
      BY NvsAssumption, KeyKinds DEF Types
    <3>. QED  BY <2>2, <3>1 DEF Pairs
  <2>4. FindItem(k, u[2]) = 0
    BY <1>2, <1>8, <1>9, <2>3
  <2>5. ~Exists(k)
    BY <2>3, <2>4, FindsFirst DEF Exists, Live, DataInv
  <2>. QED  BY <2>1, <2>5
<1>10. CASE S # {}
  <2>1. PICK t : t = GetOrder[n]
    OBVIOUS
  <2>2. PICK p : p = FindItem(k, t)
    OBVIOUS
  <2>3. PICK i : i = PageFind(log[p], k, t)
    OBVIOUS
  <2>4. getInt(k) = log[p].items[i].value /\ p # 0
    BY <1>3, <1>5, <1>7, <1>10, <2>1, <2>2, <2>3
  <2>5. p \in 1 .. Len(log) /\ i # 0
    BY <2>2, <2>3, <2>4, FindItemIs DEF PageInv
  <2>6. /\ log[p] \in PageSet /\ DOMAIN log = 1 .. Len(log)
        /\ DOMAIN log[p].items = 1 .. Len(log[p].items)
    BY <2>5, LogTypes DEF PageInv, NvsTypes
  <2>7. i \in DOMAIN log[p].items /\ Holds(p, i, k)
    BY <2>3, <2>5, <2>6, PageFindIs DEF Holds
  <2>8. At(p, i, k)
    BY <1>6, <2>5, <2>6, <2>7, AllCount DEF At, Live
  <2>. QED  BY <2>4, <2>8
<1>. QED  BY <1>9, <1>10

(* getInt returns the value that was set last, whatever pages were freed   *)
(* and wherever the power went since.                                      *)
THEOREM GetsLastHolds ==
    ASSUME OneTypeEach
    PROVE  Spec => []GetsLast
<1>1. PageInv /\ DataInv => GetsLast
  <2> SUFFICES ASSUME PageInv, DataInv, pc = "idle", handle, NEW k \in Keys
               PROVE  getInt(k) = Stored(k)
    BY DEF GetsLast
  <2>1. k \in AllKeys /\ pc \notin Early
    BY DEF AllKeys, Early
  <2>2. CASE ~Exists(k) /\ getInt(k) = None
    BY <2>2, StoredIs DEF StoredIsLast, DataInv
  <2>3. ASSUME NEW p, NEW i, At(p, i, k), getInt(k) = log[p].items[i].value
        PROVE  getInt(k) = Stored(k)
    BY <2>1, <2>3, OnlyOne
  <2>. QED  BY <2>2, <2>3, GetIntIs
<1>. QED  BY <1>1, DataInductive, PTL

-----------------------------------------------------------------------------
(* The store keeps the promise of SettingStore.  First, which steps change *)
(* what is stored.                                                         *)
OnlyItem ==
    PageInv /\ DataInv /\ pc \notin Early =>
        \A p, i : \A k \in AllKeys : At(p, i, k) => Stored(k) = log[p].items[i].value

(* Outside of a write an item is the last one of its key.                  *)
LEMMA OnlyItemIs == OnlyItem
BY OnlyOne DEF OnlyItem

(* The same of the next state.                                             *)
LEMMA OnlyItemNext == OnlyItem'
BY OnlyItemIs, PTL

\* Without a handle a call of begin can write the namespace, and nothing else.
Opened ==
    /\ pc = "write" \/ (pc = "copy" /\ op # NoOp) =>
         handle \/ (op.key = Namespace /\ ~old)
    /\ pc \in {"erase", "erased", "eraseAll"} => handle

(* Every step keeps Opened.                                                *)
LEMMA OpenedNext ==
    ASSUME DataInv, Opened, [Next]_vars
    PROVE  Opened'
<1>1. CASE Load
  <2>1. op = NoOp /\ UNCHANGED op /\ pc' \notin {"write", "erase", "erased", "eraseAll"}
    BY <1>1 DEF Load, Power, LoadHalfWritten, LoadReplaced, LoadPages, LoadLast,
       RecoverDiscard, RecoverActivate, RecoverNothing, ram, DataInv, Erasing
  <2>. QED  BY <2>1 DEF Opened
<1>2. CASE Begin
  <2>1. CASE BeginOpen
    BY <2>1 DEF BeginOpen, Opened
  <2>2. CASE ~BeginOpen
    BY <1>2, <2>2 DEF Begin, BeginFormat, FormatSector, Formatted, Opened
  <2>. QED  BY <2>1, <2>2
<1>3. CASE Write
  <2>1. CASE EraseReplaced \/ WriteFails
    BY <2>1 DEF EraseReplaced, WriteFails, Return, Opened
  <2>2. CASE ~(EraseReplaced \/ WriteFails)
    <3>1. /\ UNCHANGED <<op, old, handle>>
          /\ pc' = "write" => pc = "write" \/ (pc = "copy" /\ op # NoOp)
          /\ pc' = "copy" => pc \in {"write", "copy"}
          /\ pc' \notin {"erase", "erased", "eraseAll"}
      BY <1>3, <2>2 DEF Write, InitializePage, WriteItem, CopyItem, WriteEntry, MarkWritten,
         MarkFull, TakeFreePage, NeedsPage, FreePage, EraseFreed, ram
    <3>. QED  BY <3>1 DEF Opened
  <2>. QED  BY <2>1, <2>2
<1>4. CASE Erase
  BY <1>4 DEF Erase, EraseItem, EraseReturn, EraseNext, EraseAllReturn, Refuse, Return,
     ram, Opened
<1>5. CASE \/ \E u \in Uses, v \in Values : setInt(u[1], u[2], v)
           \/ \E k \in Keys : erase(k)
           \/ eraseAll
  BY <1>5 DEF setInt, erase, eraseAll, Call, ram, Opened
<1>6. CASE close \/ Crash
  BY <1>6 DEF close, Crash, Opened
<1>7. CASE UNCHANGED vars
  BY <1>7 DEF vars, ram, Opened
<1>. QED  BY <1>1, <1>2, <1>3, <1>4, <1>5, <1>6, <1>7 DEF Next, Library

Good == PageInv /\ Spare /\ DataInv /\ Opened

(* What a step relies on holds in every state.                             *)
LEMMA GoodHolds ==
    ASSUME OneTypeEach
    PROVE  Spec => []Good
<1>1. Init => Opened
  BY DEF Init, Opened
<1>2. DataInv /\ Opened /\ [Next]_vars => Opened'
  BY OpenedNext
<1>. QED  BY <1>1, <1>2, DataInductive, PTL DEF Spec, Good

(* A step that keeps the last item of a key keeps its value.               *)
LEMMA SameStored ==
    ASSUME Good, Good', NEW k, Exists(k)' => Exists(k),
           \A p, i : LastAt(p, i, k) =>
               \E q, j : /\ LastAt(q, j, k)'
                         /\ log'[q].items[j].value = log[p].items[i].value
    PROVE  Stored(k)' = Stored(k)
<1>1. /\ ~Exists(k) => Stored(k) = None
      /\ Exists(k) => \E p, i : LastAt(p, i, k)
      /\ \A p, i : LastAt(p, i, k) => Stored(k) = log[p].items[i].value
  BY StoredIs DEF StoredIsLast, Good, DataInv
<1>2. /\ ~Exists(k)' => Stored(k)' = None
      /\ \A p, i : LastAt(p, i, k)' => Stored(k)' = log'[p].items[i].value
  BY StoredIsNext DEF StoredIsLast, Good, DataInv, None
<1>. QED  BY <1>1, <1>2

(* A step that keeps all items that count keeps all values.                *)
LEMMA KeptStored ==
    ASSUME Good, Good', Kept
    PROVE  \A k : Stored(k)' = Stored(k)
<1> TAKE k
<1>1. Exists(k)' => Exists(k)
  BY KeepExists DEF Kept
<1>2. \A p, i : LastAt(p, i, k) => LastAt(p, i, k)'
  BY DEF LastAt, Kept
<1>3. \A p, i : LastAt(p, i, k) => log'[p].items[i].value = log[p].items[i].value
  BY DEF LastAt, Kept
<1>. QED  BY <1>1, <1>2, <1>3, SameStored

(* A step that leaves the log alone keeps all values.                      *)
LEMMA UnchangedStored ==
    ASSUME Good, Good', UNCHANGED log
    PROVE  \A k : Stored(k)' = Stored(k)
<1>1. Kept
  BY KeepLog DEF Kept
<1>. QED  BY <1>1, KeptStored

(* An item that is erased was not the last of its key.                     *)
LEMMA ErasedStored ==
    ASSUME Good, Good', NEW p, NEW i, log' = Altered(log, p, i, "erased"), fresh' = fresh,
           NEW k, ~LastAt(p, i, k)
    PROVE  Stored(k)' = Stored(k)
<1>1. /\ \A q, j, h : At(q, j, h)' <=> At(q, j, h) /\ ~(q = p /\ j = i)
      /\ Exists(k)' => Exists(k)
      /\ \A q \in DOMAIN log : \A j \in DOMAIN log[q].items :
           Same(log'[q].items[j], log[q].items[j])
  BY EraseIs DEF Good
<1>2. ASSUME NEW q, NEW j, LastAt(q, j, k)
      PROVE  LastAt(q, j, k)' /\ log'[q].items[j].value = log[q].items[j].value
  <2>1. ~(q = p /\ j = i)
    BY <1>2
  <2>. QED  BY <1>1, <1>2, <2>1 DEF LastAt, At, Same
<1>. QED  BY <1>1, <1>2, SameStored

(* Loading the list and taking off what was replaced changes nothing.      *)
LEMMA LoadStored ==
    ASSUME OneTypeEach, Good, Good',
           LoadHalfWritten \/ LoadReplaced \/ LoadLast \/ EraseReplaced
    PROVE  \A k : Stored(k)' = Stored(k)
<1> TAKE k
<1>0. fresh' = fresh
  BY DEF LoadHalfWritten, LoadReplaced, LoadLast, EraseReplaced, ram
<1>1. CASE LoadHalfWritten
  <2>1. PICK w \in HalfWritten : log' = Altered(log, w[1], w[2], "erased")
    BY <1>1 DEF LoadHalfWritten, SetState, Altered
  <2>2. ~LastAt(w[1], w[2], k)
    BY DEF HalfWritten, LastAt, At, Live, Holds
  <2>. QED  BY <1>0, <2>1, <2>2, ErasedStored
<1>2. CASE LoadReplaced
  <2>1. PICK w \in Replaced : log' = Altered(log, w[1], w[2], "erased")
    BY <1>2 DEF LoadReplaced, SetState, Altered
  <2>2. ASSUME LastAt(w[1], w[2], k)
        PROVE  FALSE
    <3>1. /\ w[1] \in DOMAIN log /\ Counts(w[1])
          /\ log[w[1]].items[w[2]].key = k
      BY <2>2 DEF LastAt, At, Live, Holds
    <3>2. /\ w[2] \in 1 .. ENTRY_COUNT /\ w[3] \in 1 .. ENTRY_COUNT
          /\ w[2] < w[3] /\ w[3] <= Len(log[w[1]].items)
          /\ log[w[1]].items[w[3]].state = "written"
          /\ log[w[1]].items[w[3]].key = k
      BY <3>1 DEF Replaced
    <3>3. /\ DOMAIN log[w[1]].items = 1 .. Len(log[w[1]].items)
          /\ Len(log[w[1]].items) \in Nat /\ w[1] \in Nat
      BY <3>1, LogTypes DEF Good, PageInv, NvsTypes
    <3>4. w[3] \in DOMAIN log[w[1]].items
      BY <3>2, <3>3
    <3>5. At(w[1], w[3], k)
      BY <3>1, <3>2, <3>4 DEF At, Live, Holds
    <3>6. w[1] < w[1] \/ w[3] <= w[2]
      BY <2>2, <3>5 DEF LastAt
    <3>. QED  BY <3>2, <3>3, <3>6
  <2>. QED  BY <1>0, <2>1, <2>2, ErasedStored
<1>3. CASE LoadLast
  <2>1. CASE Twin = 0
    BY <1>3, <2>1, UnchangedStored DEF LoadLast
  <2>2. CASE Twin # 0
    <3> DEFINE n == Len(log)
               h == log[n].items[LastItem].key
               b == PageFind(log[Twin], h, "any")
    <3>1. /\ Twin \in DOMAIN log /\ Twin # n
          /\ At(Twin, b, h) /\ At(n, LastItem, h) /\ Last(log) = log[n]
      BY <1>3, <2>2, TwinOf DEF Good, LoadLast
    <3>2. log' = Altered(log, Twin, b, "erased")
      BY <1>3, <2>2, <3>1 DEF LoadLast, SetState, Altered
    <3>3. ASSUME LastAt(Twin, b, k)
          PROVE  FALSE
      <4>1. k = h
        BY <3>1, <3>3 DEF LastAt, At, Live, Holds
      <4>2. n < Twin \/ n = Twin
        BY <3>1, <3>3, <4>1 DEF LastAt
      <4>3. DOMAIN log = 1 .. n /\ n \in Nat
        BY FreePagesIs DEF Good, PageInv
      <4> HIDE DEF n
      <4>. QED  BY <3>1, <4>2, <4>3
    <3>. QED  BY <1>0, <3>2, <3>3, ErasedStored
  <2>. QED  BY <2>1, <2>2
<1>4. CASE EraseReplaced
  <2>1. CASE ~old
    BY <1>4, <2>1, UnchangedStored DEF EraseReplaced
  <2>2. CASE old
    <3> DEFINE n == Len(log)
               m == Len(log[n].items)
               a == FindItem(op.key, op.type)
               b == PageFind(log[a], op.key, op.type)
    <3>1. At(n, m, op.key) /\ At(a, b, op.key) /\ ~(a = n /\ b = m)
      BY <1>4, <2>2, ReplacedIs DEF Good, EraseReplaced
    <3>2. log' = Altered(log, a, b, "erased")
      BY <1>4, <2>2 DEF EraseReplaced, SetState, Altered
    <3>3. ASSUME LastAt(a, b, k)
          PROVE  FALSE
      <4>1. k = op.key
        BY <3>1, <3>3 DEF LastAt, At, Live, Holds
      <4>2. n < a \/ (n = a /\ m <= b)
        BY <3>1, <3>3, <4>1 DEF LastAt
      <4>3. a \in DOMAIN log /\ b \in DOMAIN log[a].items
        BY <3>1 DEF At
      <4>4. /\ DOMAIN log = 1 .. n /\ n \in Nat
            /\ DOMAIN log[a].items = 1 .. Len(log[a].items) /\ Len(log[a].items) \in Nat
        BY <4>3, LogTypes DEF Good, PageInv, NvsTypes
      <4>5. n = a
        <5> HIDE DEF n, a
        <5>. QED  BY <4>2, <4>3, <4>4
      <4>6. m \in Nat /\ b \in 1 .. m /\ m <= b /\ b # m
        BY <3>1, <4>2, <4>3, <4>4, <4>5
      <4> HIDE DEF m, b
      <4>. QED  BY <4>6
    <3>. QED  BY <1>0, <3>2, <3>3, ErasedStored
  <2>. QED  BY <2>1, <2>2
<1>. QED  BY <1>1, <1>2, <1>3, <1>4


(* A page that is filled, marked, freed or thrown away changes nothing.    *)
LEMMA PageStored ==
    ASSUME Good, Good', \/ InitializePage \/ WriteItem \/ CopyItem \/ MarkFull
                        \/ FreePage \/ RecoverDiscard \/ EraseFreed
    PROVE  \A k \in AllKeys : Stored(k)' = Stored(k)
<1>1. CASE InitializePage
  BY <1>1, InitializeKept, KeptStored DEF Good
<1>2. CASE MarkFull \/ FreePage
  BY <1>2, DataMark, KeptStored DEF Good
<1>3. CASE RecoverDiscard
  BY <1>3, DataRecoverDiscard, KeptStored DEF Good
<1>4. ASSUME NEW e \in ItemSet, WriteEntry(e), log # << >>, NoneHalf, ~fresh,
             Last(log).state = "active", Len(Last(log).items) < ENTRY_COUNT
      PROVE  Kept
  <2>1. /\ \A q, j, k : At(q, j, k)' <=> At(q, j, k)
        /\ \A q \in DOMAIN log : \A j \in DOMAIN log[q].items :
             log'[q].items[j] = log[q].items[j]
    BY <1>4, WriteEntryAt DEF Good
  <2>. QED  BY <2>1 DEF Kept, At
<1>5. CASE WriteItem
  <2>1. Kept
    BY <1>4, <1>5, WriteItemIs DEF Good
  <2>. QED  BY <2>1, KeptStored
<1>6. CASE CopyItem
  <2>1. Kept
    BY <1>4, <1>6, CopyItemIs DEF Good
  <2>. QED  BY <2>1, KeptStored
<1>7. CASE EraseFreed
  <2> TAKE k \in AllKeys
  <2>0. PICK f : f = Freeing
    OBVIOUS
  <2>1. /\ \A q, j : At(q, j, k)' => \E r, i : At(r, i, k)
        /\ \A r, i : At(r, i, k) =>
             \E q, j : At(q, j, k)' /\ log'[q].items[j].value = log[r].items[i].value
    <3>1. /\ \A q, j, h : At(q, j, h)' => \E r, i : At(r, i, h)
          /\ \A r, i, h : At(r, i, h) =>
               \E q, j : At(q, j, h)' /\ log'[q].items[j].value = log[r].items[i].value
      BY <1>7, <2>0, FreedAt DEF Good
    <3>. QED  BY <3>1
  <2>2. pc \notin Early /\ pc' \notin Early
    BY <1>7 DEF EraseFreed, Early
  <2>3. \A p, i : At(p, i, k) => Stored(k) = log[p].items[i].value
    BY <2>2, OnlyItemIs DEF OnlyItem, Good
  <2>4. \A p, i : At(p, i, k)' => Stored(k)' = log'[p].items[i].value
    BY <2>2, OnlyItemNext DEF OnlyItem, Good
  <2>5. /\ ~Exists(k) => Stored(k) = None
        /\ ~Exists(k)' => Stored(k)' = None
    BY StoredIs, StoredIsNext DEF StoredIsLast, Good, DataInv, None
  <2>6. CASE Exists(k)
    BY <2>1, <2>3, <2>4, <2>6, ExistsAt
  <2>7. CASE ~Exists(k)
    <3>1. \A r, i : ~At(r, i, k)
      BY <2>7, ExistsAt
    <3>2. ~Exists(k)'
      BY <2>1, <3>1 DEF Exists, At
    <3>. QED  BY <2>5, <2>7, <3>2
  <2>. QED  BY <2>6, <2>7
<1>. QED  BY <1>1, <1>2, <1>3, <1>5, <1>6, <1>7

(* The item of setInt counts once its entry is marked, and a copy does not.*)
LEMMA WriteStored ==
    ASSUME Good, Good', MarkWritten
    PROVE  \A k : Stored(k)' # Stored(k) =>
               pc = "write" /\ k = op.key /\ Stored(k)' = op.value
<1> TAKE k
<1>0. PICK n, m : n = Len(log) /\ m = Len(log[n].items)
  OBVIOUS
<1>1. /\ n \in DOMAIN log /\ m \in DOMAIN log[n].items /\ Half(n, m)
      /\ \A q \in DOMAIN log : \A j \in DOMAIN log[q].items :
           Same(log'[q].items[j], log[q].items[j])
      /\ \A q, j, h : At(q, j, h)' <=>
           At(q, j, h) \/ (q = n /\ j = m /\ ~SomeFreeing /\ log[n].items[m].key = h)
  BY <1>0, MarkWrittenAt DEF Good
<1>2. \A q, j : At(q, j, k) => log'[q].items[j].value = log[q].items[j].value
  BY <1>1 DEF At, Same
<1>3. CASE SomeFreeing \/ log[n].items[m].key # k
  <2>1. \A q, j : At(q, j, k)' <=> At(q, j, k)
    BY <1>1, <1>3
  <2>2. \A q, j : LastAt(q, j, k) => LastAt(q, j, k)'
    BY <2>1 DEF LastAt
  <2>3. Exists(k)' => Exists(k)
    <3>1. Exists(k)' => \E q, j : At(q, j, k)'
      BY DEF Exists, At
    <3>. QED  BY <2>1, <3>1, ExistsAt
  <2>4. Stored(k)' = Stored(k)
    BY <1>2, <2>2, <2>3, SameStored DEF LastAt
  <2>. QED  BY <2>4
<1>4. CASE ~SomeFreeing /\ log[n].items[m].key = k
  <2>1. pc = "write"
    BY <1>4 DEF MarkWritten, Good, PageInv, Copying
  <2>2. Same(log[n].items[m], op)
    BY <1>1, <2>1 DEF Good, DataInv, Writing
  <2>3. At(n, m, k)'
    BY <1>1, <1>4
  <2>4. /\ DOMAIN log = 1 .. n /\ n \in Nat
        /\ DOMAIN log[n].items = 1 .. m /\ m \in Nat
    BY <1>0, <1>1, LogTypes DEF Good, PageInv, NvsTypes
  <2>5. ASSUME NEW q, NEW j, At(q, j, k)'
        PROVE  q < n \/ (q = n /\ j <= m)
    <3>1. q \in DOMAIN log /\ j \in DOMAIN log[q].items
      BY <1>1, <2>5 DEF At
    <3>. QED  BY <2>4, <3>1
  <2>6. LastAt(n, m, k)'
    BY <2>3, <2>5 DEF LastAt
  <2>7. Stored(k)' = log'[n].items[m].value
    BY <2>6, StoredIsNext DEF StoredIsLast, Good, DataInv
  <2>8. log'[n].items[m].value = op.value /\ op.key = k
    BY <1>1, <1>4, <2>2 DEF Same
  <2>. QED  BY <2>1, <2>7, <2>8
<1>. QED  BY <1>3, <1>4

(* An item that is erased, or whose page is, takes its value along.        *)
LEMMA EraseStored ==
    ASSUME OneTypeEach, Good, Good', EraseItem \/ EraseNext
    PROVE  \A k \in AllKeys : Stored(k)' # Stored(k) =>
               /\ Stored(k)' = None
               /\ EraseItem => k = op.key
               /\ EraseNext => k \in Keys
<1> SUFFICES ASSUME NEW k \in AllKeys, Stored(k)' # Stored(k)
             PROVE  /\ Stored(k)' = None
                    /\ EraseItem => k = op.key
                    /\ EraseNext => k \in Keys
  OBVIOUS
<1>1. PICK p, i : /\ log' = Altered(log, p, i, "erased")
                  /\ EraseItem => /\ p = FindItem(op.key, "any")
                                  /\ i = PageFind(log[p], op.key, "any")
                  /\ EraseNext => /\ p = FirstOwner /\ i = FirstOwned(log[p])
                                  /\ p # 0
  <2>1. CASE EraseItem
    BY <2>1 DEF EraseItem, EraseNext, SetState, Altered
  <2>2. CASE EraseNext
    BY <2>2 DEF EraseItem, EraseNext, SetState, Altered
  <2>. QED  BY <2>1, <2>2
<1>2. fresh' = fresh /\ pc \notin Early /\ op' = op
  BY DEF EraseItem, EraseNext, ram, Early
<1>3. LastAt(p, i, k)
  BY <1>1, <1>2, ErasedStored
<1>4. /\ At(p, i, k) /\ log[p].items[i].key = k
  BY <1>3 DEF LastAt, At, Live, Holds
<1>5. \A q, j : ~At(q, j, k)'
  <2>1. \A q, j : At(q, j, k)' => At(q, j, k) /\ ~(q = p /\ j = i)
    BY <1>1, <1>2, EraseIs DEF Good
  <2>. QED  BY <1>2, <1>4, <2>1, StrictUnique DEF Good, DataInv
<1>6. ~Exists(k)'
  BY <1>5 DEF Exists, At
<1>7. Stored(k)' = None
  BY <1>6, StoredIsNext DEF StoredIsLast, Good, DataInv, None
<1>8. p \in 1 .. Len(log) /\ log[p] \in PageSet
  BY <1>4, LogTypes DEF At, Good, PageInv, NvsTypes
<1>9. CASE EraseItem
  <2>1. i # 0
    BY <1>4, <1>8, LogTypes DEF At, Good, PageInv, NvsTypes
  <2>2. log[p].items[i].key = op.key
    BY <1>1, <1>8, <1>9, <2>1, PageFindIs
  <2>3. ~EraseNext
    BY <1>9 DEF EraseItem, EraseNext
  <2>. QED  BY <1>4, <1>7, <2>2, <2>3
<1>10. CASE EraseNext
  <2> DEFINE S == {j \in 1 .. Len(log[p].items) :
                     log[p].items[j].state = "written" /\ log[p].items[j].key \in Keys}
  <2>1. i = IF S # {} THEN Min(S) ELSE 0
    BY <1>1, <1>10 DEF FirstOwned, SelectInSeq
  <2>2. i # 0
    BY <1>4, <1>8, LogTypes DEF At, Good, PageInv, NvsTypes
  <2>3. S \subseteq Nat
    OBVIOUS
  <2>4. i \in S
    <3> HIDE DEF S
    <3>. QED  BY <2>1, <2>2, <2>3, MinIs
  <2>5. log[p].items[i].key \in Keys
    BY <2>4
  <2>6. ~EraseItem
    BY <1>10 DEF EraseItem, EraseNext
  <2>. QED  BY <1>4, <1>7, <2>5, <2>6
<1>. QED  BY <1>9, <1>10

(* Formatting takes values away and makes none.                            *)
LEMMA FormatStored ==
    ASSUME Good, Good', FormatSector
    PROVE  \A k \in AllKeys : Stored(k)' # Stored(k) => Stored(k)' = None
<1> SUFFICES ASSUME NEW k \in AllKeys, Stored(k)' # Stored(k), Stored(k)' # None
             PROVE  FALSE
  OBVIOUS
<1>1. Exists(k)'
  BY StoredIsNext DEF StoredIsLast, Good, DataInv, None
<1>2. PICK q, j : At(q, j, k)'
  BY <1>1 DEF Exists, At
<1>3. PICK p \in 1 .. Len(log) : Without(p)
  <2>1. DOMAIN log = 1 .. Len(log)
    BY FreePagesIs DEF PageInv, Good
  <2>. QED  BY <2>1 DEF FormatSector, Without
<1>4. pc = "format" /\ pc' = "format" /\ fresh' = fresh
  BY DEF FormatSector, ram
<1>5. pc \notin Early /\ pc' \notin Early /\ ~SomeFreeing
  BY <1>4 DEF Good, PageInv, Stage, Early
<1>6. /\ q \in DOMAIN log' /\ j \in DOMAIN log'[q].items
      /\ log'[q].items[j].key = k /\ log'[q].items[j].state = "written"
  BY <1>2 DEF At, Live, Holds
<1>7. Up(p, q) \in DOMAIN log /\ log'[q] = log[Up(p, q)]
  BY <1>3, <1>4, <1>6, RemoveData DEF Good, DataInv
<1>8. At(Up(p, q), j, k)
  BY <1>5, <1>6, <1>7, AllCount DEF At, Live, Holds
<1>9. Stored(k) = log[Up(p, q)].items[j].value
  BY <1>5, <1>8, OnlyItemIs DEF OnlyItem, Good
<1>10. Stored(k)' = log'[q].items[j].value
  BY <1>2, <1>5, OnlyItemNext DEF OnlyItem, Good
<1>. QED  BY <1>7, <1>9, <1>10


(* Then, what a step is to a caller.                                       *)
Asking == {"eraseAll", "refuse", "format"}

(* The call of an item asks for that item, and no other call has one.      *)
LEMMA RequestIs ==
    ASSUME Good
    PROVE  /\ pc \in {"write", "replace", "erase", "erased"} =>
                op # NoOp /\ Requested = {<<op.key, op.value>>}
           /\ pc \in {"erase", "erased"} => op.value = None
           /\ pc = "eraseAll" => Requested = {<<k, None>> : k \in Keys}
           /\ pc = "format" => Requested = {<<k, None>> : k \in AllKeys}
           /\ pc \in {"off", "load", "last", "recover", "loaded", "idle"} =>
                op = NoOp /\ Requested = {}
<1>1. ASSUME pc \in {"write", "replace"} PROVE op # NoOp
  <2>1. op.value \in Values \cup {1} /\ None \notin Values /\ None # 1
    BY <1>1, TypeFacts DEF Good, DataInv, Writing, None
  <2>. QED  BY <2>1 DEF NoOp
<1>2. ASSUME pc \in {"erase", "erased"} PROVE op # NoOp /\ op.value = None
  <2>1. op.key \in Keys /\ op.value = None
    BY <1>2 DEF Good, DataInv, Erasing
  <2>2. Namespace \notin Keys
    BY KeyKinds DEF Keys, Namespace
  <2>. QED  BY <2>1, <2>2 DEF NoOp
<1>3. pc \in {"off", "load", "last", "recover", "loaded", "idle", "eraseAll", "format"} =>
        op = NoOp
  BY DEF Good, DataInv, Erasing
<1>. QED  BY <1>1, <1>2, <1>3 DEF Requested

(* Steps between which the caller sees no difference.                      *)
LEMMA StepQuiet ==
    ASSUME OneTypeEach, Good, Good',
           \/ Power \/ LoadHalfWritten \/ LoadReplaced \/ LoadPages \/ LoadLast
           \/ RecoverDiscard \/ RecoverActivate \/ RecoverNothing
           \/ InitializePage \/ WriteItem \/ CopyItem \/ MarkFull \/ TakeFreePage
           \/ FreePage \/ EraseFreed
    PROVE  UNCHANGED Settings!vars
<1>1. \A k \in AllKeys : Stored(k)' = Stored(k)
  <2>1. CASE Power \/ LoadPages \/ RecoverActivate \/ RecoverNothing \/ TakeFreePage
    <3>1. UNCHANGED log
      BY <2>1 DEF Power, LoadPages, RecoverActivate, RecoverNothing, TakeFreePage
    <3>. QED  BY <3>1, UnchangedStored
  <2>2. CASE LoadHalfWritten \/ LoadReplaced \/ LoadLast
    BY <2>2, LoadStored
  <2>3. CASE \/ InitializePage \/ WriteItem \/ CopyItem \/ MarkFull
             \/ FreePage \/ RecoverDiscard \/ EraseFreed
    BY <2>3, PageStored
  <2>. QED  BY <2>1, <2>2, <2>3
<1>2. UNCHANGED <<handle, op>> /\ pc \notin Asking /\ pc' \notin Asking
  BY DEF Power, LoadHalfWritten, LoadReplaced, LoadPages, LoadLast, RecoverDiscard,
         RecoverActivate, RecoverNothing, InitializePage, WriteItem, CopyItem,
         WriteEntry, MarkFull, TakeFreePage, NeedsPage, FreePage, EraseFreed, ram, Asking
<1>3. Requested' = Requested
  BY <1>2 DEF Requested, Asking
<1>. QED  BY <1>1, <1>2, <1>3 DEF Settings!vars

(* Steps that change a value the running call has asked to change.         *)
LEMMA StepChanges ==
    ASSUME OneTypeEach, Good, Good',
           MarkWritten \/ EraseItem \/ EraseNext \/ FormatSector
    PROVE  Settings!Change
<1>1. UNCHANGED <<handle, op>>
  BY DEF MarkWritten, EraseItem, EraseNext, FormatSector, ram
<1>2. Requested' = Requested
  <2>1. (pc \notin Asking /\ pc' \notin Asking) \/ pc' = pc
    BY DEF MarkWritten, EraseItem, EraseNext, FormatSector, Asking
  <2>. QED  BY <1>1, <2>1 DEF Requested, Asking
<1>3. \A k \in AllKeys : Stored(k)' # Stored(k) => <<k, Stored(k)'>> \in Requested
  <2>1. CASE MarkWritten
    <3>1. pc = "write" => <<op.key, op.value>> \in Requested
      BY RequestIs
    <3>. QED  BY <2>1, <3>1, WriteStored
  <2>2. CASE EraseItem
    <3>1. <<op.key, None>> \in Requested
      BY <2>2, RequestIs DEF EraseItem
    <3>. QED  BY <2>2, <3>1, EraseStored
  <2>3. CASE EraseNext
    <3>1. Requested = {<<k, None>> : k \in Keys}
      BY <2>3, RequestIs DEF EraseNext
    <3>. QED  BY <2>3, <3>1, EraseStored
  <2>4. CASE FormatSector
    <3>1. Requested = {<<k, None>> : k \in AllKeys}
      BY <2>4, RequestIs DEF FormatSector
    <3>. QED  BY <2>4, <3>1, FormatStored
  <2>. QED  BY <2>1, <2>2, <2>3, <2>4
<1>4. ASSUME NEW k \in AllKeys, Stored(k)' # Stored(k)
      PROVE  handle \/ Settings!Maintains
  <2>1. CASE MarkWritten
    <3>1. pc = "write" /\ op # NoOp /\ Requested = {<<op.key, op.value>>}
      BY <1>4, <2>1, WriteStored, RequestIs
    <3>2. SUFFICES ASSUME ~handle PROVE Settings!Maintains
      OBVIOUS
    <3>3. op.key = Namespace /\ ~old
      BY <3>1, <3>2 DEF Good, Opened
    <3>4. ~Exists(Namespace)
      BY <3>1, <3>3 DEF Good, DataInv, Writing
    <3>5. Stored(Namespace) = None /\ Namespace \in AllKeys
      BY <3>4, StoredIs DEF StoredIsLast, Good, DataInv, AllKeys
    <3>. QED  BY <3>1, <3>3, <3>5 DEF Settings!Maintains
  <2>2. CASE EraseItem \/ EraseNext
    BY <2>2 DEF EraseItem, EraseNext, Good, Opened
  <2>3. CASE FormatSector
    <3>1. pc = "format" /\ Requested = {<<h, None>> : h \in AllKeys}
      BY <2>3, RequestIs DEF FormatSector
    <3>2. ~Exists(Namespace)
      BY <3>1 DEF Good, DataInv, Unopened, Exists, Live
    <3>3. Stored(Namespace) = None /\ Namespace \in AllKeys
      BY <3>2, StoredIs DEF StoredIsLast, Good, DataInv, AllKeys
    <3>4. \A c \in Requested : c[2] = None
      BY <3>1
    <3>. QED  BY <3>3, <3>4 DEF Settings!Maintains
  <2>. QED  BY <2>1, <2>2, <2>3
<1>. QED  BY <1>1, <1>2, <1>3, <1>4 DEF Settings!Change

(* The beginnings of calls.                                                *)
LEMMA StepCalls ==
    ASSUME OneTypeEach, Good, Good',
           \/ BeginFormat \/ (BeginOpen /\ pc' = "write")
           \/ \E u \in Uses, v \in Values : setInt(u[1], u[2], v)
           \/ \E k \in Keys : erase(k)
           \/ eraseAll
    PROVE  Settings!Call \/ UNCHANGED Settings!vars
<1>1. UNCHANGED <<log, handle>> /\ pc \in {"loaded", "idle"}
  BY DEF BeginFormat, BeginOpen, setInt, erase, eraseAll, Call, ram
<1>2. Requested = {}
  BY <1>1, RequestIs
<1>3. \A k : Stored(k)' = Stored(k)
  BY <1>1, UnchangedStored
<1>4. CASE Requested' # {}
  BY <1>1, <1>2, <1>3, <1>4 DEF Settings!Call
<1>5. CASE Requested' = {}
  BY <1>1, <1>2, <1>3, <1>5 DEF Settings!vars
<1>. QED  BY <1>4, <1>5

(* A call that returns true has done all it was asked to.                  *)
LEMMA ReplaceStored ==
    ASSUME OneTypeEach, Good, pc = "replace"
    PROVE  Stored(op.key) = op.value
<1>0. PICK n, m, h : n = Len(log) /\ m = Len(log[n].items) /\ h = op.key
  OBVIOUS
<1>1. ~SomeFreeing /\ At(n, m, h)
  BY <1>0, ReplacedIs DEF Good
<1>2. /\ DOMAIN log = 1 .. n /\ n \in Nat /\ n \in DOMAIN log
      /\ DOMAIN log[n].items = 1 .. m /\ m \in Nat /\ Last(log) = log[n]
  BY <1>0, <1>1, LogTypes DEF Good, PageInv, NvsTypes, At, Last
<1>3. ASSUME NEW q, NEW j, At(q, j, h)
      PROVE  q < n \/ (q = n /\ j <= m)
  BY <1>2, <1>3 DEF At
<1>4. LastAt(n, m, h)
  BY <1>1, <1>3 DEF LastAt
<1>5. Stored(h) = log[n].items[m].value
  BY <1>4, StoredIs DEF StoredIsLast, Good, DataInv
<1>6. Same(log[n].items[m], op)
  BY <1>0, <1>2 DEF Good, DataInv, Replacing, Last
<1>. QED  BY <1>0, <1>5, <1>6 DEF Same

(* The ends of calls that have done what they were asked to.               *)
LEMMA StepReturns ==
    ASSUME OneTypeEach, Good, Good',
           \/ Formatted \/ (BeginOpen /\ pc' # "write") \/ EraseReplaced
           \/ EraseReturn \/ EraseAllReturn
    PROVE  Settings!Succeed
<1>1. Requested' = {} /\ handle' \in {handle, TRUE}
  <2>1. /\ pc' \in {"load", "idle"} /\ handle' \in {handle, TRUE}
    BY DEF Formatted, BeginOpen, EraseReplaced, EraseReturn, EraseAllReturn, Return, ram
  <2>2. op' = NoOp
    BY <2>1 DEF Good, DataInv, Erasing
  <2>. QED  BY <2>1, <2>2 DEF Requested, NoOp
<1>2. \A k : Stored(k)' = Stored(k)
  <2>1. CASE EraseReplaced
    BY <2>1, LoadStored
  <2>2. CASE ~EraseReplaced
    <3>1. UNCHANGED log
      BY <2>2 DEF Formatted, BeginOpen, EraseReturn, EraseAllReturn
    <3>. QED  BY <3>1, UnchangedStored
  <2>. QED  BY <2>1, <2>2
<1>3. \A k : ~Exists(k) => Stored(k) = None
  BY StoredIs DEF StoredIsLast, Good, DataInv
<1>4. \A c \in Requested : c[1] \in AllKeys /\ Stored(c[1]) = c[2]
  <2>1. CASE Formatted
    <3>1. Requested = {<<k, None>> : k \in AllKeys}
      BY <2>1, RequestIs DEF Formatted
    <3>2. \A k : ~Exists(k)
      BY <2>1 DEF Formatted, Exists
    <3>. QED  BY <1>3, <3>1, <3>2
  <2>2. CASE BeginOpen
    <3>1. Requested = {}
      BY <2>2, RequestIs DEF BeginOpen
    <3>. QED  BY <3>1
  <2>3. CASE EraseReplaced
    <3>1. Stored(op.key) = op.value /\ op.key \in AllKeys
      BY <2>3, ReplaceStored DEF EraseReplaced, Good, PageInv, NvsTypes
    <3>2. Requested = {<<op.key, op.value>>}
      BY <2>3, RequestIs DEF EraseReplaced
    <3>. QED  BY <3>1, <3>2
  <2>4. CASE EraseReturn
    <3>1. ~Exists(op.key) /\ op.key \in AllKeys
      BY <2>4 DEF EraseReturn, Good, DataInv, Erasing, PageInv, NvsTypes
    <3>2. Requested = {<<op.key, None>>}
      BY <2>4, RequestIs DEF EraseReturn
    <3>. QED  BY <1>3, <3>1, <3>2
  <2>5. CASE EraseAllReturn
    <3>1. Requested = {<<k, None>> : k \in Keys}
      BY <2>5, RequestIs DEF EraseAllReturn
    <3>2. \A k \in Keys : ~Exists(k)
      <4> SUFFICES ASSUME NEW k \in Keys, NEW p \in DOMAIN log,
                          NEW i \in DOMAIN log[p].items, Holds(p, i, k)
                   PROVE  FALSE
        BY DEF Exists, Live
      <4> DEFINE S == {j \in 1 .. Len(log[p].items) :
                         log[p].items[j].state = "written" /\ log[p].items[j].key \in Keys}
                 T == {q \in 1 .. Len(log) : FirstOwned(log[q]) # 0}
      <4>1. p \in 1 .. Len(log) /\ DOMAIN log[p].items = 1 .. Len(log[p].items)
        BY LogTypes DEF Good, PageInv, NvsTypes
      <4>2. i \in S /\ S \subseteq Nat \ {0}
        BY <4>1 DEF Holds
      <4>3. FirstOwned(log[p]) = IF S # {} THEN Min(S) ELSE 0
        BY DEF FirstOwned, SelectInSeq
      <4>4. FirstOwned(log[p]) # 0
        <5> HIDE DEF S
        <5>. QED  BY <4>2, <4>3, MinIs
      <4>5. p \in T /\ T \subseteq Nat \ {0}
        BY <4>1, <4>4
      <4>6. FirstOwner = IF T # {} THEN Min(T) ELSE 0
        BY DEF FirstOwner, SelectInSeq
      <4>7. FirstOwner # 0
        <5> HIDE DEF T
        <5>. QED  BY <4>5, <4>6, MinIs
      <4>. QED  BY <2>5, <4>7 DEF EraseAllReturn
    <3>. QED  BY <1>3, <3>1, <3>2 DEF AllKeys
  <2>. QED  BY <2>1, <2>2, <2>3, <2>4, <2>5
<1>. QED  BY <1>1, <1>2, <1>4 DEF Settings!Succeed

(* A call that fails, close and the loss of power.                         *)
LEMMA StepLeaves ==
    ASSUME Good, Good', WriteFails \/ Refuse \/ close \/ Crash
    PROVE  Settings!Fail \/ Settings!Leave
<1>1. UNCHANGED log
  BY DEF WriteFails, Refuse, close, Crash
<1>2. \A k : Stored(k)' = Stored(k)
  BY <1>1, UnchangedStored
<1>3. pc' \in {"idle", "off"}
  BY DEF WriteFails, Refuse, close, Crash, Return
<1>4. Requested' = {}
  BY <1>3 DEF Requested, NoOp, Good, DataInv, Erasing
<1>5. handle' = handle \/ handle' = FALSE
  BY DEF WriteFails, Refuse, close, Crash, Return
<1>. QED  BY <1>2, <1>4, <1>5 DEF Settings!Fail, Settings!Leave

(* Every step is one of SettingStore or none.                              *)
LEMMA StepKeepsPromise ==
    ASSUME OneTypeEach, Good, Good', [Next]_vars
    PROVE  [Settings!Next]_(Settings!vars)
<1>1. CASE \/ Power \/ LoadHalfWritten \/ LoadReplaced \/ LoadPages \/ LoadLast
           \/ RecoverDiscard \/ RecoverActivate \/ RecoverNothing
           \/ InitializePage \/ WriteItem \/ CopyItem \/ MarkFull \/ TakeFreePage
           \/ FreePage \/ EraseFreed
  BY <1>1, StepQuiet
<1>2. CASE MarkWritten \/ EraseItem \/ EraseNext \/ FormatSector
  BY <1>2, StepChanges DEF Settings!Next
<1>3. CASE \/ BeginFormat \/ (BeginOpen /\ pc' = "write")
           \/ \E u \in Uses, v \in Values : setInt(u[1], u[2], v)
           \/ \E k \in Keys : erase(k)
           \/ eraseAll
  BY <1>3, StepCalls DEF Settings!Next
<1>4. CASE \/ Formatted \/ (BeginOpen /\ pc' # "write") \/ EraseReplaced
           \/ EraseReturn \/ EraseAllReturn
  BY <1>4, StepReturns DEF Settings!Next
<1>5. CASE WriteFails \/ Refuse \/ close \/ Crash
  BY <1>5, StepLeaves DEF Settings!Next
<1>6. CASE UNCHANGED vars
  <2>1. UNCHANGED <<log, op, pc, handle>>
    BY <1>6 DEF vars, ram
  <2>2. \A k : Stored(k)' = Stored(k)
    BY <2>1, UnchangedStored
  <2>3. Requested' = Requested
    BY <2>1 DEF Requested
  <2>. QED  BY <2>1, <2>2, <2>3 DEF Settings!vars
<1>. QED  BY <1>1, <1>2, <1>3, <1>4, <1>5, <1>6
          DEF Next, Library, Load, Begin, Write, Erase

(* The settings store implements SettingStore, for every number of pages,  *)
(* page size and set of settings: a call changes what it was asked to or   *)
(* nothing, one that returns true has changed it, and no crash, no page    *)
(* that is freed and no recovery changes anything else.                    *)
THEOREM DurableHolds ==
    ASSUME OneTypeEach
    PROVE  Spec => Durable
<1>1. Init => Settings!Init
  <2> SUFFICES ASSUME Init PROVE Settings!Init
    OBVIOUS
  <2>1. \A k : Stored(k) \in Nat
    <3>1. Values \cup {1} \subseteq Nat /\ None \in Nat
      BY NvsAssumption DEF None
    <3>. QED  BY <3>1 DEF Stored
  <2>2. handle = FALSE /\ Requested = {}
    BY DEF Init, Requested, NoOp
  <2>. QED  BY <2>1, <2>2 DEF Settings!Init
<1>2. Good /\ Good' /\ [Next]_vars => [Settings!Next]_(Settings!vars)
  BY StepKeepsPromise
<1>3. Spec => []Good
  BY GoodHolds
<1>. QED  BY <1>1, <1>2, <1>3, PTL DEF Spec, Durable, Settings!Spec
=============================================================================
