------------------------------ MODULE NvsStore -------------------------------
(***************************************************************************)
(* The settings store: ArduinoNvs (libs/ArduinoNvs) on the NVS library     *)
(* (esp-idf/components/nvs_flash), whose log of items is kept in flash     *)
(* pages.  Every action that writes makes one flash write, and the power   *)
(* may go between any two of them.  A write is taken whole or not at all,  *)
(* but for the 32 bytes of an item, which can be there while the page's    *)
(* entry table still calls them empty.  Pages are told apart by their      *)
(* sequence numbers only, so the log is a sequence in that order.          *)
(***************************************************************************)
EXTENDS Naturals, FiniteSets, SequencesExt

CONSTANTS
    PageCount, ENTRY_COUNT,
    Uses,           \* <<key, type>>: the calls of setInt the program makes
    Values

Namespace == 0      \* the key of the item that names the namespace
Keys == {u[1] : u \in Uses}
None == 0           \* what getInt returns for a key that is not there

(* A partition that was used before holds items of other namespaces.       *)
Foreign(i, j) == 100 + (i * ENTRY_COUNT) + j
AllKeys == {Namespace} \cup Keys
           \cup {Foreign(i, j) : i \in 1 .. PageCount, j \in 1 .. ENTRY_COUNT}

GetOrder == <<"u8", "i16", "u16", "i32", "u32", "i64", "u64">>

ASSUME NvsAssumption ==
    /\ PageCount \in Nat \ {0, 1} /\ ENTRY_COUNT \in Nat \ {0}
    /\ Uses \subseteq (1 .. 99) \X Range(GetOrder)
    /\ Values \subseteq Nat \ {None}

VARIABLES
    log,        \* flash: the pages in use, oldest first, with their items
    fresh,      \* mPageList ends with a page not yet initialized
    op,         \* the item that is being written
    old,        \* writeItem found an item that this one replaces
    readEntryIndex, \* the last item copyItems has copied, or 0
    handle,     \* _nvs_handle is open
    pc

ram == <<fresh, op, old, readEntryIndex, handle>>
vars == <<log, ram, pc>>

NoOp == [key |-> Namespace, type |-> "none", value |-> None]

Item(k, t, v) == [key |-> k, type |-> t, value |-> v, state |-> "written"]

UsedBefore(n) ==
    [i \in 1 .. n |->
        [state |-> "full",
         items |-> [j \in 1 .. ENTRY_COUNT |-> Item(Foreign(i, j), "u8", 1)]]]

\* A blank partition, a used one, or a used one that has been truncated.
Init ==
    /\ log \in {UsedBefore(n) : n \in {0, PageCount - 1, PageCount}}
    /\ fresh = FALSE /\ op = NoOp /\ old = FALSE /\ readEntryIndex = 0
    /\ handle = FALSE /\ pc = "off"

-----------------------------------------------------------------------------
(* Page::findItem.  The hash list leads to the first item of the key in    *)
(* the page; if that has another type the search in this page is over.     *)
PageFind(page, k, t) ==
    LET i == SelectInSeq(page.items, LAMBDA e : e.state = "written" /\ e.key = k)
    IN  IF i # 0 /\ (t = "any" \/ page.items[i].type = t) THEN i ELSE 0

\* Storage::findItem: the first page in which it is found, or 0.
FindItem(k, t) == SelectInSeq(log, LAMBDA p : PageFind(p, k, t) # 0)

\* getInt tries one type after the other.
getInt(k) ==
    LET n == SelectInSeq(GetOrder, LAMBDA t : FindItem(k, t) # 0)
    IN  IF ~handle \/ n = 0 THEN None
        ELSE LET p == log[FindItem(k, GetOrder[n])]
             IN  p.items[PageFind(p, k, GetOrder[n])].value

FreePages == PageCount - Len(log) - (IF fresh THEN 1 ELSE 0)

SetState(p, i, s) == log' = [log EXCEPT ![p].items[i].state = s]

-----------------------------------------------------------------------------
(* PageManager::load, and Page::load for the active page.                  *)
Power ==
    /\ pc = "off" /\ pc' = "load"
    /\ UNCHANGED <<log, ram>>

ActivePages == {p \in DOMAIN log : log[p].state = "active"}

HalfWritten ==
    {w \in ActivePages \X (1 .. ENTRY_COUNT) :
        /\ w[2] \in DOMAIN log[w[1]].items
        /\ log[w[1]].items[w[2]].state = "half"}

\* <<p, i, j>>: item i of an active page, and a later one, j, of the same key.
Replaced ==
    {w \in ActivePages \X (1 .. ENTRY_COUNT) \X (1 .. ENTRY_COUNT) :
        LET items == log[w[1]].items
        IN  /\ w[2] < w[3] /\ w[3] <= Len(items)
            /\ items[w[2]].state = "written" /\ items[w[3]].state = "written"
            /\ items[w[2]].key = items[w[3]].key}

LoadHalfWritten ==
    /\ pc = "load"
    /\ \E w \in HalfWritten : SetState(w[1], w[2], "erased")
    /\ UNCHANGED <<ram, pc>>

\* mLoadEntryTable goes through the items in their order, and erases the
\* first one each replaces.
LoadReplaced ==
    /\ pc = "load" /\ HalfWritten = {}
    /\ \E w \in Replaced :
        /\ \A x \in Replaced : w[3] < x[3] \/ (w[3] = x[3] /\ w[2] <= x[2])
        /\ SetState(w[1], w[2], "erased")
    /\ UNCHANGED <<ram, pc>>

LoadPages ==
    /\ pc = "load" /\ HalfWritten = {} /\ Replaced = {}
    /\ pc' = IF log = <<>> THEN "loaded" ELSE "last"
    /\ fresh' = (log = <<>>)
    /\ UNCHANGED <<log, op, old, readEntryIndex, handle>>

(* If the power went before the item that was replaced had been erased,    *)
(* the last item of the last page has a twin in an earlier page.           *)
LastItem == SelectLastInSeq(Last(log).items, LAMBDA e : e.state = "written")

Twin ==
    LET e == Last(log).items[LastItem]
    IN  IF LastItem = 0 THEN 0
        ELSE SelectInSeq(Front(log), LAMBDA p :
                 p.state # "freeing" /\ PageFind(p, e.key, e.type) # 0)

LoadLast ==
    /\ pc = "last" /\ pc' = "recover"
    /\ \/ Twin = 0 /\ UNCHANGED log
       \/ /\ Twin # 0
          /\ LET k == Last(log).items[LastItem].key
             IN  SetState(Twin, PageFind(log[Twin], k, "any"), "erased")
    /\ UNCHANGED ram

Freeing == SelectInSeq(log, LAMBDA p : p.state = "freeing")

\* The half filled copy of a page that was being freed is thrown away.
RecoverDiscard ==
    /\ pc = "recover" /\ Freeing # 0 /\ Last(log).state = "active"
    /\ log' = Front(log)
    /\ UNCHANGED <<ram, pc>>

\* Without a free page activatePage fails, and so does begin.
RecoverActivate ==
    /\ pc = "recover" /\ Freeing # 0 /\ Last(log).state # "active"
    /\ fresh' = (FreePages > 0)
    /\ pc' = IF FreePages > 0 THEN "copy" ELSE "idle"
    /\ UNCHANGED <<log, op, old, readEntryIndex, handle>>

RecoverNothing ==
    /\ pc = "recover" /\ Freeing = 0 /\ pc' = "loaded"
    /\ UNCHANGED <<log, ram>>

-----------------------------------------------------------------------------
(* ArduinoNvs::begin.                                                      *)
\* ESP_ERR_NVS_NO_FREE_PAGES: the partition is erased and loaded again.
BeginFormat ==
    /\ pc = "loaded" /\ FreePages = 0 /\ log # <<>>
    /\ pc' = "format"
    /\ UNCHANGED <<log, ram>>

\* esp_partition_erase_range, a sector at a time; where in the log the
\* sector comes is not known.
FormatSector ==
    /\ pc = "format"
    /\ \E p \in DOMAIN log : log' = RemoveAt(log, p)
    /\ UNCHANGED <<ram, pc>>

Formatted ==
    /\ pc = "format" /\ log = <<>>
    /\ pc' = "load"
    /\ UNCHANGED <<log, ram>>

\* nvs_open, where Storage::createOrOpenNamespace writes the namespace if it
\* is not there yet.
BeginOpen ==
    /\ pc = "loaded" /\ (FreePages > 0 \/ log = <<>>)
    /\ \/ /\ FindItem(Namespace, "u8") # 0
          /\ handle' = TRUE /\ pc' = "idle" /\ UNCHANGED <<op, old>>
       \/ /\ FindItem(Namespace, "u8") = 0
          /\ op' = [key |-> Namespace, type |-> "u8", value |-> 1]
          /\ old' = FALSE /\ pc' = "write" /\ UNCHANGED handle
    /\ UNCHANGED <<log, fresh, readEntryIndex>>

-----------------------------------------------------------------------------
(* Storage::writeItem, PageManager::requestNewPage and Page::copyItems.    *)
(* A call that nvs_find_ns_handle turns away is refused.                   *)
Call(k, t, v, replaces, next) ==
    /\ pc = "idle"
    /\ op' = [key |-> k, type |-> t, value |-> v]
    /\ old' = replaces /\ pc' = next
    /\ UNCHANGED <<log, fresh, readEntryIndex, handle>>

\* Mutant: the handle is not looked up.
setInt_unchecked(k, t, v) == Call(k, t, v, FindItem(k, t) # 0, "write")

setInt(k, t, v) ==
    Call(k, t, v, handle /\ FindItem(k, t) # 0,
         IF handle THEN "write" ELSE "refuse")

WrittenAt(p) == {i \in DOMAIN log[p].items : log[p].items[i].state = "written"}

\* The next item the page that is being freed has to hand on, or 0.
NextToCopy ==
    SelectInSubSeq(log[Freeing].items, readEntryIndex + 1,
                   Len(log[Freeing].items), LAMBDA e : e.state = "written")

HasRoom ==
    fresh \/ (Last(log).state = "active" /\ Len(Last(log).items) < ENTRY_COUNT)

InitializePage ==
    /\ fresh /\ fresh' = FALSE
    /\ pc = "write" \/ (pc = "copy" /\ NextToCopy # 0)
    /\ log' = Append(log, [state |-> "active", items |-> <<>>])
    /\ UNCHANGED <<op, old, readEntryIndex, handle, pc>>

WriteEntry(item) ==
    /\ log' = [log EXCEPT ![Len(log)].items = Append(@, [item EXCEPT !.state = "half"])]
    /\ UNCHANGED <<fresh, op, old, handle, pc>>

NoneHalf == \A i \in DOMAIN Last(log).items : Last(log).items[i].state # "half"

WriteItem ==
    /\ pc = "write" /\ ~fresh /\ HasRoom /\ NoneHalf
    /\ WriteEntry(Item(op.key, op.type, op.value))
    /\ UNCHANGED readEntryIndex

CopyItem ==
    /\ pc = "copy" /\ ~fresh /\ NoneHalf /\ NextToCopy # 0
    /\ WriteEntry(log[Freeing].items[NextToCopy])
    /\ readEntryIndex' = NextToCopy

\* The entry table is altered, and the item counts.
MarkWritten ==
    /\ pc \in {"write", "copy"} /\ ~fresh /\ ~NoneHalf
    /\ SetState(Len(log), Len(Last(log).items), "written")
    /\ pc' = IF pc = "write" THEN "replace" ELSE pc
    /\ UNCHANGED ram

Return(h) ==
    /\ pc' = "idle" /\ op' = NoOp /\ old' = FALSE /\ handle' = h
    /\ UNCHANGED readEntryIndex

\* Mutant: the item that was replaced is left alone.
EraseReplaced_not ==
    /\ pc = "replace"
    /\ Return(TRUE) /\ UNCHANGED <<log, fresh>>

\* The item that was replaced is looked up again: its page may be gone.
EraseReplaced ==
    /\ pc = "replace"
    /\ \/ ~old /\ UNCHANGED log
       \/ /\ old
          /\ LET p == FindItem(op.key, op.type)
             IN  SetState(p, PageFind(log[p], op.key, op.type), "erased")
    /\ Return(TRUE) /\ UNCHANGED fresh

MarkFull ==
    /\ pc = "write" /\ ~HasRoom /\ NoneHalf /\ Last(log).state = "active"
    /\ log' = [log EXCEPT ![Len(log)].state = "full"]
    /\ UNCHANGED <<ram, pc>>

Unused(p) == ENTRY_COUNT - Cardinality(WrittenAt(p))

\* The first of the pages with most entries that can be had back.
MostUnused ==
    SelectInSeq([p \in DOMAIN log |-> p],
                LAMBDA p : \A q \in DOMAIN log : Unused(q) <= Unused(p))

NeedsPage == pc = "write" /\ ~HasRoom /\ Last(log).state # "active"

\* Mutant: the last free page is taken like any other.
TakeFreePage_last ==
    /\ NeedsPage /\ FreePages >= 1
    /\ fresh' = TRUE
    /\ UNCHANGED <<log, op, old, readEntryIndex, handle, pc>>

TakeFreePage ==
    /\ NeedsPage /\ FreePages >= 2
    /\ fresh' = TRUE
    /\ UNCHANGED <<log, op, old, readEntryIndex, handle, pc>>

\* The last free page takes what another page still holds.
FreePage ==
    /\ NeedsPage /\ FreePages = 1 /\ Unused(MostUnused) > 0
    /\ log' = [log EXCEPT ![MostUnused].state = "freeing"]
    /\ fresh' = TRUE /\ pc' = "copy"
    /\ UNCHANGED <<op, old, readEntryIndex, handle>>

\* Mutant: the page is erased before all of it was copied.
EraseFreed_early ==
    /\ pc = "copy" /\ (fresh \/ NoneHalf)
    /\ log' = RemoveAt(log, Freeing) /\ readEntryIndex' = 0
    /\ pc' = IF op = NoOp THEN "loaded" ELSE "write"
    /\ UNCHANGED <<fresh, op, old, handle>>

EraseFreed ==
    /\ pc = "copy" /\ NextToCopy = 0 /\ (fresh \/ NoneHalf)
    /\ log' = RemoveAt(log, Freeing) /\ readEntryIndex' = 0
    /\ pc' = IF op = NoOp THEN "loaded" ELSE "write"
    /\ UNCHANGED <<fresh, op, old, handle>>

\* ESP_ERR_NVS_NOT_ENOUGH_SPACE: setInt, or begin, returns false.
WriteFails ==
    /\ NeedsPage /\ FreePages = 1 /\ Unused(MostUnused) = 0
    /\ Return(handle) /\ UNCHANGED <<log, fresh>>

-----------------------------------------------------------------------------
(* nvs_erase_key takes an item of any type, nvs_erase_all every item of    *)
(* the namespace, one after the other.                                     *)
erase(k) ==
    Call(k, "none", None, FALSE,
         IF handle /\ FindItem(k, "any") # 0 THEN "erase" ELSE "refuse")

eraseAll ==
    /\ pc = "idle" /\ pc' = IF handle THEN "eraseAll" ELSE "refuse"
    /\ UNCHANGED <<log, ram>>

\* ESP_ERR_NVS_INVALID_HANDLE, or ESP_ERR_NVS_NOT_FOUND for a key to erase.
Refuse ==
    /\ pc = "refuse" /\ Return(handle) /\ UNCHANGED <<log, fresh>>

EraseItem ==
    /\ pc = "erase" /\ pc' = "erased"
    /\ LET p == FindItem(op.key, "any")
       IN  SetState(p, PageFind(log[p], op.key, "any"), "erased")
    /\ UNCHANGED ram

EraseReturn ==
    /\ pc = "erased" /\ Return(handle) /\ UNCHANGED <<log, fresh>>

FirstOwned(page) ==
    SelectInSeq(page.items, LAMBDA e : e.state = "written" /\ e.key \in Keys)

FirstOwner == SelectInSeq(log, LAMBDA p : FirstOwned(p) # 0)

\* Mutant: the item is found, and not erased.
EraseNext_kept ==
    /\ pc = "eraseAll" /\ FirstOwner # 0
    /\ UNCHANGED <<log, ram, pc>>

EraseNext ==
    /\ pc = "eraseAll" /\ FirstOwner # 0
    /\ SetState(FirstOwner, FirstOwned(log[FirstOwner]), "erased")
    /\ UNCHANGED <<ram, pc>>

EraseAllReturn ==
    /\ pc = "eraseAll" /\ FirstOwner = 0
    /\ Return(handle) /\ UNCHANGED <<log, fresh>>

close ==
    /\ pc = "idle" /\ handle /\ handle' = FALSE
    /\ UNCHANGED <<log, fresh, op, old, readEntryIndex, pc>>

Crash ==
    /\ pc # "off" /\ pc' = "off"
    /\ fresh' = FALSE /\ op' = NoOp /\ old' = FALSE /\ readEntryIndex' = 0
    /\ handle' = FALSE /\ UNCHANGED log

Load == Power \/ LoadHalfWritten \/ LoadReplaced \/ LoadPages \/ LoadLast
        \/ RecoverDiscard \/ RecoverActivate \/ RecoverNothing

Begin == BeginFormat \/ FormatSector \/ Formatted \/ BeginOpen

Write == InitializePage \/ WriteItem \/ CopyItem \/ MarkWritten
         \/ EraseReplaced \/ MarkFull \/ TakeFreePage \/ FreePage \/ EraseFreed
         \/ WriteFails

Erase == EraseItem \/ EraseReturn \/ EraseNext \/ EraseAllReturn \/ Refuse

Library == Load \/ Begin \/ Write \/ Erase

Next ==
    \/ Library
    \/ \E u \in Uses, v \in Values : setInt(u[1], u[2], v)
    \/ \E k \in Keys : erase(k)
    \/ eraseAll \/ close \/ Crash

\* A call that has been made goes on; nobody has to make one.
Spec == Init /\ [][Next]_vars /\ WF_vars(Library)

-----------------------------------------------------------------------------
Holds(p, i, k) == log[p].items[i].key = k /\ log[p].items[i].state = "written"

ItemsOf(k) ==
    {w \in (DOMAIN log) \X (1 .. ENTRY_COUNT) :
        w[2] \in DOMAIN log[w[1]].items /\ Holds(w[1], w[2], k)}

(* Between two calls a key has one item at most (README.rst of nvs_flash:  *)
(* "Keys are required to be unique"), whatever crashes came before.        *)
KeysUnique ==
    pc = "idle" => \A k \in AllKeys : Cardinality(ItemsOf(k)) <= 1

(* No page holds more than fits, one at most takes items (README.rst), and *)
(* between calls there is always a free one: without it the next begin     *)
(* would erase everything.                                                 *)
PagesSound ==
    /\ \A p \in DOMAIN log : Len(log[p].items) <= ENTRY_COUNT
    /\ Cardinality(ActivePages) <= 1
    /\ pc = "idle" /\ handle => FreePages >= 1 /\ Freeing = 0

(* The value of a key in flash: that of its last item, where a copy of a   *)
(* page that was not freed to the end does not count.                      *)
Counts(p) ==
    \/ log[p].state # "active"
    \/ \A q \in DOMAIN log : log[q].state # "freeing"

IsStored(k, v) ==
    \E p \in DOMAIN log : Counts(p) /\ \E i \in DOMAIN log[p].items :
        /\ Holds(p, i, k) /\ log[p].items[i].value = v
        /\ \A j \in i + 1 .. Len(log[p].items) : ~Holds(p, j, k)
        /\ \A q \in p + 1 .. Len(log) : 
              Counts(q) => \A j \in DOMAIN log[q].items : ~Holds(q, j, k)

Stored(k) ==
    IF \E v \in Values \cup {1} : IsStored(k, v)
    THEN CHOOSE v \in Values \cup {1} : IsStored(k, v) ELSE None

(* getInt returns the value that was set last and not an older one.        *)
GetsLast == pc = "idle" /\ handle => \A k \in Keys : getInt(k) = Stored(k)

(* After the power has come on, begin comes to its end, and so does every  *)
(* call, if the power stays.                                               *)
CallsEnd == <>[][~Crash]_vars => []<>(pc \in {"idle", "off"})

Requested ==
    IF op # NoOp THEN {<<op.key, op.value>>}
    ELSE IF pc \in {"eraseAll", "refuse"} THEN {<<k, None>> : k \in Keys}
    ELSE IF pc = "format" THEN {<<k, None>> : k \in AllKeys}
    ELSE {}

Settings == INSTANCE SettingStore WITH
    store <- [k \in AllKeys |-> Stored(k)], open <- handle, req <- Requested

(* The store keeps the promise of SettingStore: a call changes what it was *)
(* asked to or nothing, however often and wherever the power goes.         *)
Durable == Settings!Spec
=============================================================================
