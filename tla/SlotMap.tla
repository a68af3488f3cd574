------------------------------- MODULE SlotMap -------------------------------
(***************************************************************************)
(* Which LED an IDENT command lights: enclosure/locate.py translates a     *)
(* sysfs slot number into the element index that sg_ses takes, through two *)
(* pages of the enclosure, the type descriptors and the additional element *)
(* status (AES) that enclosure/ses_parser.py parses; services/state.py     *)
(* joins the drives' SAS addresses to the bays through the same pages.     *)
(*                                                                         *)
(* A page is a sequence of lines, of the forms the parser tells apart.     *)
(* sg_ses fills the blocks of the AES page one after the other from the    *)
(* firmware's list of descriptors, whether or not each is of that block.   *)
(***************************************************************************)
EXTENDS Integers, FiniteSets, Sequences, SequencesExt

CONSTANTS
  Shelves,     \* the type descriptor lists: sequences of [type, count]
  SlotNumbers, \* device slot numbers
  SparseLists, \* whether firmware may leave out the descriptors of empty bays
  Nothing      \* no number, no index, no map

ASSUME SlotMapAssumption ==
  /\ SlotNumbers \subseteq Nat /\ SparseLists \subseteq BOOLEAN /\ Nothing \notin Nat
  /\ \A c \in Shelves :
       c \in Seq([type : {"array", "device", "electronics", "expander"}, count : Nat])

VARIABLES
  shelf,     \* the enclosure and its firmware
  type_index,  \* _type_index: [index, count], of the type descriptor of the bays
  slot_element, \* _slot_to_element
  read,      \* how the page of that map came: "whole", "short" or "garbled"
  addresses, \* _sas_by_slot
  commanded  \* the last slot asked for and the element set_ident() addressed

slotmap_vars == <<shelf, type_index, slot_element, read, addresses, commanded>>

BAY_ELEMENT_TYPES == {"array", "device"}

\* Descriptors of these types are optional in the firmware's list.
Optional == {"electronics"}

Elements(c) == UNION {{<<t, e>> : e \in 1..c[t].count} : t \in DOMAIN c}
BaysOf(c)   == {x \in Elements(c) : c[x[1]].type \in BAY_ELEMENT_TYPES}

\* A slot number is what a bay says of itself; one without a drive may say nothing, and
\* neither does the firmware that leaves its descriptor out.
ShelvesOf(c) ==
  [types : {c},
   number : [BaysOf(c) -> SlotNumbers \cup {Nothing}],
   indexed : BOOLEAN,                             \* eip
   overall : {0, 1},                              \* eiioe
   omitted : SUBSET {t \in DOMAIN c : c[t].type \in Optional},
   noticed : BOOLEAN,                             \* sg_ses sees what is omitted
   sparse : SparseLists]                          \* no descriptor for an empty bay

\* The drive in every other bay is one without a SAS address.
Address(x) == IF x[2] % 2 = 0 THEN x ELSE Nothing

-----------------------------------------------------------------------------
(***************************************************************************)
(* The pages, as sg_ses prints them.                                       *)
(***************************************************************************)

CountBefore(c, t) == Cardinality({x \in Elements(c) : x[1] < t})

\* The printed index counts the elements of all types, and under one convention their
\* overall elements too.
GlobalIndex(s, x) ==
  IF s.indexed THEN CountBefore(s.types, x[1]) + x[2] - 1 + s.overall * x[1] ELSE Nothing

SlotOf(s, x) == IF x \in BaysOf(s.types) THEN s.number[x] ELSE Nothing

DescriptorLines(s, x) ==
  <<[is |-> "element", index |-> GlobalIndex(s, x)]>>
    \o (IF SlotOf(s, x) = Nothing THEN <<>>
        ELSE <<[is |-> "slot", slot |-> SlotOf(s, x)]>>
               \o (IF Address(x) = Nothing THEN <<>>
                   ELSE <<[is |-> "address", address |-> Address(x)]>>))

\* The firmware's list, type by type.
Sent(s, x) ==
  /\ x[1] \notin s.omitted
  /\ ~(s.sparse /\ x \in BaysOf(s.types) /\ s.number[x] = Nothing)

Emitted(s) ==
  LET Of(t) == FlattenSeq([e \in 1..s.types[t].count |->
                             IF Sent(s, <<t, e>>) THEN <<<<t, e>>>> ELSE <<>>])
  IN FlattenSeq([t \in DOMAIN s.types |-> Of(t)])

\* The print loop: the next `count` descriptors go under each type's header.
Block(s, page, t) ==
  LET n == Min({s.types[t].count, Len(page.left)})
  IN [left  |-> SubSeq(page.left, n + 1, Len(page.left)),
      lines |-> page.lines
        \o <<[is |-> "type", type |-> s.types[t].type, ti |-> t]>>
        \o FlattenSeq([k \in 1..n |-> DescriptorLines(s, page.left[k])])]

AesPage(s) ==
  LET Printed[t \in 0..Len(s.types)] ==
        IF t = 0 THEN [left |-> Emitted(s), lines |-> <<>>]
        ELSE IF s.noticed /\ t \in s.omitted THEN Printed[t - 1]
        ELSE Block(s, Printed[t - 1], t)
  IN Printed[Len(s.types)].lines

\* One-off faults of a read: a header of a type or an element that no pattern matches, or
\* output that ends early.
Garbled(page, k) ==
  [page EXCEPT ![k] = IF @.is = "type" THEN [is |-> "bad type"]
                      ELSE IF @.is = "element" THEN [is |-> "bad element"] ELSE @]

\* What a read may return.
AesReads(s) ==
  LET page == AesPage(s)
  IN {[lines |-> page, read |-> "whole"]}
       \cup {[lines |-> SubSeq(page, 1, k), read |-> "short"] : k \in 0..(Len(page) - 1)}
       \cup {[lines |-> Garbled(page, k), read |-> "garbled"] : k \in DOMAIN page}

\* A configuration page may end early as well.
Configurations(s) == {SubSeq(s.types, 1, n) : n \in 1..Len(s.types)}

-----------------------------------------------------------------------------
(***************************************************************************)
(* ses_parser.py.                                                          *)
(***************************************************************************)

\* array_slot_type_index()
array_slot_type_index(c) ==
  LET Of(type) == {t \in DOMAIN c : c[t].type = type /\ c[t].count > 0}
  IN IF Of("array") # {} THEN Min(Of("array"))
     ELSE IF Of("device") # {} THEN Min(Of("device")) ELSE Nothing

NoEntry == [index |-> Nothing, slot |-> Nothing, address |-> Nothing]

\* An element header of no known form.
BadElement_EntryStays(state) == [state EXCEPT !.blocks[Len(state.blocks)].malformed = TRUE]

BadElement(state) ==
  [state EXCEPT !.blocks[Len(state.blocks)].malformed = TRUE, !.in_entry = FALSE]

NewBlock(line) ==
  [type |-> line.type, ti |-> line.ti, entries |-> <<>>, malformed |-> FALSE]

\* One line; in_block and in_entry say whether current_block and current_entry, the last
\* ones, are set.
ParseLine(state, line) ==
  LET last  == Len(state.blocks)
      entry == Len(state.blocks[last].entries)
  IN CASE line.is = "type" -> [blocks |-> Append(state.blocks, NewBlock(line)),
                               in_block |-> TRUE, in_entry |-> FALSE]
       [] line.is = "bad type" -> [state EXCEPT !.in_block = FALSE, !.in_entry = FALSE]
       [] line.is = "element" /\ state.in_block ->
            [state EXCEPT !.in_entry = TRUE, !.blocks[last].entries =
               Append(@, [NoEntry EXCEPT !.index = line.index])]
       [] line.is = "bad element" /\ state.in_block -> BadElement(state)
       [] line.is = "slot" /\ state.in_entry ->
            [state EXCEPT !.blocks[last].entries[entry].slot =
               IF @ = Nothing THEN line.slot ELSE @]
       [] line.is = "address" /\ state.in_entry ->
            [state EXCEPT !.blocks[last].entries[entry].address =
               IF @ = Nothing THEN line.address ELSE @]
       [] OTHER -> state

NoBlocks == [blocks |-> <<>>, in_block |-> FALSE, in_entry |-> FALSE]

parse_additional_element_status(page) ==
  LET Parsed[k \in 0..Len(page)] ==
        IF k = 0 THEN NoBlocks ELSE ParseLine(Parsed[k - 1], page[k])
  IN Parsed[Len(page)].blocks

\* A bay's descriptor under the header of something else: positions are off.
Misattributed(blocks) ==
  \E k \in DOMAIN blocks :
    /\ blocks[k].type \notin BAY_ELEMENT_TYPES
    /\ \E p \in DOMAIN blocks[k].entries : blocks[k].entries[p].slot # Nothing

\* The entries that claim a slot number: block and position.
Claims(blocks, n) ==
  UNION {{<<k, p>> : p \in {q \in DOMAIN blocks[k].entries : blocks[k].entries[q].slot = n}}
         : k \in DOMAIN blocks}

\* The first block of the type descriptor in use.
ChosenBlock(blocks, ti) ==
  LET Same == {k \in DOMAIN blocks : blocks[k].ti = ti}
  IN IF Same = {} THEN 0 ELSE Min(Same)

-----------------------------------------------------------------------------
(***************************************************************************)
(* locate.py: SesLocateWriter.                                             *)
(***************************************************************************)

\* printed index minus position, of the entries that have an index
Offsets(block) ==
  {block.entries[p].index - p :
     p \in {q \in DOMAIN block.entries : block.entries[q].index # Nothing}}

Trusted_NoCount(block, expected_count) ==
  Cardinality(Offsets(block)) <= 1 /\ ~block.malformed

Trusted(block, expected_count) ==
  /\ Cardinality(Offsets(block)) <= 1
  /\ ~block.malformed
  /\ Len(block.entries) = expected_count

\* Slots that some block claims, other than a single claim of a foreign block.
Addressable(blocks, ti) ==
  {n \in SlotNumbers :
     \/ Cardinality(Claims(blocks, n)) > 1
     \/ \E c \in Claims(blocks, n) : blocks[c[1]].ti = ti}

\* _build_slot_map(); element indexes count from 1 here.
BuildSlotMap(blocks, ti, expected_count) ==
  LET chosen == ChosenBlock(blocks, ti)
      Only(n) == CHOOSE c \in Claims(blocks, n) : TRUE
      Unambiguous(n) ==
        /\ Cardinality(Claims(blocks, n)) = 1
        /\ Only(n)[1] = chosen /\ Trusted(blocks[chosen], expected_count)
  IN IF Misattributed(blocks) THEN <<>>
     ELSE [n \in Addressable(blocks, ti) |-> IF Unambiguous(n) THEN Only(n)[2] ELSE Nothing]

\* _array_type_index(): read once, and again only if the page has no bays.
ReadConfiguration ==
  /\ type_index = Nothing
  /\ \E c \in Configurations(shelf) :
       LET index == array_slot_type_index(c)
       IN type_index' = IF index = Nothing THEN Nothing
                        ELSE [index |-> index, count |-> c[index].count]
  /\ UNCHANGED <<shelf, slot_element, read, addresses, commanded>>

\* _slot_element_map(): kept if it addresses some bay, read again otherwise.
Kept(map) == \E n \in DOMAIN map : map[n] # Nothing

ReadSlotMap ==
  /\ type_index # Nothing /\ slot_element = Nothing
  /\ \E page \in AesReads(shelf) :
       LET map == BuildSlotMap(parse_additional_element_status(page.lines),
                               type_index.index, type_index.count)
       IN /\ Kept(map)
          /\ slot_element' = map /\ read' = page.read
  /\ UNCHANGED <<shelf, type_index, addresses, commanded>>

\* write(): set_ident() addresses an element, or the request is refused.
SesWrite(n) ==
  /\ slot_element # Nothing
  /\ n \in DOMAIN slot_element /\ slot_element[n] # Nothing
  /\ commanded' = [slot |-> n, element |-> <<type_index.index, slot_element[n]>>]
  /\ UNCHANGED <<shelf, type_index, slot_element, read, addresses>>

\* The caches are the process's.
WriterRestarts ==
  /\ type_index' = Nothing /\ slot_element' = Nothing /\ read' = Nothing
  /\ addresses' = <<>> /\ commanded' = Nothing
  /\ UNCHANGED shelf

-----------------------------------------------------------------------------
(***************************************************************************)
(* state.py: the addresses that poll_chassis() keeps for the bays.         *)
(***************************************************************************)

\* _slot_sas_addresses()
SlotSasAddresses(c, blocks) ==
  LET ti == array_slot_type_index(c)
      Entry(n) == LET claim == CHOOSE x \in Claims(blocks, n) : TRUE
                  IN blocks[claim[1]].entries[claim[2]]
      Claimed(n) ==
        /\ Cardinality(Claims(blocks, n)) = 1
        /\ \A x \in Claims(blocks, n) : x[1] = ChosenBlock(blocks, ti)
        /\ Entry(n).address # Nothing
  IN IF ti = Nothing \/ Misattributed(blocks) THEN <<>>
     ELSE [n \in {m \in SlotNumbers : Claimed(m)} |-> Entry(n).address]

\* A poll whose reads fail leaves no addresses.
PollAddresses ==
  /\ \/ addresses' = <<>>
     \/ \E c \in Configurations(shelf), page \in AesReads(shelf) :
          addresses' = SlotSasAddresses(c, parse_additional_element_status(page.lines))
  /\ UNCHANGED <<shelf, type_index, slot_element, read, commanded>>

-----------------------------------------------------------------------------

slotmap_Init ==
  /\ \E c \in Shelves : shelf \in ShelvesOf(c)
  /\ type_index = Nothing /\ slot_element = Nothing /\ read = Nothing
  /\ addresses = <<>> /\ commanded = Nothing

slotmap_Next ==
  \/ ReadConfiguration \/ ReadSlotMap \/ WriterRestarts \/ PollAddresses
  \/ \E n \in SlotNumbers : SesWrite(n)

slotmap_Spec == slotmap_Init /\ [][slotmap_Next]_slotmap_vars

-----------------------------------------------------------------------------
(***************************************************************************)
(* Properties.                                                             *)
(***************************************************************************)

\* Types of the caches, the served addresses and the last command.
SlotMapTypeOK ==
  /\ \E c \in Shelves : shelf \in ShelvesOf(c)
  /\ type_index = Nothing \/ type_index \in [index : DOMAIN shelf.types, count : Nat \ {0}]
  /\ \/ slot_element = Nothing /\ read = Nothing
     \/ /\ type_index # Nothing /\ read \in {"whole", "short", "garbled"}
        /\ DOMAIN slot_element \subseteq SlotNumbers
        /\ \A n \in DOMAIN slot_element :
             slot_element[n] \in 1..type_index.count \cup {Nothing}
  /\ DOMAIN addresses \subseteq SlotNumbers
  /\ commanded = Nothing \/ /\ commanded.slot \in SlotNumbers
                            /\ commanded.element \in Elements(shelf.types)

\* What the command lit is the bay of that number.
RightBay == commanded # Nothing => SlotOf(shelf, commanded.element) = commanded.slot

\* NeverTheWrongBay: an IDENT command lights the bay whose number was asked for or nothing
\* (locate.py:124-126: "refuses outright when the mapping is absent or ambiguous, because
\* lighting the WRONG bay's \"pull this disk\" LED is the worst failure").
NeverTheWrongBay == RightBay

Silent == \E x \in BaysOf(shelf.types) : shelf.number[x] = Nothing

Lacking == (shelf.omitted # {} /\ ~shelf.noticed) \/ (shelf.sparse /\ Silent)

TwoBayTypes == \E x, y \in BaysOf(shelf.types) : x[1] # y[1]

\* WrongBayNeedsSilentShift: the wrong bay is lit only if the firmware left descriptors out
\* without sg_ses noticing, what follows the bays made up the number, no printed index
\* shows the seam (two bay types apart), and the bay printed under a foreign header said no
\* number, or the read lost that line; a slot that two bays claim is lit only after a read
\* that lost one claim (locate.py:252-284).
WrongBayNeedsSilentShift ==
  /\ ~RightBay => /\ Lacking
                  /\ Silent \/ read = "garbled"
                  /\ type_index.index < Len(shelf.types)
                  /\ shelf.indexed /\ shelf.overall = 1 => TwoBayTypes
  /\ commanded # Nothing /\ RightBay /\ ~Lacking =>
       \/ read # "whole"
       \/ \A x \in BaysOf(shelf.types) :
            shelf.number[x] = commanded.slot => x = commanded.element

\* AddressIsTheSlots: the SAS address served for a slot is that of a drive in a bay of that
\* number, whatever the page lost, omitted or garbled.
AddressIsTheSlots ==
  \A n \in DOMAIN addresses :
    /\ addresses[n] \in BaysOf(shelf.types)
    /\ SlotOf(shelf, addresses[n]) = n

=============================================================================
