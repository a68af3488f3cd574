--------------------------- MODULE BayViewProofs ---------------------------
(***************************************************************************)
(* Theorems about BayView, for any number of slots, overlapping polls and  *)
(* reading threads.                                                        *)
(***************************************************************************)
EXTENDS BayView, TLAPS

(***************************************************************************)
(* The inductive invariant.                                                *)
(***************************************************************************)

\* The event loop is in the middle of at most one thing.
LoopInv ==
  /\ \A p, q \in Pollers : poll[p] = "storing" /\ poll[q] = "storing" => p = q
  /\ \A p \in Pollers, s \in Slots : poll[p] = "storing" => ident[s] # "half"

\* An LED the application lit is on record, or about to be ...
Owned(s) == s \in record \/ (ident[s] = "written" /\ wanted[s])

\* ... or was read so before the write that has cleared it since.
Backed(s, reading, superseded) ==
  reading = App => Owned(s) \/ (superseded /\ stamp[s] = "off")

\* The LEDs themselves, and the order in which publication proceeds.
LedInv ==
  \A s \in Slots :
    /\ led[s] = App => Owned(s)
    /\ ident[s] \in {"written", "half"} /\ ~wanted[s] => led[s] # App
    /\ stamp[s] = "on" => s \in record \cup disowned
    /\ ident[s] = "half" /\ wanted[s] => s \in record
    /\ ident[s] = "half" /\ ~wanted[s] =>
         /\ stamp[s] = "off" /\ s \in cachedAge
         /\ \A p \in Pollers : poll[p] # "idle" => s \in since[p]

\* What polls have read.
SampleInv ==
  \A p \in Pollers, s \in Slots :
    poll[p] # "idle" /\ s \notin unread[p] => Backed(s, sample[p][s], s \in since[p])

\* What the cache holds.
CacheInv ==
  /\ \A p \in Pollers : poll[p] = "storing" => cached = sample[p]
  /\ (\A p \in Pollers : poll[p] # "storing") =>
       \A s \in Slots : Backed(s, cached[s], s \in cachedAge)

\* What a reader that nothing has overtaken knows.
ReaderInv ==
  \A r \in Readers :
    reader[r] # "idle" =>
      /\ \A s \in Slots : ident[s] # "idle" => s \in overlap[r]
      /\ Poll \notin overlap[r] => \A s \in Slots \ overlap[r] :
           /\ Backed(s, seen[r][s], s \in cachedAge)
           /\ reader[r] = "dated" /\ bay[r] = s => Backed(s, seen[r][s], s \in age[r])
           /\ reader[r] = "looked" /\ bay[r] = s /\ locate[r] /\ seen[r][s] = App
                => s \in record

IInv ==
  /\ TypeOK
  /\ LoopInv
  /\ LedInv
  /\ SampleInv
  /\ CacheInv
  /\ ReaderInv

-----------------------------------------------------------------------------
(***************************************************************************)
(* Every step preserves the invariant: one lemma per action.               *)
(***************************************************************************)

\* identify() is called.
LEMMA IdentifyStep ==
  ASSUME IInv, NEW s \in Slots, NEW on \in BOOLEAN, Identify(s, on)
  PROVE  IInv'
<1>. USE ConstantsAssumption DEF IInv, Identify, Overtakes, LoopFree, led_vars, poll_vars, cache_vars
<1>1. TypeOK'
  BY DEF TypeOK, Lamp
<1>2. LoopInv'
  BY DEF TypeOK, LoopInv
<1>3. LedInv'
  BY DEF TypeOK, LoopInv, LedInv, Owned
<1>4. SampleInv'
  BY DEF TypeOK, LedInv, SampleInv, Backed, Owned
<1>5. CacheInv'
  BY DEF TypeOK, LoopInv, LedInv, SampleInv, CacheInv, Backed, Owned
<1>6. ReaderInv'
  BY DEF TypeOK, LoopInv, LedInv, CacheInv, ReaderInv, Backed, Owned
<1>. QED
  BY <1>1, <1>2, <1>3, <1>4, <1>5, <1>6

\* A write is verified.
LEMMA WriteStep ==
  ASSUME IInv, NEW s \in Slots, WriteVerified(s)
  PROVE  IInv'
<1>. USE ConstantsAssumption DEF IInv, WriteVerified, poll_vars, cache_vars, read_vars
<1>1. TypeOK'
  BY DEF TypeOK, Lamp
<1>2. LoopInv'
  BY DEF TypeOK, LoopInv
<1>3. LedInv'
  BY DEF TypeOK, LoopInv, LedInv, Owned
<1>4. SampleInv'
  BY DEF TypeOK, LedInv, SampleInv, Backed, Owned
<1>5. CacheInv'
  BY DEF TypeOK, LoopInv, LedInv, SampleInv, CacheInv, Backed, Owned
<1>6. ReaderInv'
  BY DEF TypeOK, LoopInv, LedInv, CacheInv, ReaderInv, Backed, Owned
<1>. QED
  BY <1>1, <1>2, <1>3, <1>4, <1>5, <1>6

\* identify() raises.
LEMMA FailsStep ==
  ASSUME IInv, NEW s \in Slots, Fails(s)
  PROVE  IInv'
<1>. USE ConstantsAssumption DEF IInv, Fails, Leaves, LoopFree, led_vars, poll_vars, cache_vars, read_vars
<1>1. TypeOK'
  BY DEF TypeOK, Lamp
<1>2. LoopInv'
  BY DEF TypeOK, LoopInv
<1>3. LedInv'
  BY DEF TypeOK, LoopInv, LedInv, Owned
<1>4. SampleInv'
  BY DEF TypeOK, LedInv, SampleInv, Backed, Owned
<1>5. CacheInv'
  BY DEF TypeOK, LoopInv, LedInv, SampleInv, CacheInv, Backed, Owned
<1>6. ReaderInv'
  BY DEF TypeOK, LoopInv, LedInv, CacheInv, ReaderInv, Backed, Owned
<1>. QED
  BY <1>1, <1>2, <1>3, <1>4, <1>5, <1>6

\* The first half of a publication.
LEMMA PublishStep ==
  ASSUME IInv, NEW s \in Slots, Publish(s)
  PROVE  IInv'
<1>. USE ConstantsAssumption DEF IInv, Publish, Keep, Stamp, LoopFree, led_vars
<1>1. TypeOK'
  <2>1. CASE ~wanted[s]
    <3>1. stamp' \in [Slots -> {"none", "on", "off"}] /\ record' = record
      BY <2>1 DEF TypeOK
    <3>2. /\ since' \in [Pollers -> SUBSET Slots]
          /\ cachedAge' \subseteq Slots
          /\ age' \in [Readers -> SUBSET Slots]
      <4>1. /\ \A p \in Pollers : since[p] \cup {s} \in SUBSET Slots
            /\ \A r \in Readers : age[r] \cup {s} \in SUBSET Slots
            /\ {} \in SUBSET Slots
        BY DEF TypeOK
      <4>2. since' \in [Pollers -> SUBSET Slots]
        BY <2>1, <4>1
      <4>3. age' \in [Readers -> SUBSET Slots]
        BY <2>1, <4>1
      <4>. QED
        BY <2>1, <4>2, <4>3 DEF TypeOK
    <3>. QED
      BY <3>1, <3>2 DEF TypeOK
  <2>2. CASE wanted[s]
    BY <2>2 DEF TypeOK
  <2>. QED
    BY <2>1, <2>2 DEF TypeOK
<1>2. LoopInv'
  BY DEF TypeOK, LoopInv
<1>3. LedInv'
  BY DEF TypeOK, LoopInv, LedInv, Owned
<1>4. SampleInv'
  BY DEF TypeOK, LedInv, SampleInv, Backed, Owned
<1>5. CacheInv'
  BY DEF TypeOK, LoopInv, LedInv, SampleInv, CacheInv, Backed, Owned
<1>6. ReaderInv'
  BY DEF TypeOK, LoopInv, LedInv, CacheInv, ReaderInv, Backed, Owned
<1>. QED
  BY <1>1, <1>2, <1>3, <1>4, <1>5, <1>6

\* The second half of a publication.
LEMMA PublishedStep ==
  ASSUME IInv, NEW s \in Slots, Published(s)
  PROVE  IInv'
<1>. USE ConstantsAssumption DEF IInv, Published, Leaves, Keep, Stamp, led_vars
<1>1. TypeOK'
  <2>1. CASE wanted[s]
    <3>1. stamp' \in [Slots -> {"none", "on", "off"}] /\ record' = record
      BY <2>1 DEF TypeOK
    <3>2. /\ since' \in [Pollers -> SUBSET Slots]
          /\ cachedAge' \subseteq Slots
          /\ age' \in [Readers -> SUBSET Slots]
      <4>1. /\ \A p \in Pollers : since[p] \cup {s} \in SUBSET Slots
            /\ \A r \in Readers : age[r] \cup {s} \in SUBSET Slots
            /\ {} \in SUBSET Slots
        BY DEF TypeOK
      <4>2. since' \in [Pollers -> SUBSET Slots]
        BY <2>1, <4>1
      <4>3. age' \in [Readers -> SUBSET Slots]
        BY <2>1, <4>1
      <4>. QED
        BY <2>1, <4>2, <4>3 DEF TypeOK
    <3>. QED
      BY <3>1, <3>2 DEF TypeOK
  <2>2. CASE ~wanted[s]
    BY <2>2 DEF TypeOK
  <2>. QED
    BY <2>1, <2>2 DEF TypeOK
<1>2. LoopInv'
  BY DEF TypeOK, LoopInv
<1>3. LedInv'
  BY DEF TypeOK, LoopInv, LedInv, Owned
<1>4. SampleInv'
  BY DEF TypeOK, LedInv, SampleInv, Backed, Owned
<1>5. CacheInv'
  BY DEF TypeOK, LoopInv, LedInv, SampleInv, CacheInv, Backed, Owned
<1>6. ReaderInv'
  BY DEF TypeOK, LoopInv, LedInv, CacheInv, ReaderInv, Backed, Owned
<1>. QED
  BY <1>1, <1>2, <1>3, <1>4, <1>5, <1>6

\* The timer gives up.
LEMMA GivesUpStep ==
  ASSUME IInv, NEW s \in Slots, GivesUp(s)
  PROVE  IInv'
<1>. USE ConstantsAssumption DEF IInv, GivesUp, LoopFree
<1>1. TypeOK'
  BY DEF TypeOK, Lamp
<1>2. LoopInv'
  BY DEF TypeOK, LoopInv
<1>3. LedInv'
  BY DEF TypeOK, LoopInv, LedInv, Owned
<1>4. SampleInv'
  BY DEF TypeOK, LedInv, SampleInv, Backed, Owned
<1>5. CacheInv'
  BY DEF TypeOK, LoopInv, LedInv, SampleInv, CacheInv, Backed, Owned
<1>6. ReaderInv'
  BY DEF TypeOK, LoopInv, LedInv, CacheInv, ReaderInv, Backed, Owned
<1>. QED
  BY <1>1, <1>2, <1>3, <1>4, <1>5, <1>6

\* Something else changes an LED.
LEMMA ExternalStep ==
  ASSUME IInv, NEW s \in Slots, ExternalChange(s)
  PROVE  IInv'
<1>. USE ConstantsAssumption DEF IInv, ExternalChange, ident_vars, poll_vars, cache_vars, read_vars
<1>1. TypeOK'
  BY DEF TypeOK, Lamp
<1>2. LoopInv'
  BY DEF TypeOK, LoopInv
<1>3. LedInv'
  BY DEF TypeOK, LoopInv, LedInv, Owned
<1>4. SampleInv'
  BY DEF TypeOK, LedInv, SampleInv, Backed, Owned
<1>5. CacheInv'
  BY DEF TypeOK, LoopInv, LedInv, SampleInv, CacheInv, Backed, Owned
<1>6. ReaderInv'
  BY DEF TypeOK, LoopInv, LedInv, CacheInv, ReaderInv, Backed, Owned
<1>. QED
  BY <1>1, <1>2, <1>3, <1>4, <1>5, <1>6

\* A poll starts.
LEMMA PollStartsStep ==
  ASSUME IInv, NEW p \in Pollers, PollStarts(p)
  PROVE  IInv'
<1>. USE ConstantsAssumption DEF IInv, PollStarts, LoopFree, led_vars, ident_vars, cache_vars, read_vars
<1>1. TypeOK'
  BY DEF TypeOK, Lamp
<1>2. LoopInv'
  BY DEF TypeOK, LoopInv
<1>3. LedInv'
  BY DEF TypeOK, LoopInv, LedInv, Owned
<1>4. SampleInv'
  BY DEF TypeOK, LedInv, SampleInv, Backed, Owned
<1>5. CacheInv'
  BY DEF TypeOK, LoopInv, LedInv, SampleInv, CacheInv, Backed, Owned
<1>6. ReaderInv'
  BY DEF TypeOK, LoopInv, LedInv, CacheInv, ReaderInv, Backed, Owned
<1>. QED
  BY <1>1, <1>2, <1>3, <1>4, <1>5, <1>6

\* A poll reads a slot.
LEMMA PollReadsStep ==
  ASSUME IInv, NEW p \in Pollers, PollReads(p)
  PROVE  IInv'
<1>. USE ConstantsAssumption DEF IInv, PollReads, led_vars, ident_vars, cache_vars, read_vars
<1>1. TypeOK'
  BY DEF TypeOK, Lamp
<1>2. LoopInv'
  BY DEF TypeOK, LoopInv
<1>3. LedInv'
  BY DEF TypeOK, LoopInv, LedInv, Owned
<1>4. SampleInv'
  BY DEF TypeOK, LedInv, SampleInv, Backed, Owned
<1>5. CacheInv'
  BY DEF TypeOK, LoopInv, LedInv, SampleInv, CacheInv, Backed, Owned
<1>6. ReaderInv'
  BY DEF TypeOK, LoopInv, LedInv, CacheInv, ReaderInv, Backed, Owned
<1>. QED
  BY <1>1, <1>2, <1>3, <1>4, <1>5, <1>6

\* A poll's readings are stored.
LEMMA PollStoresStep ==
  ASSUME IInv, NEW p \in Pollers, PollStores(p)
  PROVE  IInv'
<1>. USE ConstantsAssumption DEF IInv, PollStores, AllRead, LoopFree, led_vars, ident_vars, read_vars
<1>1. TypeOK'
  BY DEF TypeOK, Lamp
<1>2. LoopInv'
  BY DEF TypeOK, LoopInv
<1>3. LedInv'
  BY DEF TypeOK, LoopInv, LedInv, Owned
<1>4. SampleInv'
  BY DEF TypeOK, LedInv, SampleInv, Backed, Owned
<1>5. CacheInv'
  BY DEF TypeOK, LoopInv, LedInv, SampleInv, CacheInv, Backed, Owned
<1>6. ReaderInv'
  BY DEF TypeOK, LoopInv, LedInv, CacheInv, ReaderInv, Backed, Owned
<1>. QED
  BY <1>1, <1>2, <1>3, <1>4, <1>5, <1>6

\* A poll's readings are dated.
LEMMA PollDatesStep ==
  ASSUME IInv, NEW p \in Pollers, PollDates(p)
  PROVE  IInv'
<1>. USE ConstantsAssumption DEF IInv, PollDates, PollOver, ObservedAt, Overtakes, AllDark, led_vars, ident_vars
<1>1. TypeOK'
  BY DEF TypeOK, Lamp
<1>2. LoopInv'
  BY DEF TypeOK, LoopInv
<1>3. LedInv'
  BY DEF TypeOK, LoopInv, LedInv, Owned
<1>4. SampleInv'
  BY DEF TypeOK, LedInv, SampleInv, Backed, Owned
<1>5. CacheInv'
  BY DEF TypeOK, LoopInv, LedInv, SampleInv, CacheInv, Backed, Owned
<1>6. ReaderInv'
  BY DEF TypeOK, LoopInv, LedInv, CacheInv, ReaderInv, Backed, Owned
<1>. QED
  BY <1>1, <1>2, <1>3, <1>4, <1>5, <1>6

\* A poll fails.
LEMMA PollFailsStep ==
  ASSUME IInv, NEW p \in Pollers, PollFails(p)
  PROVE  IInv'
<1>. USE ConstantsAssumption DEF IInv, PollFails, PollOver, LoopFree, AllDark, led_vars, ident_vars, cache_vars, read_vars
<1>1. TypeOK'
  BY DEF TypeOK, Lamp
<1>2. LoopInv'
  BY DEF TypeOK, LoopInv
<1>3. LedInv'
  BY DEF TypeOK, LoopInv, LedInv, Owned
<1>4. SampleInv'
  BY DEF TypeOK, LedInv, SampleInv, Backed, Owned
<1>5. CacheInv'
  BY DEF TypeOK, LoopInv, LedInv, SampleInv, CacheInv, Backed, Owned
<1>6. ReaderInv'
  BY DEF TypeOK, LoopInv, LedInv, CacheInv, ReaderInv, Backed, Owned
<1>. QED
  BY <1>1, <1>2, <1>3, <1>4, <1>5, <1>6

\* A reader takes the cached readings.
LEMMA ReaderStartsStep ==
  ASSUME IInv, NEW r \in Readers, ReaderStarts(r)
  PROVE  IInv'
<1>. USE ConstantsAssumption DEF IInv, ReaderStarts, led_vars, ident_vars, poll_vars, cache_vars
<1>1. TypeOK'
  BY DEF TypeOK, Lamp
<1>2. LoopInv'
  BY DEF TypeOK, LoopInv
<1>3. LedInv'
  BY DEF TypeOK, LoopInv, LedInv, Owned
<1>4. SampleInv'
  BY DEF TypeOK, LedInv, SampleInv, Backed, Owned
<1>5. CacheInv'
  BY DEF TypeOK, LoopInv, LedInv, SampleInv, CacheInv, Backed, Owned
<1>6. ReaderInv'
  BY DEF TypeOK, LoopInv, LedInv, CacheInv, ReaderInv, Backed, Owned
<1>. QED
  BY <1>1, <1>2, <1>3, <1>4, <1>5, <1>6

\* A reader reads their date.
LEMMA ReaderDatesStep ==
  ASSUME IInv, NEW r \in Readers, NEW s \in Slots, ReaderDates(r, s)
  PROVE  IInv'
<1>. USE ConstantsAssumption DEF IInv, ReaderDates, led_vars, ident_vars, poll_vars, cache_vars
<1>1. TypeOK'
  BY DEF TypeOK, Lamp
<1>2. LoopInv'
  BY DEF TypeOK, LoopInv
<1>3. LedInv'
  BY DEF TypeOK, LoopInv, LedInv, Owned
<1>4. SampleInv'
  BY DEF TypeOK, LedInv, SampleInv, Backed, Owned
<1>5. CacheInv'
  BY DEF TypeOK, LoopInv, LedInv, SampleInv, CacheInv, Backed, Owned
<1>6. ReaderInv'
  BY DEF TypeOK, LoopInv, LedInv, CacheInv, ReaderInv, Backed, Owned
<1>. QED
  BY <1>1, <1>2, <1>3, <1>4, <1>5, <1>6

\* A reader reads the last write.
LEMMA ReaderLooksStep ==
  ASSUME IInv, NEW r \in Readers, ReaderLooks(r)
  PROVE  IInv'
<1>. USE ConstantsAssumption DEF IInv, ReaderLooks, Locate, led_vars, ident_vars, poll_vars, cache_vars
<1>1. TypeOK'
  BY DEF TypeOK, Lamp
<1>2. LoopInv'
  BY DEF TypeOK, LoopInv
<1>3. LedInv'
  BY DEF TypeOK, LoopInv, LedInv, Owned
<1>4. SampleInv'
  BY DEF TypeOK, LedInv, SampleInv, Backed, Owned
<1>5. CacheInv'
  BY DEF TypeOK, LoopInv, LedInv, SampleInv, CacheInv, Backed, Owned
<1>6. ReaderInv'
  <2>. SUFFICES ASSUME NEW q \in Readers, reader'[q] # "idle",
                        Poll \notin overlap[q], NEW s \in Slots \ overlap[q],
                        reader'[q] = "looked", bay[q] = s, locate'[q], seen[q][s] = App
                 PROVE  s \in record
    BY DEF TypeOK, ReaderInv, Backed, Owned
  <2>1. CASE q = r
    <3>1. ident[s] = "idle" /\ Backed(s, seen[r][s], s \in age[r])
      BY <2>1 DEF ReaderInv
    <3>2. locate'[r] = Locate(seen[r][s], s \in age[r], stamp[s])
      BY <2>1 DEF TypeOK
    <3>3. s \in record \/ (s \in age[r] /\ stamp[s] = "off")
      BY <2>1, <3>1 DEF Backed, Owned
    <3>. QED
      BY <2>1, <3>2, <3>3
  <2>2. CASE q # r
    BY <2>2 DEF TypeOK, ReaderInv
  <2>. QED
    BY <2>1, <2>2
<1>. QED
  BY <1>1, <1>2, <1>3, <1>4, <1>5, <1>6

\* A reader answers.
LEMMA ReaderAnswersStep ==
  ASSUME IInv, NEW r \in Readers, ReaderAnswers(r)
  PROVE  IInv'
<1>. USE ConstantsAssumption DEF IInv, ReaderAnswers, led_vars, ident_vars, poll_vars, cache_vars
<1>1. TypeOK'
  BY DEF TypeOK, Lamp
<1>2. LoopInv'
  BY DEF TypeOK, LoopInv
<1>3. LedInv'
  BY DEF TypeOK, LoopInv, LedInv, Owned
<1>4. SampleInv'
  BY DEF TypeOK, LedInv, SampleInv, Backed, Owned
<1>5. CacheInv'
  BY DEF TypeOK, LoopInv, LedInv, SampleInv, CacheInv, Backed, Owned
<1>6. ReaderInv'
  BY DEF TypeOK, LoopInv, LedInv, CacheInv, ReaderInv, Backed, Owned
<1>. QED
  BY <1>1, <1>2, <1>3, <1>4, <1>5, <1>6

\* A reader is done.
LEMMA ReaderEndsStep ==
  ASSUME IInv, NEW r \in Readers, ReaderEnds(r)
  PROVE  IInv'
<1>. USE ConstantsAssumption DEF IInv, ReaderEnds, AllDark, led_vars, ident_vars, poll_vars, cache_vars
<1>1. TypeOK'
  BY DEF TypeOK, Lamp
<1>2. LoopInv'
  BY DEF TypeOK, LoopInv
<1>3. LedInv'
  BY DEF TypeOK, LoopInv, LedInv, Owned
<1>4. SampleInv'
  BY DEF TypeOK, LedInv, SampleInv, Backed, Owned
<1>5. CacheInv'
  BY DEF TypeOK, LoopInv, LedInv, SampleInv, CacheInv, Backed, Owned
<1>6. ReaderInv'
  BY DEF TypeOK, LoopInv, LedInv, CacheInv, ReaderInv, Backed, Owned
<1>. QED
  BY <1>1, <1>2, <1>3, <1>4, <1>5, <1>6

\* Nothing happens.
LEMMA StutterStep ==
  ASSUME IInv, UNCHANGED vars
  PROVE  IInv'
<1>. USE ConstantsAssumption DEF IInv, vars, led_vars, ident_vars, poll_vars, cache_vars, read_vars
<1>1. TypeOK'
  BY DEF TypeOK, Lamp
<1>2. LoopInv'
  BY DEF TypeOK, LoopInv
<1>3. LedInv'
  BY DEF TypeOK, LoopInv, LedInv, Owned
<1>4. SampleInv'
  BY DEF TypeOK, LedInv, SampleInv, Backed, Owned
<1>5. CacheInv'
  BY DEF TypeOK, LoopInv, LedInv, SampleInv, CacheInv, Backed, Owned
<1>6. ReaderInv'
  BY DEF TypeOK, LoopInv, LedInv, CacheInv, ReaderInv, Backed, Owned
<1>. QED
  BY <1>1, <1>2, <1>3, <1>4, <1>5, <1>6

-----------------------------------------------------------------------------
(***************************************************************************)
(* The invariant, and the theorems that follow from it.                    *)
(***************************************************************************)

\* The invariant holds when the web server starts.
LEMMA InitInv == Init => IInv
<1>. SUFFICES ASSUME Init
              PROVE  IInv
  OBVIOUS
<1>. USE ConstantsAssumption DEF Init
<1>1. (CHOOSE s \in Slots : TRUE) \in Slots
  OBVIOUS
<1>2. TypeOK
  BY <1>1 DEF TypeOK, Lamp, AllDark
<1>3. LoopInv /\ LedInv /\ SampleInv
  BY DEF LoopInv, LedInv, SampleInv
<1>4. CacheInv /\ ReaderInv
  BY DEF CacheInv, ReaderInv, Backed
<1>. QED
  BY <1>2, <1>3, <1>4 DEF IInv

\* Every step of the event loop, of its threads and of the shelf keeps it.
LEMMA NextInv == IInv /\ [Next]_vars => IInv'
<1>. SUFFICES ASSUME IInv, [Next]_vars
              PROVE  IInv'
  OBVIOUS
<1>1. ASSUME NEW s \in Slots, NEW on \in BOOLEAN, Identify(s, on)
      PROVE  IInv'
  BY <1>1, IdentifyStep
<1>2. ASSUME NEW s \in Slots, IdentSteps(s)
      PROVE  IInv'
  BY <1>2, WriteStep, FailsStep, PublishStep, PublishedStep DEF IdentSteps
<1>3. ASSUME NEW s \in Slots, GivesUp(s) \/ ExternalChange(s)
      PROVE  IInv'
  BY <1>3, GivesUpStep, ExternalStep
<1>4. ASSUME NEW p \in Pollers, PollStarts(p) \/ PollEnds(p) \/ PollFails(p)
      PROVE  IInv'
  BY <1>4, PollStartsStep, PollReadsStep, PollStoresStep, PollDatesStep, PollFailsStep
  DEF PollEnds
<1>5. ASSUME NEW r \in Readers,
             ReaderStarts(r) \/ ReaderLooks(r) \/ ReaderAnswers(r) \/ ReaderEnds(r)
      PROVE  IInv'
  BY <1>5, ReaderStartsStep, ReaderLooksStep, ReaderAnswersStep, ReaderEndsStep
<1>6. ASSUME NEW r \in Readers, NEW s \in Slots, ReaderDates(r, s)
      PROVE  IInv'
  BY <1>6, ReaderDatesStep
<1>7. CASE UNCHANGED vars
  BY <1>7, StutterStep
<1>. QED
  BY <1>1, <1>2, <1>3, <1>4, <1>5, <1>6, <1>7 DEF Next

\* The strengthened invariant holds in every reachable state.
THEOREM Invariance == Spec => []IInv
<1>1. Init => IInv
  BY InitInv
<1>2. IInv /\ [Next]_vars => IInv'
  BY NextInv
<1>. QED
  BY <1>1, <1>2, PTL DEF Spec

\* The variables keep their types, and a poll caches only complete readings.
THEOREM TypeCorrect == Spec => []TypeOK
<1>1. IInv => TypeOK
  BY DEF IInv
<1>. QED
  BY <1>1, Invariance, PTL

\* Ordering readings against verified writes does what describe() says of it:
\* whatever polls overlap whichever writes, the cache blames nobody else for an
\* LED the application lit, or has cleared.
THEOREM CacheIsSound == Spec => []CacheNeverBlamesOthers
<1>1. IInv => CacheNeverBlamesOthers
  <2>. SUFFICES ASSUME IInv, NEW s \in Slots,
                       ident[s] = "idle" \/ ~wanted[s],
                       \A p \in Pollers : poll[p] # "storing",
                       Shown(s) = "external"
                PROVE  cached[s] = External \/ s \in disowned
    BY DEF CacheNeverBlamesOthers
  <2>1. s \notin record /\ Locate(cached[s], s \in cachedAge, stamp[s])
    BY DEF Shown, Origin
  <2>2. CASE s \in cachedAge
    BY <2>1, <2>2 DEF Locate, IInv, LedInv
  <2>3. CASE s \notin cachedAge
    <3>1. cached[s] # App
      BY <2>1, <2>3 DEF IInv, CacheInv, Backed, Owned
    <3>. QED
      BY <2>1, <2>3, <3>1 DEF Locate, IInv, TypeOK, Lamp
  <2>. QED
    BY <2>2, <2>3
<1>. QED
  BY <1>1, Invariance, PTL

\* A reader that shares no moment with an identify() on the bay, and whose cache is
\* not replaced under it, never calls an LED external that the application lit.
THEOREM ReaderIsSound == Spec => []FalseExternalNeedsOverlap
<1>1. IInv => FalseExternalNeedsOverlap
  <2>. SUFFICES ASSUME IInv, NEW r \in Readers,
                       reader[r] = "looked", Verdict(r) = "external",
                       seen[r][bay[r]] = App,
                       bay[r] \notin overlap[r], Poll \notin overlap[r]
                PROVE  FALSE
    BY DEF FalseExternalNeedsOverlap
  <2>1. bay[r] \notin record /\ locate[r]
    BY DEF Verdict, Origin
  <2>2. bay[r] \in Slots
    BY DEF IInv, TypeOK
  <2>. QED
    BY <2>1, <2>2 DEF IInv, ReaderInv
<1>. QED
  BY <1>1, Invariance, PTL

=============================================================================
