-------------------------- MODULE TickManagerProofs ---------------------------
(* TickManager's invariants, for every spacing, array size, tick range and     *)
(* integer width, and for every sequence of its instructions.                  *)
EXTENDS TickManager, ArithmeticProofs

-------------------------------------------------------------------------------
(* tick_manager's instructions.                                                *)

\* The book after an update is well typed, by update_tick's checks.
LEMMA UpdatedTickType ==
    ASSUME NEW old \in TickData, NEW delta, NEW is_upper,
           GrossAfter(old.liquidity_gross, delta) \in U128,
           NetAfter(old.liquidity_net, delta, is_upper) \in I128
    PROVE  UpdatedTick(old, delta, is_upper) \in TickData
<1>1. 0 \in U128
  BY Q64Assumption DEF U128, U128Max
<1> QED
  BY <1>1 DEF UpdatedTick, TickData

\* After an update the flag is on exactly when liquidity is left.
LEMMA FlagAfterUpdate ==
    ASSUME NEW old \in TickData, NEW delta, NEW is_upper,
           GrossAfter(old.liquidity_gross, delta) \in U128
    PROVE  UpdatedTick(old, delta, is_upper).initialized
             <=> GrossAfter(old.liquidity_gross, delta) > 0
<1> DEFINE gross == GrossAfter(old.liquidity_gross, delta)
           new   == UpdatedTick(old, delta, is_upper)
<1>1. gross \in Nat
  BY DEF U128
<1>2. CASE gross = 0
  <2>1. ~(gross > 0)
    BY <1>2
  <2>2. new.initialized = (~old.initialized /\ gross > 0)
    BY <1>2, Zenon DEF UpdatedTick
  <2> QED
    BY <2>1, <2>2, Zenon
<1>3. CASE gross > 0 /\ old.initialized
  <2>1. gross # 0
    BY <1>3
  <2>2. new.initialized = old.initialized
    BY <2>1, <1>3, Zenon DEF UpdatedTick
  <2> QED
    BY <2>2, <1>3, Zenon
<1>4. CASE gross > 0 /\ ~old.initialized
  <2>1. new.initialized = (~old.initialized /\ gross > 0)
    BY <1>4, Zenon DEF UpdatedTick
  <2> QED
    BY <2>1, <1>4, Zenon
<1> QED
  BY <1>1, <1>2, <1>3, <1>4

\* A wrapped difference is a u128.
LEMMA WrapSubType ==
    ASSUME NEW a \in Int, NEW b \in Int
    PROVE  WrapSub(a, b) \in U128
<1> DEFINE M == Q64 * Q64
<1>1. M \in Nat \ {0}
  BY Q64Assumption
<1>2. WrapSub(a, b) = (a - b) % M /\ U128 = 0 .. M - 1
  BY DEF WrapSub, U128, U128Max
<1> HIDE DEF M
<1> QED
  BY <1>1, <1>2

\* The slot that update_tick and the readers of an aligned tick touch exists.
LEMMA TickSlot ==
    ASSUME NEW t \in Ticks
    PROVE  /\ TickToArrayStart(t) \in Int
           /\ SlotOf(TickToArrayStart(t), t) \in Slots
<1>1. t \in Int
  BY TickAssumption DEF Ticks
<1> QED
  BY <1>1, TickIsInItsArray, SlotInRange

-------------------------------------------------------------------------------
(* One update_tick, on any book.                                               *)

\* The book's tables agree and no bit is stale.
BookOK(book) ==
    /\ BookTypeOK(book)
    /\ BookLiveIffGross(book)
    /\ BookBitmapSound(book)

\* An update writes one slot, in the tick's own array.
LEMMA UpdateWrites ==
    ASSUME NEW book, BookTypeOK(book), NEW tick \in Ticks, NEW word, NEW delta, NEW is_upper,
           UpdateTickOk(book, tick, word, delta, is_upper)
    PROVE  LET start == TickToArrayStart(tick)
               slot  == SlotOf(start, tick)
               new   == AfterUpdateTick(book, tick, delta, is_upper).arrays
           IN  /\ start \in DOMAIN book.arrays
               /\ slot \in Slots
               /\ book.arrays[start][slot] \in TickData
               /\ GrossAfter(book.arrays[start][slot].liquidity_gross, delta) \in U128
               /\ NetAfter(book.arrays[start][slot].liquidity_net, delta, is_upper) \in I128
               /\ DOMAIN new = DOMAIN book.arrays
               /\ new \in [DOMAIN new -> [Slots -> TickData]]
               /\ \A s \in DOMAIN book.arrays, i \in Slots :
                    new[s][i] =
                      IF s = start /\ i = slot
                        THEN UpdatedTick(book.arrays[start][slot], delta, is_upper)
                        ELSE book.arrays[s][i]
<1> DEFINE start  == TickToArrayStart(tick)
           slot   == SlotOf(start, tick)
           arrays == book.arrays
           old    == arrays[start][slot]
           upd    == UpdatedTick(old, delta, is_upper)
           new    == AfterUpdateTick(book, tick, delta, is_upper).arrays
<1>1. /\ start \in DOMAIN arrays
      /\ slot \in Slots
  BY TickSlot DEF UpdateTickOk
<1>2. arrays \in [DOMAIN arrays -> [Slots -> TickData]]
  BY DEF BookTypeOK
<1>3. old \in TickData
  BY <1>1, <1>2
<1>4. /\ GrossAfter(old.liquidity_gross, delta) \in U128
      /\ NetAfter(old.liquidity_net, delta, is_upper) \in I128
  BY DEF UpdateTickOk, Tick
<1>5. upd \in TickData
  BY <1>3, <1>4, UpdatedTickType
<1>6. new = [arrays EXCEPT ![start][slot] = upd]
  BY DEF AfterUpdateTick, UpdatedArrays, Tick
<1> HIDE DEF start, slot, arrays, old, upd, new
<1>7. /\ DOMAIN new = DOMAIN arrays
      /\ new \in [DOMAIN new -> [Slots -> TickData]]
      /\ \A s \in DOMAIN arrays, i \in Slots :
            new[s][i] = IF s = start /\ i = slot THEN upd ELSE arrays[s][i]
  BY <1>1, <1>2, <1>5, <1>6
<1> QED
  BY <1>1, <1>3, <1>4, <1>7 DEF start, slot, arrays, old, upd, new

LEMMA UpdateKeepsType ==
    ASSUME NEW book, BookTypeOK(book), NEW tick \in Ticks, NEW word, NEW delta, NEW is_upper,
           UpdateTickOk(book, tick, word, delta, is_upper)
    PROVE  BookTypeOK(AfterUpdateTick(book, tick, delta, is_upper))
<1> DEFINE new == AfterUpdateTick(book, tick, delta, is_upper)
<1>1. /\ DOMAIN new.arrays = DOMAIN book.arrays
      /\ new.arrays \in [DOMAIN new.arrays -> [Slots -> TickData]]
  BY UpdateWrites
<1>2. DOMAIN book.arrays \subseteq ArrayStarts
  BY DEF BookTypeOK
<1>3. new.bitmaps \in [Words -> TickBitmap]
  <2>1. TickBit(tick) \in 0 .. ARRAYS_PER_BITMAP_WORD - 1
    BY TickBitInRange
  <2>2. TickWord(tick) \in Words
    BY DEF Words
  <2>3. book.bitmaps \in [Words -> TickBitmap]
    BY DEF BookTypeOK
  <2>4. new.bitmaps = UpdatedBitmaps(book, tick, delta)
    BY DEF AfterUpdateTick
  <2> HIDE DEF new
  <2> QED
    BY <2>1, <2>2, <2>3, <2>4 DEF UpdatedBitmaps, TickBitmap
<1> HIDE DEF new
<1>4. BookTypeOK(new)
  BY <1>1, <1>2, <1>3 DEF BookTypeOK
<1> QED
  BY <1>4 DEF new

\* The flag follows the liquidity, and dying clears the snapshots.
LEMMA UpdateKeepsLive ==
    ASSUME NEW book, BookTypeOK(book), BookLiveIffGross(book),
           NEW tick \in Ticks, NEW word, NEW delta, NEW is_upper,
           UpdateTickOk(book, tick, word, delta, is_upper)
    PROVE  BookLiveIffGross(AfterUpdateTick(book, tick, delta, is_upper))
<1>1. ASSUME NEW old \in TickData, GrossAfter(old.liquidity_gross, delta) \in U128
      PROVE  LiveTickHasGross(UpdatedTick(old, delta, is_upper))
  <2> DEFINE new == UpdatedTick(old, delta, is_upper)
  <2>1. new.liquidity_gross = GrossAfter(old.liquidity_gross, delta)
    BY DEF UpdatedTick
  <2>2. new.initialized <=> new.liquidity_gross > 0
    BY <1>1, <2>1, FlagAfterUpdate
  <2>3. ASSUME new.liquidity_gross = 0
        PROVE  new.fee_growth_outside_0 = 0 /\ new.fee_growth_outside_1 = 0
    BY <2>1, <2>3 DEF UpdatedTick
  <2>4. new.liquidity_gross \in Nat
    BY <1>1, <2>1 DEF U128
  <2> QED
    BY <2>2, <2>3, <2>4 DEF LiveTickHasGross
<1>2. \A s \in DOMAIN book.arrays, i \in Slots : LiveTickHasGross(book.arrays[s][i])
  BY DEF BookLiveIffGross
<1> DEFINE start == TickToArrayStart(tick)
           slot  == SlotOf(start, tick)
           new   == AfterUpdateTick(book, tick, delta, is_upper)
<1>3. /\ start \in DOMAIN book.arrays /\ slot \in Slots
      /\ LiveTickHasGross(UpdatedTick(book.arrays[start][slot], delta, is_upper))
      /\ DOMAIN new.arrays = DOMAIN book.arrays
  BY <1>1, UpdateWrites
<1>4. \A s \in DOMAIN book.arrays, i \in Slots :
         new.arrays[s][i] =
           IF s = start /\ i = slot THEN UpdatedTick(book.arrays[start][slot], delta, is_upper)
                                   ELSE book.arrays[s][i]
  BY UpdateWrites
<1> HIDE DEF start, slot, new
<1>5. \A s \in DOMAIN new.arrays, i \in Slots : LiveTickHasGross(new.arrays[s][i])
  <2> TAKE s \in DOMAIN new.arrays, i \in Slots
  <2>1. CASE s = start /\ i = slot
    BY <2>1, <1>3, <1>4, Zenon
  <2>2. CASE ~(s = start /\ i = slot)
    BY <2>2, <1>2, <1>3, <1>4, Zenon
  <2> QED
    BY <2>1, <2>2
<1>6. BookLiveIffGross(new)
  BY <1>5 DEF BookLiveIffGross
<1> QED
  BY <1>6 DEF new

\* A bit goes on with a tick of its array, and goes off with whatever dies.
LEMMA UpdateKeepsSound ==
    ASSUME NEW book, BookTypeOK(book), BookBitmapSound(book),
           NEW tick \in Ticks, NEW word, NEW delta, NEW is_upper,
           UpdateTickOk(book, tick, word, delta, is_upper)
    PROVE  BookBitmapSound(AfterUpdateTick(book, tick, delta, is_upper))
<1> DEFINE start == TickToArrayStart(tick)
           slot  == SlotOf(start, tick)
           old   == book.arrays[start][slot]
           gross == GrossAfter(old.liquidity_gross, delta)
           upd   == UpdatedTick(old, delta, is_upper)
           new   == AfterUpdateTick(book, tick, delta, is_upper)
<1>1. /\ start \in DOMAIN book.arrays /\ slot \in Slots /\ old \in TickData
      /\ gross \in U128
      /\ DOMAIN new.arrays = DOMAIN book.arrays
      /\ \A s \in DOMAIN book.arrays, i \in Slots :
            s # start \/ i # slot => new.arrays[s][i] = book.arrays[s][i]
      /\ new.arrays[start][slot] = upd
  BY UpdateWrites
<1>2. upd.initialized <=> gross > 0
  BY <1>1, FlagAfterUpdate
<1>3. TickWord(start) = TickWord(tick) /\ TickBit(start) = TickBit(tick)
  BY StartSharesBit, TickAssumption DEF Ticks
<1>4. new.bitmaps = UpdatedBitmaps(book, tick, delta)
  BY DEF AfterUpdateTick
<1>5. TickWord(tick) \in Words /\ DOMAIN book.bitmaps = Words
  BY DEF Words, BookTypeOK
<1> HIDE DEF start, slot, gross, upd, new
<1> SUFFICES ASSUME NEW w \in Words, NEW b \in new.bitmaps[w].initialized_arrays
             PROVE  \E s \in DOMAIN new.arrays :
                       TickWord(s) = w /\ TickBit(s) = b /\ ArrayLive(new, s)
  BY DEF BookBitmapSound, new
\* A bit that was on already keeps its witness when live ticks stay live.
<1>6. ASSUME b \in book.bitmaps[w].initialized_arrays,
             \A s \in DOMAIN book.arrays, i \in Slots :
                (TickWord(s) = w /\ TickBit(s) = b /\ book.arrays[s][i].initialized)
                  => new.arrays[s][i].initialized
      PROVE  \E s \in DOMAIN new.arrays :
                TickWord(s) = w /\ TickBit(s) = b /\ ArrayLive(new, s)
  BY <1>1, <1>6 DEF BookBitmapSound, ArrayLive
<1>7. CASE old.initialized <=> gross > 0
  <2>1. new.bitmaps = book.bitmaps
    BY <1>4, <1>7, Zenon DEF UpdatedBitmaps, Flips, Tick, start, slot, gross
  <2>2. upd.initialized <=> old.initialized
    BY <1>2, <1>7, Zenon
  <2> QED
    BY <2>1, <2>2, <1>1, <1>6
<1>8. CASE ~(old.initialized <=> gross > 0)
  <2>1. new.bitmaps =
          [book.bitmaps EXCEPT ![TickWord(tick)] =
             [claimed            |-> TRUE,
              word_index         |-> TickWord(tick),
              initialized_arrays |->
                LET bits == book.bitmaps[TickWord(tick)].initialized_arrays
                IN  IF old.initialized THEN bits \ {TickBit(tick)}
                                       ELSE bits \cup {TickBit(tick)}]]
    BY <1>4, <1>8, Zenon DEF UpdatedBitmaps, Flips, Tick, start, slot, gross
  <2>2. CASE old.initialized
    <3>1. /\ b \in book.bitmaps[w].initialized_arrays
          /\ w # TickWord(tick) \/ b # TickBit(tick)
      BY <2>1, <2>2, <1>5
    <3> QED
      BY <3>1, <1>1, <1>3, <1>6
  <2>3. CASE ~old.initialized
    <3>1. upd.initialized
      BY <1>2, <1>8, <2>3, Zenon
    <3>2. CASE w = TickWord(tick) /\ b = TickBit(tick)
      BY <3>1, <3>2, <1>1, <1>3 DEF ArrayLive
    <3>3. CASE w # TickWord(tick) \/ b # TickBit(tick)
      <4>1. b \in book.bitmaps[w].initialized_arrays
        BY <2>1, <2>3, <3>3, <1>5
      <4> QED
        BY <4>1, <3>1, <1>1, <1>6
    <3> QED
      BY <3>2, <3>3
  <2> QED
    BY <2>2, <2>3
<1> QED
  BY <1>7, <1>8

\* One update_tick leaves a good book good; so do two, the second on what the
\* first has written, which is how position_mgr uses it.
LEMMA UpdateKeepsBook ==
    ASSUME NEW book, BookOK(book), NEW tick \in Ticks, NEW word, NEW delta, NEW is_upper,
           UpdateTickOk(book, tick, word, delta, is_upper)
    PROVE  BookOK(AfterUpdateTick(book, tick, delta, is_upper))
BY UpdateKeepsType, UpdateKeepsLive, UpdateKeepsSound DEF BookOK

\* A new array is zeroed.
LEMMA NewArrayKeepsBook ==
    ASSUME BookOK(Book), NEW start \in Ticks, InitializeTickArray(start)
    PROVE  BookOK(Book)'
<1>1. start \in ArrayStarts
  BY DEF InitializeTickArray, ArrayStarts
<1>2. ZeroTick \in TickData /\ LiveTickHasGross(ZeroTick)
  BY Q64Assumption
     DEF ZeroTick, TickData, LiveTickHasGross, U128, I128, U128Max, I128Max, I128Min
<1>3. /\ DOMAIN tick_arrays' = DOMAIN tick_arrays \cup {start}
      /\ tick_bitmaps' = tick_bitmaps
      /\ \A s \in DOMAIN tick_arrays : tick_arrays'[s] = tick_arrays[s]
      /\ tick_arrays'[start] = [i \in Slots |-> ZeroTick]
      /\ tick_arrays' = [s \in DOMAIN tick_arrays' |-> tick_arrays'[s]]
  BY DEF InitializeTickArray
<1>4. BookTypeOK(Book)'
  BY <1>1, <1>2, <1>3 DEF BookOK, BookTypeOK, Book
<1>5. BookLiveIffGross(Book)'
  BY <1>2, <1>3 DEF BookOK, BookLiveIffGross, Book
<1>6. BookBitmapSound(Book)'
  BY <1>3 DEF BookOK, BookBitmapSound, ArrayLive, Book
<1> QED
  BY <1>4, <1>5, <1>6 DEF BookOK

LEMMA EmptyBookOK ==
    ASSUME TickInit
    PROVE  BookOK(Book)
BY DEF TickInit, BookOK, BookTypeOK, BookLiveIffGross, BookBitmapSound, Book,
       ZeroBitmap, TickBitmap

-------------------------------------------------------------------------------
(* cross_tick.                                                                 *)

\* A crossing writes the snapshots of one live slot.
LEMMA CrossTickWrites ==
    ASSUME BookTypeOK(Book), NEW start \in DOMAIN tick_arrays, NEW tick \in Ticks,
           NEW g0 \in FeeGrowths, NEW g1 \in FeeGrowths, CrossTick(start, tick, g0, g1)
    PROVE  LET slot == SlotOf(start, tick)
               old  == tick_arrays[start][slot]
           IN  /\ slot \in Slots
               /\ old \in TickData
               /\ old.initialized
               /\ CrossedTick(old, g0, g1) \in TickData
               /\ DOMAIN tick_arrays' = DOMAIN tick_arrays
               /\ tick_arrays' \in [DOMAIN tick_arrays -> [Slots -> TickData]]
               /\ \A s \in DOMAIN tick_arrays, i \in Slots :
                    tick_arrays'[s][i] =
                      IF s = start /\ i = slot THEN CrossedTick(old, g0, g1)
                                               ELSE tick_arrays[s][i]
<1> DEFINE slot == SlotOf(start, tick)
           old  == tick_arrays[start][slot]
           new  == CrossedTick(old, g0, g1)
<1>1. slot \in Slots
  BY SlotInRange, TickAssumption DEF BookTypeOK, Book, CrossTick, Ticks, ArrayStarts
<1>2. old.initialized /\ tick_arrays' = [tick_arrays EXCEPT ![start][slot] = new]
  BY DEF CrossTick
<1>3. tick_arrays \in [DOMAIN tick_arrays -> [Slots -> TickData]]
  BY DEF BookTypeOK, Book
<1>4. old \in TickData
  BY <1>1, <1>3
<1>5. new \in TickData
  <2>1. /\ g0 \in Int /\ g1 \in Int
        /\ old.fee_growth_outside_0 \in Int /\ old.fee_growth_outside_1 \in Int
    BY <1>4, FeeGrowthsAssumption DEF U128, TickData
  <2>2. /\ WrapSub(g0, old.fee_growth_outside_0) \in U128
        /\ WrapSub(g1, old.fee_growth_outside_1) \in U128
    BY <2>1, WrapSubType
  <2> QED
    BY <2>2, <1>4 DEF TickData, CrossedTick
<1> HIDE DEF slot, old, new
<1>6. /\ DOMAIN tick_arrays' = DOMAIN tick_arrays
      /\ tick_arrays' \in [DOMAIN tick_arrays -> [Slots -> TickData]]
      /\ \A s \in DOMAIN tick_arrays, i \in Slots :
            tick_arrays'[s][i] = IF s = start /\ i = slot THEN new ELSE tick_arrays[s][i]
  BY <1>1, <1>2, <1>3, <1>5
<1> QED
  BY <1>1, <1>2, <1>4, <1>5, <1>6 DEF slot, old, new

LEMMA CrossTickKeepsBook ==
    ASSUME BookOK(Book), NEW start \in DOMAIN tick_arrays, NEW tick \in Ticks,
           NEW g0 \in FeeGrowths, NEW g1 \in FeeGrowths, CrossTick(start, tick, g0, g1)
    PROVE  BookOK(Book)'
<1> DEFINE slot == SlotOf(start, tick)
           old  == tick_arrays[start][slot]
           new  == CrossedTick(old, g0, g1)
<1>1. BookTypeOK(Book)
  BY DEF BookOK
<1>2. /\ slot \in Slots /\ old \in TickData /\ old.initialized
      /\ DOMAIN tick_arrays' = DOMAIN tick_arrays
      /\ tick_arrays' \in [DOMAIN tick_arrays -> [Slots -> TickData]]
      /\ \A s \in DOMAIN tick_arrays, i \in Slots :
            tick_arrays'[s][i] = IF s = start /\ i = slot THEN new ELSE tick_arrays[s][i]
  BY <1>1, CrossTickWrites
<1>3. tick_bitmaps' = tick_bitmaps
  BY DEF CrossTick
<1>4. /\ new.initialized = old.initialized
      /\ new.liquidity_gross = old.liquidity_gross
  BY <1>2 DEF CrossedTick, TickData
<1> HIDE DEF slot, old, new
<1>5. BookTypeOK(Book)'
  BY <1>1, <1>2, <1>3 DEF BookTypeOK, Book
<1>6. \A s \in DOMAIN tick_arrays, i \in Slots :
         /\ LiveTickHasGross(tick_arrays[s][i])
         /\ LiveTickHasGross(tick_arrays'[s][i])
         /\ tick_arrays[s][i].initialized => tick_arrays'[s][i].initialized
  <2> TAKE s \in DOMAIN tick_arrays, i \in Slots
  <2>1. LiveTickHasGross(tick_arrays[s][i])
    BY DEF BookOK, BookLiveIffGross, Book
  <2>2. CASE s = start /\ i = slot
    <3>1. tick_arrays[s][i] = old /\ tick_arrays'[s][i] = new
      BY <2>2, <1>2 DEF old
    <3> QED
      BY <3>1, <2>1, <1>2, <1>4, Zenon DEF LiveTickHasGross
  <2>3. CASE ~(s = start /\ i = slot)
    BY <2>1, <2>3, <1>2, Zenon
  <2> QED
    BY <2>2, <2>3
<1>7. BookLiveIffGross(Book)'
  BY <1>2, <1>6 DEF BookLiveIffGross, Book
<1>8. BookBitmapSound(Book)'
  BY <1>2, <1>3, <1>6 DEF BookOK, BookBitmapSound, ArrayLive, Book
<1> QED
  BY <1>5, <1>7, <1>8 DEF BookOK

-------------------------------------------------------------------------------
(* The instructions in any order.                                              *)

LEMMA UpdateTickIsAfterUpdate ==
    ASSUME NEW tick, NEW word, NEW delta, NEW is_upper, UpdateTick(tick, word, delta, is_upper)
    PROVE  /\ UpdateTickOk(Book, tick, word, delta, is_upper)
           /\ Book' = AfterUpdateTick(Book, tick, delta, is_upper)
BY DEF UpdateTick, AfterUpdateTick, Book

LEMMA BookAlwaysOK == TickSpec => []BookOK(Book)
<1>1. TickInit => BookOK(Book)
  BY EmptyBookOK
<1>2. BookOK(Book) /\ [TickNext]_tickVars => BookOK(Book)'
  <2> SUFFICES ASSUME BookOK(Book), [TickNext]_tickVars
               PROVE  BookOK(Book)'
    OBVIOUS
  <2>1. ASSUME NEW start \in Ticks, InitializeTickArray(start)
        PROVE  BookOK(Book)'
    BY <2>1, NewArrayKeepsBook
  <2>2. ASSUME NEW tick \in Ticks, NEW word \in Words, NEW delta \in Deltas,
               NEW is_upper \in BOOLEAN, UpdateTick(tick, word, delta, is_upper)
        PROVE  BookOK(Book)'
    <3>1. /\ UpdateTickOk(Book, tick, word, delta, is_upper)
          /\ Book' = AfterUpdateTick(Book, tick, delta, is_upper)
      BY <2>2, UpdateTickIsAfterUpdate
    <3>2. BookOK(AfterUpdateTick(Book, tick, delta, is_upper))
      BY <3>1, UpdateKeepsBook
    <3> QED
      BY <3>1, <3>2 DEF BookOK, BookTypeOK, BookLiveIffGross, BookBitmapSound, ArrayLive
  <2>3. ASSUME NEW start \in DOMAIN tick_arrays, NEW tick \in Ticks,
               NEW g0 \in FeeGrowths, NEW g1 \in FeeGrowths, CrossTick(start, tick, g0, g1)
        PROVE  BookOK(Book)'
    BY <2>3, CrossTickKeepsBook
  <2>4. CASE UNCHANGED tickVars
    BY <2>4 DEF tickVars, Book, BookOK, BookTypeOK, BookLiveIffGross, BookBitmapSound, ArrayLive
  <2> QED
    BY <2>1, <2>2, <2>3, <2>4 DEF TickNext
<1> QED
  BY <1>1, <1>2, PTL DEF TickSpec

\* Every state has well-typed accounts at legal array starts.
THEOREM TickTypeCorrect == TickSpec => []TickTypeOK
<1>1. BookOK(Book) => TickTypeOK
  BY DEF BookOK, TickTypeOK
<1> QED
  BY <1>1, BookAlwaysOK, PTL

\* The initialized flag agrees with the registered liquidity, and a dead tick
\* keeps no snapshot.
THEOREM LiveIffGrossCorrect == TickSpec => []LiveIffGross
<1>1. BookOK(Book) => LiveIffGross
  BY DEF BookOK, LiveIffGross
<1> QED
  BY <1>1, BookAlwaysOK, PTL

\* A bit that is on belongs to an existing array with a live tick.
THEOREM BitmapSoundCorrect == TickSpec => []BitmapSound
<1>1. BookOK(Book) => BitmapSound
  BY DEF BookOK, BitmapSound
<1> QED
  BY <1>1, BookAlwaysOK, PTL

\* A snapshot moves only in a crossing or when the tick changes life.
THEOREM SnapshotsMoveAloneCorrect == TickSpec => SnapshotsMoveAlone
<1>1. BookTypeOK(Book) /\ [TickNext]_tickVars => [SnapshotDiscipline]_tickVars
  <2> SUFFICES ASSUME BookTypeOK(Book), TickNext
               PROVE  SnapshotDiscipline
    OBVIOUS
  <2> DEFINE Quiet(old, new) ==
               old.initialized /\ new.initialized =>
                 \/ /\ new.fee_growth_outside_0 = old.fee_growth_outside_0
                    /\ new.fee_growth_outside_1 = old.fee_growth_outside_1
                 \/ /\ new.liquidity_gross = old.liquidity_gross
                    /\ new.liquidity_net = old.liquidity_net
  <2>1. SUFFICES \A s \in DOMAIN tick_arrays, i \in Slots :
                   Quiet(tick_arrays[s][i], tick_arrays'[s][i])
    BY DEF SnapshotDiscipline
  <2>2. \A s \in DOMAIN tick_arrays, i \in Slots : tick_arrays[s][i] \in TickData
    BY DEF BookTypeOK, Book
  <2>3. ASSUME NEW start \in Ticks, InitializeTickArray(start)
        PROVE  \A s \in DOMAIN tick_arrays, i \in Slots :
                 Quiet(tick_arrays[s][i], tick_arrays'[s][i])
    BY <2>3 DEF InitializeTickArray
  <2>4. ASSUME NEW tick \in Ticks, NEW word \in Words, NEW delta \in Deltas,
               NEW is_upper \in BOOLEAN, UpdateTick(tick, word, delta, is_upper)
        PROVE  \A s \in DOMAIN tick_arrays, i \in Slots :
                 Quiet(tick_arrays[s][i], tick_arrays'[s][i])
    <3>1. ASSUME NEW old \in TickData, GrossAfter(old.liquidity_gross, delta) \in U128
          PROVE  Quiet(old, UpdatedTick(old, delta, is_upper))
      <4> DEFINE new == UpdatedTick(old, delta, is_upper)
      <4> SUFFICES ASSUME old.initialized, new.initialized
                   PROVE  /\ new.fee_growth_outside_0 = old.fee_growth_outside_0
                          /\ new.fee_growth_outside_1 = old.fee_growth_outside_1
        BY Zenon
      <4>1. GrossAfter(old.liquidity_gross, delta) # 0
        BY <3>1, FlagAfterUpdate
      <4> QED
        BY <4>1, Zenon DEF UpdatedTick
    <3> DEFINE start == TickToArrayStart(tick)
               slot  == SlotOf(start, tick)
    <3>2. /\ UpdateTickOk(Book, tick, word, delta, is_upper)
          /\ AfterUpdateTick(Book, tick, delta, is_upper).arrays = tick_arrays'
          /\ Book.arrays = tick_arrays
      BY <2>4 DEF UpdateTick, AfterUpdateTick, Book
    <3>3. /\ start \in DOMAIN tick_arrays /\ slot \in Slots
          /\ GrossAfter(tick_arrays[start][slot].liquidity_gross, delta) \in U128
          /\ \A s \in DOMAIN tick_arrays, i \in Slots :
                tick_arrays'[s][i] =
                  IF s = start /\ i = slot
                    THEN UpdatedTick(tick_arrays[start][slot], delta, is_upper)
                    ELSE tick_arrays[s][i]
      BY <3>2, UpdateWrites
    <3> HIDE DEF start, slot
    <3> QED
      BY <3>1, <3>3, <2>2
  <2>5. ASSUME NEW start \in DOMAIN tick_arrays, NEW tick \in Ticks,
               NEW g0 \in FeeGrowths, NEW g1 \in FeeGrowths, CrossTick(start, tick, g0, g1)
        PROVE  \A s \in DOMAIN tick_arrays, i \in Slots :
                 Quiet(tick_arrays[s][i], tick_arrays'[s][i])
    <3>1. ASSUME NEW old \in TickData
          PROVE  Quiet(old, CrossedTick(old, g0, g1))
      BY <3>1 DEF CrossedTick, TickData
    <3> QED
      BY <3>1, <2>2, <2>5, CrossTickWrites
  <2> QED
    BY <2>3, <2>4, <2>5 DEF TickNext
<1> QED
  <2>1. BookOK(Book) => BookTypeOK(Book)
    BY DEF BookOK
  <2> QED
    BY <2>1, <1>1, BookAlwaysOK, PTL DEF TickSpec, SnapshotsMoveAlone
-------------------------------------------------------------------------------
(* get_next_initialized_tick: what it looks at, and in which order.            *)

Stride(zero_for_one) == IF zero_for_one THEN -TICK_SPACING ELSE TICK_SPACING
Reach == (MAX_TICK - MIN_TICK) \div TICK_SPACING + TICKS_PER_ARRAY
Beyond(t, c, zero_for_one) == IF zero_for_one THEN t < c ELSE t > c
NoFarther(t, u, zero_for_one) == IF zero_for_one THEN u <= t ELSE t <= u

\* The aligned ticks of an array that lie ahead.
AlignedAhead(s, c, zero_for_one) ==
    {t \in s .. s + ArraySize - 1 :
        (t - s) % TICK_SPACING = 0 /\ Beyond(t, c, zero_for_one)}

\* The ticks a search may start from: aligned, and no further from the array than
\* one step.
Origins(s) == {t \in s - TICK_SPACING .. s + ArraySize : ValidTickSpacing(t)}

LEMMA SearchTerms ==
    ASSUME NEW s \in ArrayStarts, NEW c \in Origins(s)
    PROVE  /\ TICK_SPACING \in Nat \ {0} /\ TICKS_PER_ARRAY \in Nat \ {0}
           /\ ArraySize = TICKS_PER_ARRAY * TICK_SPACING /\ ArraySize \in Nat \ {0}
           /\ Reach \in Nat /\ Reach >= TICKS_PER_ARRAY
           /\ s \in Int /\ c \in Int /\ s - TICK_SPACING <= c /\ c <= s + ArraySize
           /\ \E x \in Int : s = TICK_SPACING * x
           /\ \E y \in Int : c = TICK_SPACING * y
<1>1. /\ TICK_SPACING \in Nat \ {0} /\ TICKS_PER_ARRAY \in Nat \ {0}
      /\ ArraySize = TICKS_PER_ARRAY * TICK_SPACING /\ ArraySize \in Nat \ {0}
  BY TickAssumption, ArraySizePositive DEF ArraySize
<1> HIDE DEF ArraySize
<1>2. s \in Int /\ c \in Int /\ s - TICK_SPACING <= c /\ c <= s + ArraySize
  BY <1>1, TickAssumption DEF ArrayStarts, Ticks, Origins
<1>3. Reach \in Nat /\ Reach >= TICKS_PER_ARRAY
  <2>1. MAX_TICK - MIN_TICK \in Nat
    BY TickAssumption
  <2>2. (MAX_TICK - MIN_TICK) \div TICK_SPACING \in Nat
    BY <1>1, <2>1, DivNat
  <2> QED
    BY <1>1, <2>2 DEF Reach
<1>4. ValidTickSpacing(s)
  <2>1. 0 \in Slots /\ s + 0 * TICK_SPACING = s
    BY <1>1, <1>2 DEF Slots
  <2> QED
    BY <2>1, SlotTick
<1> QED
  BY <1>1, <1>2, <1>3, <1>4, AlignedIsMultiple DEF Origins

\* A step into the array lands on one of them ...
LEMMA StepsLandAhead ==
    ASSUME NEW s \in ArrayStarts, NEW c \in Origins(s), NEW zero_for_one \in BOOLEAN,
           NEW k \in 1 .. Reach, NEW t, t = c + k * Stride(zero_for_one), HasTick(s, t)
    PROVE  t \in AlignedAhead(s, c, zero_for_one)
<1> DEFINE P == TICK_SPACING
           A == ArraySize
<1>1. P \in Nat \ {0} /\ A \in Nat \ {0} /\ s \in Int /\ c \in Int /\ k \in Int /\ k > 0
  BY SearchTerms
<1>2. PICK x \in Int, y \in Int : s = P * x /\ c = P * y
  BY SearchTerms
<1> HIDE DEF P, A
<1>3. k * P \in Int /\ k * (-P) = -(k * P) /\ k * P > 0
  BY <1>1
<1>4. t \in Int /\ t = IF zero_for_one THEN c - k * P ELSE c + k * P
  BY <1>1, <1>3 DEF Stride, P
<1>5. t \in s .. s + A - 1 /\ Beyond(t, c, zero_for_one)
  BY <1>1, <1>3, <1>4 DEF HasTick, A, Beyond
<1> DEFINE z == IF zero_for_one THEN y - k - x ELSE y + k - x
           d == t - s
<1>6. z \in Int /\ d = P * z /\ d \in Int
  <2>1. P * x \in Int /\ P * y \in Int /\ P * k = k * P
    BY <1>1
  <2>2. P * (y - k - x) = P * y - P * k - P * x /\ P * (y + k - x) = P * y + P * k - P * x
    BY <1>1
  <2> QED
    BY <1>1, <1>2, <1>3, <1>4, <2>1, <2>2
<1> HIDE DEF z, d
<1>7. d % P = 0
  BY <1>1, <1>6, MultipleMod
<1> QED
  BY <1>5, <1>7 DEF AlignedAhead, P, A, d

\* ... and each of them is landed on before the search gives up.
LEMMA AheadIsReached ==
    ASSUME NEW s \in ArrayStarts, NEW c \in Origins(s), NEW zero_for_one \in BOOLEAN,
           NEW t \in AlignedAhead(s, c, zero_for_one)
    PROVE  HasTick(s, t) /\ \E k \in 1 .. Reach : t = c + k * Stride(zero_for_one)
<1> DEFINE P == TICK_SPACING
           N == TICKS_PER_ARRAY
           A == ArraySize
           d == t - s
<1>1. /\ P \in Nat \ {0} /\ N \in Nat \ {0} /\ A = N * P /\ A \in Nat \ {0}
      /\ s \in Int /\ c \in Int /\ s - P <= c /\ c <= s + A
      /\ Reach \in Nat /\ Reach >= N
  BY SearchTerms
<1>2. PICK x \in Int, y \in Int : s = P * x /\ c = P * y
  BY SearchTerms
<1>3. t \in s .. s + A - 1 /\ d % P = 0 /\ Beyond(t, c, zero_for_one)
  BY DEF AlignedAhead
<1> HIDE DEF P, N, A, d
<1>4. t \in Int /\ d \in Int /\ HasTick(s, t)
  BY <1>1, <1>3 DEF HasTick, A, d
<1>5. PICK z \in Int : d = P * z
  BY <1>1, <1>3, <1>4, MultipleMod
<1> DEFINE k == IF zero_for_one THEN y - x - z ELSE z + x - y
<1>6. k \in Int /\ k * P = IF zero_for_one THEN c - t ELSE t - c
  <2>1. P * x \in Int /\ P * y \in Int /\ P * z \in Int
    BY <1>1
  <2>2. (y - x - z) * P = P * y - P * x - P * z /\ (z + x - y) * P = P * z + P * x - P * y
    BY <1>1
  <2> QED
    BY <1>1, <1>2, <1>4, <1>5, <2>1, <2>2 DEF d
<1> HIDE DEF k
<1>7. t = c + k * Stride(zero_for_one)
  <2>1. k * P \in Int /\ k * (-P) = -(k * P)
    BY <1>1, <1>6
  <2> QED
    BY <1>1, <1>4, <1>6, <2>1 DEF Stride, P
<1>8. 0 < k /\ k < N + 1
  <2>1. (N + 1) * P = A + P /\ 0 * P = 0
    BY <1>1
  <2>2. k * P > 0 * P /\ k * P < (N + 1) * P
    BY <1>1, <1>3, <1>4, <1>6, <2>1 DEF Beyond
  <2> QED
    BY <1>1, <1>6, <2>2, MultiplesOrder
<1>9. k \in 1 .. Reach
  BY <1>1, <1>6, <1>8
<1> QED
  BY <1>4, <1>7, <1>9

\* An earlier step is a nearer tick.
LEMMA StepsInOrder ==
    ASSUME NEW c \in Int, NEW k \in Int, NEW g \in Int, NEW zero_for_one \in BOOLEAN
    PROVE  k <= g <=> NoFarther(c + k * Stride(zero_for_one),
                                c + g * Stride(zero_for_one), zero_for_one)
<1>1. TICK_SPACING \in Nat \ {0}
  BY TickAssumption
<1> DEFINE P == TICK_SPACING
<1> HIDE DEF P
<1>2. /\ k * P \in Int /\ k * (-P) = -(k * P) /\ g * P \in Int /\ g * (-P) = -(g * P)
      /\ k <= g <=> k * P <= g * P
  BY <1>1, MultiplesOrder DEF P
<1> QED
  BY <1>2 DEF Stride, NoFarther, P

\* The search: the first step that hits is the nearest live tick.
LEMMA SearchIsExact == TickTypeOK => NextTickExact
<1> SUFFICES ASSUME TickTypeOK, NEW s \in DOMAIN tick_arrays, NEW zero_for_one \in BOOLEAN,
                    NEW c \in Origins(s)
             PROVE  LET ahead == {t \in s .. s + ArraySize - 1 :
                           /\ (t - s) % TICK_SPACING = 0
                           /\ tick_arrays[s][SlotOf(s, t)].initialized
                           /\ IF zero_for_one THEN t < c ELSE t > c}
                    IN  NextInitializedTick(s, c, zero_for_one) =
                          {t \in ahead : \A u \in ahead :
                              IF zero_for_one THEN u <= t ELSE t <= u}
  BY DEF NextTickExact, Origins
<1> DEFINE step == Stride(zero_for_one)
           on(t) == tick_arrays[s][SlotOf(s, t)].initialized
           ahead == {t \in AlignedAhead(s, c, zero_for_one) : on(t)}
           hits == {k \in 1 .. Reach : HasTick(s, c + k * step) /\ on(c + k * step)}
           first == {h \in hits : \A g \in hits : h <= g}
           nearest == {t \in ahead : \A u \in ahead : NoFarther(t, u, zero_for_one)}
<1>1. s \in ArrayStarts
  BY DEF TickTypeOK, BookTypeOK, Book
<1>2. c \in Int /\ Reach \in Nat
  BY <1>1, SearchTerms
<1>3. \A k \in hits : k \in Int /\ c + k * step \in ahead
  <2> SUFFICES ASSUME NEW k \in hits PROVE k \in Int /\ c + k * step \in ahead
    OBVIOUS
  <2>1. k \in 1 .. Reach /\ HasTick(s, c + k * step) /\ on(c + k * step)
    OBVIOUS
  <2>2. c + k * step \in AlignedAhead(s, c, zero_for_one)
    BY <1>1, <2>1, StepsLandAhead
  <2> HIDE DEF step, on
  <2> QED
    BY <1>2, <2>1, <2>2
<1>4. \A t \in ahead : \E k \in hits : t = c + k * step
  <2> SUFFICES ASSUME NEW t \in AlignedAhead(s, c, zero_for_one), on(t)
               PROVE  \E k \in hits : t = c + k * step
    OBVIOUS
  <2>1. PICK k \in 1 .. Reach : HasTick(s, t) /\ t = c + k * step
    BY <1>1, AheadIsReached
  <2> HIDE DEF step, on
  <2> QED
    BY <2>1
<1>5. \A k, g \in hits : k <= g <=> NoFarther(c + k * step, c + g * step, zero_for_one)
  BY <1>2, <1>3, StepsInOrder
<1> HIDE DEF step, on, ahead, hits
<1>6. {c + k * step : k \in first} = nearest
  <2>1. ASSUME NEW h \in first PROVE c + h * step \in nearest
    <3>1. h \in hits /\ \A g \in hits : h <= g
      OBVIOUS
    <3>2. ASSUME NEW u \in ahead PROVE NoFarther(c + h * step, u, zero_for_one)
      <4>1. PICK g \in hits : u = c + g * step
        BY <1>4
      <4> QED
        BY <1>5, <3>1, <4>1
    <3> QED
      BY <1>3, <3>1, <3>2
  <2>2. ASSUME NEW t \in nearest PROVE \E h \in first : t = c + h * step
    <3>1. t \in ahead /\ \A u \in ahead : NoFarther(t, u, zero_for_one)
      OBVIOUS
    <3>2. PICK h \in hits : t = c + h * step
      BY <1>4, <3>1
    <3>3. ASSUME NEW g \in hits PROVE h <= g
      BY <1>3, <1>5, <3>1, <3>2
    <3> QED
      BY <3>2, <3>3
  <2> QED
    BY <2>1, <2>2
<1>7. NextInitializedTick(s, c, zero_for_one) = {c + k * step : k \in first}
  BY DEF NextInitializedTick, step, hits, on, Stride, Reach
<1>8. ahead = {t \in s .. s + ArraySize - 1 :
                  /\ (t - s) % TICK_SPACING = 0
                  /\ tick_arrays[s][SlotOf(s, t)].initialized
                  /\ IF zero_for_one THEN t < c ELSE t > c}
  BY DEF ahead, on, AlignedAhead, Beyond
<1> QED
  BY <1>6, <1>7, <1>8 DEF NoFarther

\* From an aligned tick the search finds the nearest live tick of the array, for
\* every spacing and array size, and fails only when there is none.
THEOREM NextTickExactCorrect == TickSpec => []NextTickExact
BY SearchIsExact, TickTypeCorrect, PTL

===============================================================================
