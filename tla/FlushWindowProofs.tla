-------------------------- MODULE FlushWindowProofs --------------------------
(***************************************************************************)
(* The window of FlushWindow, for all periods, limits and answer times.    *)
(***************************************************************************)
EXTENDS FlushWindow, FiniteSetTheorems, WellFoundedInduction, TLAPS

-----------------------------------------------------------------------------
(* The invariant                                                           *)

(* Messages that carry a marked row go to the table of that row.           *)
AtHome == {msg \in Message : \A m \in msg.mark : Home[m] = msg.table}

WindowTyped ==
    /\ chan \in Seq(AtHome)
    /\ ticker \in 0 .. MaxSecs
    /\ at \in [Mark -> Place]
    /\ since \in [Mark -> Nat]

(* A flush takes every buffered row, and nothing is received during one.   *)
NoneBufferedInFlush == stage # "select" => \A m \in Mark : at[m] # "buf"

(* A tick that finds the buffers empty passes no buffered row by.          *)
BufferedInFilled == \A m \in Mark : at[m] = "buf" => Home[m] \in filled

WindowInv ==
    WindowTyped /\ NoneBufferedInFlush /\ BufferedInFilled /\ BufferedWithinWindow

-----------------------------------------------------------------------------
(* Rows that move                                                          *)

LEMMA MoveTyped ==
  ASSUME WindowTyped, NEW S, NEW place \in Place, Move(S, place)
  PROVE  /\ at' \in [Mark -> Place] /\ since' \in [Mark -> Nat]
         /\ \A m \in Mark : m \in S => at'[m] = place /\ since'[m] = 0
         /\ \A m \in Mark : m \notin S => at'[m] = at[m] /\ since'[m] = since[m]
  BY DEF Move, WindowTyped

(* A flush empties the buffers: what follows does not depend on the rest.  *)
LEMMA FlushEmpties ==
  ASSUME WindowInv, NEW S, NEW tables, StartFlush(tables, S),
         \A m \in Mark : at[m] = "buf" => m \in S,
         chan' \in Seq(AtHome), ticker' \in 0 .. MaxSecs
  PROVE  WindowInv'
  <1>1. WindowTyped /\ Move(S, "batch") /\ "batch" \in Place
    BY DEF StartFlush, WindowInv, Place
  <1>2. WindowTyped' /\ \A m \in Mark : at'[m] # "buf"
    BY <1>1, MoveTyped DEF WindowTyped
  <1> QED BY <1>2 DEF WindowInv, NoneBufferedInFlush, BufferedInFilled,
                      BufferedWithinWindow

(* During a flush the window is not at stake: no row is buffered then, or  *)
(* by a step that buffers none.                                            *)
LEMMA FlushContinues ==
  ASSUME WindowInv, stage # "select", UNCHANGED chan, ticker' \in {ticker, MaxSecs},
         since' \in [Mark -> Nat], at' \in [Mark -> Place],
         \A m \in Mark : at'[m] = "buf" => at[m] = "buf"
  PROVE  WindowInv'
  <1>1. \A m \in Mark : at'[m] # "buf"
    BY DEF WindowInv, NoneBufferedInFlush
  <1>2. MaxSecs \in 0 .. MaxSecs
    BY WindowAssumption
  <1>3. WindowTyped'
    BY <1>2 DEF WindowInv, WindowTyped
  <1> QED BY <1>1, <1>3 DEF WindowInv, NoneBufferedInFlush, BufferedInFilled,
                            BufferedWithinWindow

-----------------------------------------------------------------------------
(* The steps                                                               *)

LEMMA WindowInit == Init => WindowInv
  <1> SUFFICES ASSUME Init PROVE WindowInv
    OBVIOUS
  <1>1. chan \in Seq(AtHome)
    BY DEF Init
  <1>2. ticker \in 0 .. MaxSecs
    BY WindowAssumption DEF Init
  <1>3. at \in [Mark -> Place] /\ since \in [Mark -> Nat]
    BY DEF Init, Place
  <1>4. \A m \in Mark : at[m] # "buf"
    BY DEF Init
  <1> QED BY <1>1, <1>2, <1>3, <1>4 DEF WindowInv, WindowTyped, NoneBufferedInFlush,
                                       BufferedInFilled, BufferedWithinWindow

LEMMA PublishKeeps ==
  ASSUME WindowInv, NEW msg \in Message, Publish(msg)
  PROVE  WindowInv'
  <1>1. msg \in AtHome
    <2>1. msg.mark \subseteq Mark
      BY DEF Message
    <2> QED BY <2>1 DEF Publish, AtHome
  <1>2. chan' \in Seq(AtHome)
    BY <1>1 DEF Publish, WindowInv, WindowTyped
  <1>3. WindowTyped /\ Move(msg.mark, "chan") /\ "chan" \in Place
    BY DEF Publish, WindowInv, Place
  <1>4. /\ at' \in [Mark -> Place] /\ since' \in [Mark -> Nat]
        /\ \A m \in Mark : at'[m] = "buf" => at[m] = "buf" /\ since'[m] = since[m]
    BY <1>3, MoveTyped
  <1>5. UNCHANGED <<filled, stage, ticker>>
    BY DEF Publish, batcher
  <1> QED BY <1>2, <1>3, <1>4, <1>5 DEF WindowInv, WindowTyped, NoneBufferedInFlush,
                                       BufferedInFilled, BufferedWithinWindow

LEMMA RecvKeeps ==
  ASSUME WindowInv, Recv
  PROVE  WindowInv'
  <1> DEFINE msg == Head(chan)
             n == IF msg.table = "sensor_raw" THEN sensor + 1 ELSE sensor
  <1>1. msg \in AtHome /\ chan' \in Seq(AtHome)
    BY DEF Recv, WindowInv, WindowTyped
  <1>2. WindowTyped /\ ticker \in 0 .. MaxSecs
    BY DEF WindowInv, WindowTyped
  <1>3. CASE /\ StartFlush(filled \cup {msg.table}, msg.mark \cup {m \in Mark : at[m] = "buf"})
             /\ UNCHANGED ticker
    BY <1>1, <1>2, <1>3, FlushEmpties
  <1>4. CASE /\ filled' = filled \cup {msg.table}
             /\ ticker' = TickerAfterRecv
             /\ Move(msg.mark, "buf")
             /\ UNCHANGED stage
    <2>1. "buf" \in Place
      BY DEF Place
    <2>2. /\ at' \in [Mark -> Place] /\ since' \in [Mark -> Nat]
          /\ \A m \in Mark : m \in msg.mark => since'[m] = 0
          /\ \A m \in Mark : m \notin msg.mark => at'[m] = at[m] /\ since'[m] = since[m]
      BY <1>2, <1>4, <2>1, MoveTyped
    <2>3. ticker' = ticker
      BY <1>4 DEF TickerAfterRecv
    <2>4. WindowTyped'
      BY <1>1, <1>2, <2>2, <2>3 DEF WindowTyped
    <2>5. NoneBufferedInFlush'
      BY <1>4 DEF Recv, NoneBufferedInFlush
    <2>6. BufferedInFilled'
      BY <1>1, <1>4, <2>2 DEF WindowInv, BufferedInFilled, AtHome
    <2>7. BufferedWithinWindow'
      BY <1>2, <2>2, <2>3 DEF WindowInv, BufferedWithinWindow
    <2> QED BY <2>4, <2>5, <2>6, <2>7 DEF WindowInv
  <1> QED BY <1>3, <1>4 DEF Recv

LEMMA TickKeeps ==
  ASSUME WindowInv, Tick
  PROVE  WindowInv'
  <1>1. chan' \in Seq(AtHome) /\ ticker' = MaxSecs /\ MaxSecs \in 0 .. MaxSecs
    BY WindowAssumption DEF Tick, WindowInv, WindowTyped
  <1>2. CASE StartFlush(filled, {m \in Mark : at[m] = "buf"})
    BY <1>1, <1>2, FlushEmpties
  <1>3. CASE ~TickFlushes /\ UNCHANGED <<filled, stage, marks>>
    <2>1. filled = {}
      BY <1>3 DEF TickFlushes
    <2>2. \A m \in Mark : at[m] # "buf"
      BY <2>1 DEF WindowInv, BufferedInFilled
    <2>3. at' = at /\ since' = since
      BY <1>3 DEF marks
    <2>4. WindowTyped'
      BY <1>1, <2>3 DEF WindowInv, WindowTyped
    <2> QED BY <2>2, <2>3, <2>4 DEF WindowInv, NoneBufferedInFlush, BufferedInFilled,
                                    BufferedWithinWindow
  <1> QED BY <1>2, <1>3 DEF Tick

LEMMA InsertKeeps ==
  ASSUME WindowInv, InsertOk \/ InsertErr \/ SleepRetry \/ SleepDrop
  PROVE  WindowInv'
  <1>0. /\ WindowTyped /\ ticker \in {ticker, MaxSecs}
        /\ at \in [Mark -> Place] /\ since \in [Mark -> Nat]
    BY DEF WindowInv, WindowTyped
  <1>1. stage # "select"
    BY DEF InsertOk, InsertErr, SleepRetry, SleepDrop, Table
  <1>2. CASE InsertErr \/ SleepRetry
    <2>1. UNCHANGED <<chan, ticker, at, since>>
      BY <1>2 DEF InsertErr, SleepRetry, marks
    <2> QED BY <1>0, <1>1, <2>1, FlushContinues
  <1>3. CASE InsertOk \/ SleepDrop
    <2>1. /\ chan' = chan /\ ticker' \in {ticker, MaxSecs}
          /\ Move(In("batch", stage), "done") /\ "done" \in Place
      BY <1>3 DEF InsertOk, SleepDrop, Advance, Place
    <2>2. /\ at' \in [Mark -> Place] /\ since' \in [Mark -> Nat]
          /\ \A m \in Mark : at'[m] = "buf" => at[m] = "buf"
      BY <1>0, <2>1, MoveTyped
    <2> QED BY <1>1, <2>1, <2>2, FlushContinues
  <1> QED BY <1>2, <1>3

(* Time passes in the select only while the interval runs: what a buffered *)
(* row ages, the interval loses.                                           *)
LEMMA ElapseKeeps ==
  ASSUME WindowInv, Elapse
  PROVE  WindowInv'
  <1>1. UNCHANGED <<chan, filled, stage, at>>
    BY DEF Elapse
  <1>2. /\ since' \in [Mark -> Nat]
        /\ \A m \in Mark : since'[m] \in {since[m], since[m] + 1}
    BY DEF Elapse, Older, WindowInv, WindowTyped
  <1>3. ticker' \in 0 .. MaxSecs
    BY WindowAssumption DEF Elapse, WindowInv, WindowTyped
  <1>4. stage = "select" => ticker > 0 /\ ticker' = ticker - 1
    BY DEF Elapse
  <1>5. WindowTyped'
    BY <1>1, <1>2, <1>3 DEF WindowInv, WindowTyped
  <1>6. ASSUME NEW m \in Mark, at'[m] = "buf"
        PROVE  since'[m] + ticker' <= MaxSecs
    <2>1. at[m] = "buf" /\ stage = "select"
      BY <1>1, <1>6 DEF WindowInv, NoneBufferedInFlush
    <2>2. since[m] + ticker <= MaxSecs
      BY <2>1 DEF WindowInv, BufferedWithinWindow
    <2>3. /\ since[m] \in Nat /\ ticker \in Nat /\ ticker' = ticker - 1
          /\ since'[m] \in {since[m], since[m] + 1}
      BY <1>2, <1>4, <2>1 DEF WindowInv, WindowTyped
    <2> QED BY <2>2, <2>3, WindowAssumption
  <1> QED BY <1>1, <1>5, <1>6 DEF WindowInv, NoneBufferedInFlush, BufferedInFilled,
                                  BufferedWithinWindow

LEMMA WindowStep == WindowInv /\ [Next]_vars => WindowInv'
  <1> SUFFICES ASSUME WindowInv, [Next]_vars PROVE WindowInv'
    OBVIOUS
  <1>1. CASE UNCHANGED vars
    BY <1>1 DEF vars, batcher, marks, WindowInv, WindowTyped, NoneBufferedInFlush,
                BufferedInFilled, BufferedWithinWindow
  <1>2. ASSUME NEW msg \in Message, Publish(msg) PROVE WindowInv'
    BY <1>2, PublishKeeps
  <1>3. CASE Recv
    BY <1>3, RecvKeeps
  <1>4. CASE Tick
    BY <1>4, TickKeeps
  <1>5. CASE InsertOk \/ InsertErr \/ SleepRetry \/ SleepDrop
    BY <1>5, InsertKeeps
  <1>6. CASE Elapse
    BY <1>6, ElapseKeeps
  <1> QED BY <1>1, <1>2, <1>3, <1>4, <1>5, <1>6 DEF Next

-----------------------------------------------------------------------------
(* Once received, a row waits at most BATCH_MAX_SECS for its flush to      *)
(* start (main.rs:230-262), however long inserts and retries take and      *)
(* however many flushes by size come between.                              *)
THEOREM BufferedWithinWindowHolds == Spec => []BufferedWithinWindow
  <1>1. WindowInv => BufferedWithinWindow
    BY DEF WindowInv
  <1> QED BY WindowInit, WindowStep, <1>1, PTL DEF Spec

-----------------------------------------------------------------------------
(* Powers of two                                                           *)

(* A set of naturals that is not empty has a smallest element.             *)
LEMMA SmallestNat ==
  ASSUME NEW S \in SUBSET Nat, S # {}
  PROVE  \E x \in S : \A y \in S : x <= y
  <1> DEFINE less == OpToRel(<, Nat)
  <1>1. PICK x \in S : \A y \in S : <<y, x>> \notin less
    <2>1. IsWellFoundedOn(less, Nat)
      BY NatLessThanWellFounded
    <2> HIDE DEF less
    <2> QED BY <2>1, WFMin
  <1>2. \A y \in S : ~ (y < x)
    BY <1>1 DEF OpToRel
  <1>3. \A y \in S : x <= y
    BY <1>2
  <1> QED BY <1>3

(* The powers up to k.                                                     *)
PowersUpTo(k, g) == /\ g \in [0 .. k -> Nat] /\ g[0] = 1
                    /\ \A i \in 1 .. k : g[i] = 2 * g[i - 1]

LEMMA PowersExist == \A k \in Nat : \E g : PowersUpTo(k, g)
  <1> DEFINE bad == {k \in Nat : ~ \E g : PowersUpTo(k, g)}
  <1> SUFFICES ASSUME bad # {} PROVE FALSE
    OBVIOUS
  <1>1. PICK x \in bad : \A y \in bad : x <= y
    BY SmallestNat
  <1>2. x # 0
    <2>1. PowersUpTo(0, [i \in 0 .. 0 |-> 1])
      BY DEF PowersUpTo
    <2> QED BY <1>1, <2>1
  <1>3. x \in Nat /\ x - 1 \in Nat /\ x - 1 \notin bad
    BY <1>1, <1>2
  <1>4. PICK g : PowersUpTo(x - 1, g)
    BY <1>3
  <1> DEFINE h == [i \in 0 .. x |-> IF i = x THEN 2 * g[x - 1] ELSE g[i]]
  <1>5. PowersUpTo(x, h)
    <2>1. \A i \in 0 .. x : i = x \/ i \in 0 .. x - 1
      BY <1>3
    <2>2. \A i \in 1 .. x : i - 1 \in 0 .. x - 1 /\ i - 1 # x /\ i - 1 \in 0 .. x
      BY <1>3
    <2>3. g \in [0 .. x - 1 -> Nat] /\ g[x - 1] \in Nat
      BY <1>3, <1>4 DEF PowersUpTo
    <2>4. h \in [0 .. x -> Nat]
      BY <2>1, <2>3
    <2>5. h[0] = 1
      BY <1>2, <1>3, <1>4 DEF PowersUpTo
    <2>6. \A i \in 1 .. x : h[i - 1] = g[i - 1]
      BY <2>2
    <2>7. \A i \in 1 .. x : h[i] = 2 * h[i - 1]
      <3> TAKE i \in 1 .. x
      <3>1. CASE i = x
        BY <1>3, <2>6, <3>1
      <3>2. CASE i # x
        <4>1. i \in 1 .. x - 1 /\ i \in 0 .. x
          BY <1>3, <3>2
        <4> QED BY <1>4, <2>6, <3>2, <4>1 DEF PowersUpTo
      <3> QED BY <3>1, <3>2
    <2> QED BY <2>4, <2>5, <2>7 DEF PowersUpTo
  <1> QED BY <1>1, <1>5

LEMMA PowersUnique ==
  ASSUME NEW k \in Nat, NEW l \in Nat, NEW g, NEW h, PowersUpTo(k, g), PowersUpTo(l, h)
  PROVE  \A i \in Nat : i <= k /\ i <= l => g[i] = h[i]
  <1> DEFINE bad == {i \in Nat : i <= k /\ i <= l /\ g[i] # h[i]}
  <1> SUFFICES ASSUME bad # {} PROVE FALSE
    OBVIOUS
  <1>1. PICK x \in bad : \A y \in bad : x <= y
    BY SmallestNat
  <1>2. x # 0
    BY <1>1 DEF PowersUpTo
  <1>3. x \in 1 .. k /\ x \in 1 .. l /\ x - 1 \in Nat /\ x - 1 <= k /\ x - 1 <= l
    BY <1>1, <1>2
  <1>4. x - 1 \notin bad
    BY <1>1, <1>3
  <1>5. g[x - 1] = h[x - 1]
    BY <1>3, <1>4
  <1>6. g[x] = 2 * g[x - 1] /\ h[x] = 2 * h[x - 1]
    BY <1>3 DEF PowersUpTo
  <1> QED BY <1>1, <1>5, <1>6

(* The recursive function is what its definition says.                     *)
LEMMA TwoPowSteps ==
  /\ TwoPow[0] = 1
  /\ \A n \in Nat : TwoPow[n] \in Nat \ {0} /\ TwoPow[n + 1] = 2 * TwoPow[n]
  <1> DEFINE upto(k) == CHOOSE g : PowersUpTo(k, g)
             f == [n \in Nat |-> upto(n)[n]]
             body(F) == [n \in Nat |-> IF n = 0 THEN 1 ELSE 2 * F[n - 1]]
  <1>1. \A k \in Nat : PowersUpTo(k, upto(k))
    BY PowersExist
  <1>2. \A n \in Nat : f[n] = upto(n)[n]
    OBVIOUS
  <1>3. f[0] = 1
    BY <1>1, <1>2 DEF PowersUpTo
  <1>4. \A n \in Nat : n # 0 => f[n] = 2 * f[n - 1]
    <2> TAKE n \in Nat
    <2> HAVE n # 0
    <2>1. n - 1 \in Nat /\ n \in 1 .. n /\ n - 1 <= n /\ n - 1 <= n - 1
      OBVIOUS
    <2>2. PowersUpTo(n, upto(n)) /\ PowersUpTo(n - 1, upto(n - 1))
      BY <1>1, <2>1
    <2> HIDE DEF upto
    <2>3. upto(n)[n] = 2 * upto(n)[n - 1]
      BY <2>1, <2>2 DEF PowersUpTo
    <2>4. upto(n)[n - 1] = upto(n - 1)[n - 1]
      BY <2>1, <2>2, PowersUnique
    <2> QED BY <1>2, <2>1, <2>3, <2>4
  <1>5. f = body(f)
    <2>1. \A n \in Nat : f[n] = IF n = 0 THEN 1 ELSE 2 * f[n - 1]
      BY <1>3, <1>4
    <2>2. f = [n \in Nat |-> f[n]]
      OBVIOUS
    <2> HIDE DEF f
    <2> QED BY <2>1, <2>2
  <1> HIDE DEF f
  <1>6. \E F : F = body(F)
    BY <1>5
  <1>7. TwoPow = body(TwoPow)
    BY <1>6 DEF TwoPow
  <1>8. TwoPow[0] = 1 /\ \A n \in Nat : n # 0 => TwoPow[n] = 2 * TwoPow[n - 1]
    <2> HIDE DEF TwoPow
    <2>1. \A n \in Nat : TwoPow[n] = IF n = 0 THEN 1 ELSE 2 * TwoPow[n - 1]
      BY <1>7
    <2> QED BY <2>1
  <1> HIDE DEF body
  <1>9. \A n \in Nat : TwoPow[n] \in Nat \ {0}
    <2> DEFINE bad == {n \in Nat : TwoPow[n] \notin Nat \ {0}}
    <2> SUFFICES ASSUME bad # {} PROVE FALSE
      OBVIOUS
    <2>1. PICK x \in bad : \A y \in bad : x <= y
      BY SmallestNat
    <2>2. x # 0
      BY <1>8, <2>1
    <2>3. x - 1 \in Nat /\ x - 1 \notin bad
      BY <2>1, <2>2
    <2>4. TwoPow[x] = 2 * TwoPow[x - 1] /\ TwoPow[x - 1] \in Nat \ {0}
      BY <1>8, <2>1, <2>2, <2>3
    <2> QED BY <2>1, <2>4
  <1>10. \A n \in Nat : TwoPow[n + 1] = 2 * TwoPow[n]
    <2> TAKE n \in Nat
    <2>1. n + 1 \in Nat /\ n + 1 # 0 /\ (n + 1) - 1 = n
      OBVIOUS
    <2> QED BY <1>8, <2>1
  <1> QED BY <1>8, <1>9, <1>10

LEMMA TwoPowGrows ==
  ASSUME NEW i \in Nat, NEW j \in Nat, i <= j
  PROVE  TwoPow[i] <= TwoPow[j]
  <1> DEFINE bad == {k \in Nat : i <= k /\ ~ (TwoPow[i] <= TwoPow[k])}
  <1> SUFFICES ASSUME bad # {} PROVE FALSE
    OBVIOUS
  <1>1. PICK x \in bad : \A y \in bad : x <= y
    BY SmallestNat
  <1>2. x # i
    BY <1>1, TwoPowSteps
  <1>3. x - 1 \in Nat /\ i <= x - 1 /\ x - 1 \notin bad /\ (x - 1) + 1 = x
    BY <1>1, <1>2
  <1>4. TwoPow[i] <= TwoPow[x - 1] /\ TwoPow[x] = 2 * TwoPow[x - 1]
    BY <1>3, TwoPowSteps
  <1>5. TwoPow[i] \in Nat /\ TwoPow[x - 1] \in Nat
    BY <1>3, TwoPowSteps
  <1>6. TwoPow[i] <= TwoPow[x]
    BY <1>4, <1>5
  <1> QED BY <1>1, <1>6

(* Products, so that no other proof needs to multiply.                     *)
LEMMA Products ==
  ASSUME NEW i \in Nat, NEW j \in Nat, NEW t \in Nat
  PROVE  /\ i * t \in Nat /\ 0 * t = 0 /\ 1 * t = t
         /\ (i + j) * t = i * t + j * t
         /\ (i + 1) * t = i * t + t
  OBVIOUS

LEMMA ProductGrows ==
  ASSUME NEW i \in Nat, NEW j \in Nat, NEW t \in Nat, i <= j
  PROVE  i * t <= j * t
  <1>1. PICK d \in Nat : j = i + d
    <2>1. j - i \in Nat /\ j = i + (j - i)
      OBVIOUS
    <2> QED BY <2>1
  <1>2. j * t = i * t + d * t /\ i * t \in Nat /\ d * t \in Nat
    BY <1>1, Products
  <1> QED BY <1>2

-----------------------------------------------------------------------------
(* Types                                                                   *)

ChanTyped  == chan \in Seq(Message) /\ Len(chan) <= ChanCap + 1
MarksTyped == /\ at \in [Mark -> Place]
              /\ since \in [Mark -> 0 .. MaxAge] /\ age \in [Mark -> 0 .. MaxAge]

(* The timer is bounded by what it measures; during a flush the buffers    *)
(* are empty.                                                              *)
BatcherTyped ==
    /\ sensor \in 0 .. MaxRows - 1
    /\ filled \subseteq Kinds /\ todo \subseteq Kinds
    /\ bySize \in BOOLEAN
    /\ stage \in Kinds \cup {"select"}
    /\ stage = "select" <=> todo = {}
    /\ stage # "select" => stage \in todo /\ filled = {}
    /\ phase \in {"try", "sleep"}
    /\ attempt \in 1 .. InsertRetries
    /\ timer \in Nat
    /\ phase = "try" => timer <= MaxAnswer
    /\ phase = "sleep" => timer <= Backoff(attempt)
    /\ ticker \in 0 .. MaxSecs

TypeInv == ChanTyped /\ MarksTyped /\ BatcherTyped

LEMMA BackoffGrows ==
  ASSUME NEW n \in 1 .. InsertRetries
  PROVE  /\ Backoff(n) \in Nat \ {0} /\ Backoff(n) <= Backoff(InsertRetries)
         /\ TwoPow[n] = 2 * Backoff(n)
  <1>1. n - 1 \in Nat /\ InsertRetries - 1 \in Nat /\ n - 1 <= InsertRetries - 1
        /\ (n - 1) + 1 = n
    BY WindowAssumption
  <1>2. TwoPow[n - 1] <= TwoPow[InsertRetries - 1]
    BY <1>1, TwoPowGrows
  <1> QED BY <1>1, <1>2, TwoPowSteps DEF Backoff

LEMMA FirstTableOf ==
  ASSUME NEW s, s \subseteq Kinds, s # {}
  PROVE  FirstTable(s) \in s /\ FirstTable(s) # "select"
  BY WindowAssumption DEF FirstTable, Table

LEMMA MoveKeepsTypes ==
  ASSUME MarksTyped, NEW S, NEW place \in Place, Move(S, place)
  PROVE  MarksTyped'
  <1>1. 0 \in 0 .. MaxAge
    BY WindowAssumption
  <1> QED BY <1>1 DEF Move, MarksTyped

LEMMA FlushKeepsTypes ==
  ASSUME BatcherTyped, MarksTyped, NEW S, NEW tables \in SUBSET Kinds, tables # {},
         StartFlush(tables, S), bySize' \in BOOLEAN, ticker' \in 0 .. MaxSecs
  PROVE  BatcherTyped' /\ MarksTyped'
  <1>1. MarksTyped'
    BY MoveKeepsTypes DEF StartFlush, Place
  <1>2. FirstTable(tables) \in tables /\ FirstTable(tables) # "select"
    BY FirstTableOf
  <1>3. sensor' = 0 /\ 0 \in 0 .. MaxRows - 1 /\ attempt' = 1 /\ 1 \in 1 .. InsertRetries
        /\ timer' = 0 /\ 0 <= MaxAnswer
    BY WindowAssumption DEF StartFlush
  <1> QED BY <1>1, <1>2, <1>3 DEF StartFlush, BatcherTyped

LEMMA AdvanceKeepsTypes ==
  ASSUME BatcherTyped, stage # "select", Advance, UNCHANGED <<sensor, filled, bySize>>
  PROVE  BatcherTyped'
  <1>1. attempt' = 1 /\ 1 \in 1 .. InsertRetries /\ timer' = 0 /\ 0 <= MaxAnswer
        /\ 0 \in Nat
    BY WindowAssumption DEF Advance
  <1>2. ticker' \in 0 .. MaxSecs
    BY WindowAssumption DEF Advance, BatcherTyped
  <1>3. todo' = todo \ {stage} /\ todo' \subseteq Kinds /\ phase' = "try"
    BY DEF Advance, BatcherTyped
  <1>4. /\ stage' \in Kinds \cup {"select"}
        /\ stage' = "select" <=> todo' = {}
        /\ stage' # "select" => stage' \in todo'
    BY <1>3, FirstTableOf DEF Advance
  <1> QED BY <1>1, <1>2, <1>3, <1>4 DEF BatcherTyped

LEMMA TypeInit == Init => TypeInv
  <1> SUFFICES ASSUME Init PROVE TypeInv
    OBVIOUS
  <1>1. ChanTyped
    BY WindowAssumption DEF Init, ChanTyped
  <1>2. MarksTyped
    <2>1. 0 \in 0 .. MaxAge
      BY WindowAssumption
    <2> QED BY <2>1 DEF Init, MarksTyped, Place
  <1>3. BatcherTyped
    <2>1. /\ 0 \in 0 .. MaxRows - 1 /\ 1 \in 1 .. InsertRetries /\ 0 <= MaxAnswer
          /\ MaxSecs \in 0 .. MaxSecs
      BY WindowAssumption
    <2> QED BY <2>1 DEF Init, BatcherTyped
  <1> QED BY <1>1, <1>2, <1>3 DEF TypeInv

LEMMA PublishKeepsTypes ==
  ASSUME TypeInv, NEW msg \in Message, Publish(msg)
  PROVE  TypeInv'
  <1>1. ChanTyped'
    BY WindowAssumption DEF TypeInv, ChanTyped, Publish
  <1>2. MarksTyped'
    BY MoveKeepsTypes DEF TypeInv, Publish, Place
  <1>3. BatcherTyped'
    BY DEF TypeInv, BatcherTyped, Publish, batcher
  <1> QED BY <1>1, <1>2, <1>3 DEF TypeInv

LEMMA RecvKeepsTypes ==
  ASSUME TypeInv, Recv
  PROVE  TypeInv'
  <1> DEFINE msg == Head(chan)
             n == IF msg.table = "sensor_raw" THEN sensor + 1 ELSE sensor
  <1>1. msg \in Message /\ ChanTyped'
    BY WindowAssumption DEF TypeInv, ChanTyped, Recv
  <1>2. filled \cup {msg.table} \in SUBSET Kinds /\ n \in Nat
    BY <1>1 DEF Message, TypeInv, BatcherTyped
  <1>3. CASE /\ StartFlush(filled \cup {msg.table}, msg.mark \cup {m \in Mark : at[m] = "buf"})
             /\ bySize' = TRUE /\ UNCHANGED ticker
    <2>1. BatcherTyped' /\ MarksTyped'
      <3>1. /\ BatcherTyped /\ MarksTyped
            /\ bySize' \in BOOLEAN /\ ticker' \in 0 .. MaxSecs
        BY <1>3 DEF TypeInv, BatcherTyped
      <3>2. filled \cup {msg.table} # {}
        OBVIOUS
      <3> QED BY <1>2, <1>3, <3>1, <3>2, FlushKeepsTypes
    <2> QED BY <1>1, <2>1 DEF TypeInv
  <1>4. CASE /\ ~SizeReached(n)
             /\ sensor' = n /\ filled' = filled \cup {msg.table}
             /\ ticker' = TickerAfterRecv
             /\ Move(msg.mark, "buf")
             /\ UNCHANGED <<todo, bySize, stage, phase, attempt, timer>>
    <2>1. MarksTyped'
      BY <1>4, MoveKeepsTypes DEF TypeInv, Place
    <2>2. sensor' \in 0 .. MaxRows - 1
      BY <1>2, <1>4, WindowAssumption DEF SizeReached
    <2>3. stage' = "select"
      BY <1>4 DEF Recv
    <2>4. BatcherTyped'
      BY <1>2, <1>4, <2>2, <2>3 DEF TypeInv, BatcherTyped, TickerAfterRecv
    <2> QED BY <1>1, <2>1, <2>4 DEF TypeInv
  <1> QED BY <1>3, <1>4 DEF Recv

LEMMA TickKeepsTypes ==
  ASSUME TypeInv, Tick
  PROVE  TypeInv'
  <1>1. ChanTyped' /\ ticker' \in 0 .. MaxSecs
    BY WindowAssumption DEF TypeInv, ChanTyped, Tick
  <1>2. CASE StartFlush(filled, {m \in Mark : at[m] = "buf"}) /\ TickFlushes /\ bySize' = FALSE
    <2>1. /\ BatcherTyped /\ MarksTyped /\ filled \in SUBSET Kinds /\ filled # {}
          /\ bySize' \in BOOLEAN
      BY <1>2 DEF TypeInv, BatcherTyped, TickFlushes
    <2>2. BatcherTyped' /\ MarksTyped'
      BY <1>1, <1>2, <2>1, FlushKeepsTypes
    <2> QED BY <1>1, <2>2 DEF TypeInv
  <1>3. CASE UNCHANGED <<sensor, filled, todo, bySize, stage, phase, attempt, timer, marks>>
    BY <1>1, <1>3 DEF TypeInv, MarksTyped, BatcherTyped, marks
  <1> QED BY <1>2, <1>3 DEF Tick

LEMMA InsertKeepsTypes ==
  ASSUME TypeInv, InsertOk \/ InsertErr \/ SleepRetry \/ SleepDrop
  PROVE  TypeInv'
  <1>1. stage # "select" /\ ChanTyped'
    BY DEF TypeInv, ChanTyped, InsertOk, InsertErr, SleepRetry, SleepDrop, Table
  <1>2. CASE InsertOk
    <2>1. MarksTyped'
      BY <1>2, MoveKeepsTypes DEF InsertOk, TypeInv, Place
    <2>2. BatcherTyped'
      BY <1>1, <1>2, AdvanceKeepsTypes DEF InsertOk, TypeInv
    <2> QED BY <1>1, <2>1, <2>2 DEF TypeInv
  <1>3. CASE InsertErr
    <2>1. MarksTyped'
      BY <1>3 DEF InsertErr, TypeInv, MarksTyped, marks
    <2>2. timer' \in Nat /\ timer' <= Backoff(attempt') /\ phase' = "sleep"
      <3>1. attempt \in 1 .. InsertRetries /\ attempt' = attempt /\ timer' = Backoff(attempt)
            /\ phase' = "sleep"
        BY <1>3 DEF InsertErr, TypeInv, BatcherTyped
      <3>2. Backoff(attempt) \in Nat /\ Backoff(attempt') = Backoff(attempt)
        BY <3>1, BackoffGrows
      <3> QED BY <3>1, <3>2
    <2>3. BatcherTyped'
      BY <1>3, <2>2 DEF InsertErr, TypeInv, BatcherTyped
    <2> QED BY <1>1, <2>1, <2>3 DEF TypeInv
  <1>4. CASE SleepRetry
    <2>1. MarksTyped'
      BY <1>4 DEF SleepRetry, TypeInv, MarksTyped, marks
    <2>2. attempt' \in 1 .. InsertRetries /\ timer' = 0 /\ 0 <= MaxAnswer /\ phase' = "try"
      BY <1>4, WindowAssumption DEF SleepRetry, Exhausted, TypeInv, BatcherTyped
    <2>3. BatcherTyped'
      BY <1>4, <2>2 DEF SleepRetry, TypeInv, BatcherTyped
    <2> QED BY <1>1, <2>1, <2>3 DEF TypeInv
  <1>5. CASE SleepDrop
    <2>1. MarksTyped'
      BY <1>5, MoveKeepsTypes DEF SleepDrop, TypeInv, Place
    <2>2. BatcherTyped'
      BY <1>1, <1>5, AdvanceKeepsTypes DEF SleepDrop, TypeInv
    <2> QED BY <1>1, <2>1, <2>2 DEF TypeInv
  <1> QED BY <1>2, <1>3, <1>4, <1>5

(* A clock that has reached MaxAge stays there.                            *)
LEMMA OlderTyped ==
  ASSUME NEW clock \in [Mark -> 0 .. MaxAge], NEW m \in Mark
  PROVE  Older(clock, m) \in 0 .. MaxAge /\ Older(clock, m) \in {clock[m], clock[m] + 1}
  <1>1. clock[m] \in 0 .. MaxAge
    OBVIOUS
  <1> QED BY <1>1, WindowAssumption DEF Older

LEMMA ElapseKeepsTypes ==
  ASSUME TypeInv, Elapse
  PROVE  TypeInv'
  <1>1. ChanTyped'
    BY DEF TypeInv, ChanTyped, Elapse
  <1>2. MarksTyped'
    BY OlderTyped DEF TypeInv, MarksTyped, Elapse
  <1>3. UNCHANGED <<sensor, filled, todo, bySize, stage, phase, attempt>>
    BY DEF Elapse
  <1>4. ticker' \in 0 .. MaxSecs
    BY WindowAssumption DEF TypeInv, BatcherTyped, Elapse
  <1>5. Backoff(attempt') = Backoff(attempt) /\ Backoff(attempt) \in Nat
    BY <1>3, BackoffGrows DEF TypeInv, BatcherTyped
  <1>6. /\ timer' \in Nat
        /\ phase = "try" => timer' <= MaxAnswer
        /\ phase = "sleep" => timer' <= Backoff(attempt)
    BY <1>5, WindowAssumption DEF TypeInv, BatcherTyped, Elapse
  <1>7. BatcherTyped'
    BY <1>3, <1>4, <1>5, <1>6 DEF TypeInv, BatcherTyped
  <1> QED BY <1>1, <1>2, <1>7 DEF TypeInv

LEMMA TypeStep == TypeInv /\ [Next]_vars => TypeInv'
  <1> SUFFICES ASSUME TypeInv, [Next]_vars PROVE TypeInv'
    OBVIOUS
  <1>1. CASE UNCHANGED vars
    BY <1>1 DEF vars, batcher, marks, TypeInv, ChanTyped, MarksTyped, BatcherTyped, Backoff
  <1>2. ASSUME NEW msg \in Message, Publish(msg) PROVE TypeInv'
    BY <1>2, PublishKeepsTypes
  <1>3. CASE Recv
    BY <1>3, RecvKeepsTypes
  <1>4. CASE Tick
    BY <1>4, TickKeepsTypes
  <1>5. CASE InsertOk \/ InsertErr \/ SleepRetry \/ SleepDrop
    BY <1>5, InsertKeepsTypes
  <1>6. CASE Elapse
    BY <1>6, ElapseKeepsTypes
  <1> QED BY <1>1, <1>2, <1>3, <1>4, <1>5, <1>6 DEF Next

(* The state stays in its types: one message waits outside the channel at  *)
(* most, the batcher has a current table exactly while tables are left, no *)
(* attempt is beyond INSERT_RETRIES, and no sleep is longer than the last  *)
(* backoff (main.rs:288-309).                                              *)
THEOREM WindowTypeCorrect == Spec => []TypeOK
  <1>1. TypeInv => TypeOK
    <2> SUFFICES ASSUME TypeInv PROVE TypeOK
      OBVIOUS
    <2>1. timer \in 0 .. (MaxAnswer + Backoff(InsertRetries))
      <3>1. /\ attempt \in 1 .. InsertRetries /\ timer \in Nat /\ phase \in {"try", "sleep"}
            /\ phase = "try" => timer <= MaxAnswer
            /\ phase = "sleep" => timer <= Backoff(attempt)
        BY DEF TypeInv, BatcherTyped
      <3>2. /\ Backoff(attempt) \in Nat /\ Backoff(attempt) <= Backoff(InsertRetries)
            /\ Backoff(InsertRetries) \in Nat
        BY <3>1, BackoffGrows, WindowAssumption
      <3> QED BY <3>1, <3>2, WindowAssumption
    <2> QED BY <2>1 DEF TypeInv, ChanTyped, MarksTyped, BatcherTyped, TypeOK
  <1> QED BY TypeInit, TypeStep, <1>1, PTL DEF Spec

-----------------------------------------------------------------------------
(* The time a flush still needs                                            *)

Tables(n)  == n * TableMax
Answers(n) == n * MaxAnswer

(* What a table still takes at most, from its phase, attempt and timer.    *)
Left(p, n, t) ==
    IF p = "try"
    THEN (MaxAnswer - t) + Answers(InsertRetries - n)
         + (TwoPow[InsertRetries] - TwoPow[n - 1])
    ELSE t + Answers(InsertRetries - n) + (TwoPow[InsertRetries] - TwoPow[n])

FlushLeft == IF stage = "select" THEN 0
             ELSE Left(phase, attempt, timer) + Tables(Cardinality(todo \ {stage}))

LEMMA RetriesCounted ==
  ASSUME NEW n \in 1 .. InsertRetries
  PROVE  /\ Answers(InsertRetries - n) \in Nat
         /\ Answers(InsertRetries - n) <= Answers(InsertRetries - 1)
         /\ n # InsertRetries =>
              Answers(InsertRetries - n) = Answers(InsertRetries - (n + 1)) + MaxAnswer
  <1>1. /\ InsertRetries - n \in Nat /\ InsertRetries - 1 \in Nat
        /\ InsertRetries - n <= InsertRetries - 1 /\ MaxAnswer \in Nat
    BY WindowAssumption
  <1>2. /\ (InsertRetries - n) * MaxAnswer \in Nat
        /\ (InsertRetries - n) * MaxAnswer <= (InsertRetries - 1) * MaxAnswer
    BY <1>1, Products, ProductGrows
  <1>3. ASSUME n # InsertRetries
        PROVE  (InsertRetries - n) * MaxAnswer
                 = (InsertRetries - (n + 1)) * MaxAnswer + MaxAnswer
    <2>1. /\ InsertRetries - (n + 1) \in Nat
          /\ (InsertRetries - (n + 1)) + 1 = InsertRetries - n
      BY <1>3, WindowAssumption
    <2>2. ((InsertRetries - (n + 1)) + 1) * MaxAnswer
            = (InsertRetries - (n + 1)) * MaxAnswer + MaxAnswer
      BY <1>1, <2>1, Products
    <2> QED BY <2>1, <2>2
  <1> QED BY <1>2, <1>3 DEF Answers

LEMMA TableMaxSplit ==
  /\ TableMax \in Nat
  /\ TableMax = MaxAnswer + Answers(InsertRetries - 1) + (TwoPow[InsertRetries] - 1)
  <1>1. /\ InsertRetries - 1 \in Nat /\ (InsertRetries - 1) + 1 = InsertRetries
        /\ MaxAnswer \in Nat /\ InsertRetries \in Nat
    BY WindowAssumption
  <1>2. /\ ((InsertRetries - 1) + 1) * MaxAnswer = (InsertRetries - 1) * MaxAnswer + MaxAnswer
        /\ (InsertRetries - 1) * MaxAnswer \in Nat
    BY <1>1, Products
  <1>3. InsertRetries * MaxAnswer = Answers(InsertRetries - 1) + MaxAnswer
        /\ Answers(InsertRetries - 1) \in Nat
    BY <1>1, <1>2 DEF Answers
  <1>4. TwoPow[InsertRetries] \in Nat \ {0}
    BY <1>1, TwoPowSteps
  <1> QED BY <1>1, <1>3, <1>4 DEF TableMax

LEMMA TablesAdd ==
  ASSUME NEW i \in Nat, NEW j \in Nat
  PROVE  /\ Tables(i) \in Nat /\ Tables(0) = 0
         /\ Tables(i + j) = Tables(i) + Tables(j)
         /\ Tables(i + 1) = Tables(i) + TableMax
         /\ i <= j => Tables(i) <= Tables(j)
  BY TableMaxSplit, Products, ProductGrows DEF Tables

LEMMA KindsCounted ==
  ASSUME NEW S \in SUBSET Kinds, NEW x
  PROVE  /\ IsFiniteSet(S)
         /\ Cardinality(S) \in Nat /\ Cardinality(Kinds) \in Nat
         /\ Cardinality(S) <= Cardinality(Kinds)
         /\ Cardinality(S \cup {x}) <= Cardinality(S) + 1
         /\ x \in S => Cardinality(S) = Cardinality(S \ {x}) + 1
  <1>1. IsFiniteSet(Kinds)
    <2>1. IsFiniteSet(({} \cup {"sensor_raw"}) \cup {"as7341_raw"})
      BY FS_EmptySet, FS_AddElement
    <2>2. IsFiniteSet((({} \cup {"sensor_raw"}) \cup {"as7341_raw"}) \cup {"device_status"})
      BY <2>1, FS_AddElement
    <2>3. Kinds \in SUBSET ((({} \cup {"sensor_raw"}) \cup {"as7341_raw"}) \cup {"device_status"})
      BY WindowAssumption DEF Table
    <2> QED BY <2>2, <2>3, FS_Subset
  <1>2. IsFiniteSet(S) /\ Cardinality(S) <= Cardinality(Kinds)
    BY <1>1, FS_Subset
  <1>3. Cardinality(S) \in Nat /\ Cardinality(Kinds) \in Nat
    BY <1>1, <1>2, FS_CardinalityType
  <1>4. Cardinality(S \cup {x}) \in {Cardinality(S), Cardinality(S) + 1}
    BY <1>2, FS_AddElement
  <1>5. x \in S => Cardinality(S \ {x}) = Cardinality(S) - 1
    BY <1>2, FS_RemoveElement
  <1> QED BY <1>2, <1>3, <1>4, <1>5

LEMMA FlushMaxTables ==
  FlushMax = Tables(Cardinality(Kinds)) /\ FlushMax \in Nat
  BY KindsCounted, TablesAdd DEF FlushMax, Tables

LEMMA TablesOfKinds ==
  ASSUME NEW S \in SUBSET Kinds
  PROVE  Tables(Cardinality(S)) \in 0 .. FlushMax
  <1>1. /\ Cardinality(S) \in Nat /\ Cardinality(Kinds) \in Nat
        /\ Cardinality(S) <= Cardinality(Kinds)
    BY KindsCounted
  <1> QED BY <1>1, TablesAdd, FlushMaxTables

(* A table at its start has the most time left; at any moment the sleeps   *)
(* so far have cost 2 ^ (attempt - 1) - 1.                                 *)
LEMMA TableStart == Left("try", 1, 0) = TableMax
  <1>1. 1 - 1 = 0 /\ TwoPow[0] = 1 /\ MaxAnswer \in Nat /\ InsertRetries \in Nat
    BY TwoPowSteps, WindowAssumption
  <1>2. TwoPow[InsertRetries] \in Nat /\ Answers(InsertRetries - 1) \in Nat
    BY <1>1, TwoPowSteps, RetriesCounted, WindowAssumption
  <1> QED BY <1>1, <1>2, TableMaxSplit DEF Left

LEMMA LeftRange ==
  ASSUME BatcherTyped
  PROVE  Left(phase, attempt, timer) \in 0 .. TableMax
  <1>1. /\ attempt \in 1 .. InsertRetries /\ timer \in Nat /\ phase \in {"try", "sleep"}
        /\ phase = "try" => timer <= MaxAnswer
        /\ phase = "sleep" => timer <= Backoff(attempt)
    BY DEF BatcherTyped
  <1>2. /\ Backoff(attempt) \in Nat \ {0} /\ TwoPow[attempt] = 2 * Backoff(attempt)
        /\ Backoff(attempt) = TwoPow[attempt - 1]
    BY <1>1, BackoffGrows DEF Backoff
  <1>3. TwoPow[attempt] <= TwoPow[InsertRetries] /\ TwoPow[InsertRetries] \in Nat
    BY <1>1, TwoPowGrows, TwoPowSteps, WindowAssumption
  <1>4. /\ Answers(InsertRetries - attempt) \in Nat
        /\ Answers(InsertRetries - attempt) <= Answers(InsertRetries - 1)
        /\ Answers(InsertRetries - 1) \in Nat
    BY <1>1, RetriesCounted, WindowAssumption
  <1>5. CASE phase = "try"
    <2>1. Left(phase, attempt, timer)
            = (MaxAnswer - timer) + Answers(InsertRetries - attempt)
              + (TwoPow[InsertRetries] - Backoff(attempt))
      BY <1>2, <1>5 DEF Left
    <2> HIDE DEF Left
    <2> QED BY <1>1, <1>2, <1>3, <1>4, <1>5, <2>1, TableMaxSplit, WindowAssumption
  <1>6. CASE phase = "sleep"
    <2>1. Left(phase, attempt, timer)
            = timer + Answers(InsertRetries - attempt)
              + (TwoPow[InsertRetries] - TwoPow[attempt])
      BY <1>6 DEF Left
    <2> HIDE DEF Left
    <2> QED BY <1>1, <1>2, <1>3, <1>4, <1>6, <2>1, TableMaxSplit, WindowAssumption
  <1> QED BY <1>1, <1>5, <1>6

LEMMA FlushLeftRange ==
  ASSUME BatcherTyped
  PROVE  FlushLeft \in 0 .. FlushMax
  <1>1. FlushMax \in Nat
    BY FlushMaxTables
  <1>2. CASE stage # "select"
    <2>1. todo \in SUBSET Kinds /\ stage \in todo /\ todo \ {stage} \in SUBSET Kinds
      BY <1>2 DEF BatcherTyped
    <2>2. /\ Cardinality(todo) = Cardinality(todo \ {stage}) + 1
          /\ Cardinality(todo) <= Cardinality(Kinds)
          /\ Cardinality(todo \ {stage}) \in Nat /\ Cardinality(Kinds) \in Nat
          /\ Cardinality(todo) \in Nat
      BY <2>1, KindsCounted
    <2>3. /\ Tables(Cardinality(todo)) = Tables(Cardinality(todo \ {stage})) + TableMax
          /\ Tables(Cardinality(todo)) <= FlushMax
          /\ Tables(Cardinality(todo \ {stage})) \in Nat
      BY <2>2, TablesAdd, FlushMaxTables
    <2>4. FlushLeft = Left(phase, attempt, timer) + Tables(Cardinality(todo \ {stage}))
      BY <1>2 DEF FlushLeft
    <2> QED BY <1>1, <2>3, <2>4, LeftRange, TableMaxSplit
  <1>3. CASE stage = "select"
    BY <1>1, <1>3 DEF FlushLeft
  <1> QED BY <1>2, <1>3

LEMMA FlushLeftAtStart ==
  ASSUME NEW S, NEW tables \in SUBSET Kinds, tables # {}, StartFlush(tables, S)
  PROVE  FlushLeft' = Tables(Cardinality(tables))
  <1>1. FirstTable(tables) \in tables /\ FirstTable(tables) # "select"
    BY FirstTableOf
  <1>2. /\ Cardinality(tables) = Cardinality(tables \ {FirstTable(tables)}) + 1
        /\ Cardinality(tables \ {FirstTable(tables)}) \in Nat
    <2>1. tables \ {FirstTable(tables)} \in SUBSET Kinds
      OBVIOUS
    <2> QED BY <1>1, <2>1, KindsCounted
  <1>3. FlushLeft' = Left("try", 1, 0) + Tables(Cardinality(tables \ {FirstTable(tables)}))
    BY <1>1 DEF StartFlush, FlushLeft, Left
  <1>4. /\ Tables(Cardinality(tables))
             = Tables(Cardinality(tables \ {FirstTable(tables)})) + TableMax
        /\ Tables(Cardinality(tables \ {FirstTable(tables)})) \in Nat
    BY <1>2, TablesAdd
  <1> QED BY <1>3, <1>4, TableStart, TableMaxSplit

LEMMA AdvanceShortens ==
  ASSUME BatcherTyped, stage # "select", Advance
  PROVE  FlushLeft' \in Nat /\ FlushLeft' <= FlushLeft
  <1> DEFINE rest == todo \ {stage}
  <1>0. FlushLeft \in Nat
    BY FlushLeftRange, FlushMaxTables
  <1>1. CASE rest = {}
    <2>1. FlushLeft' = 0
      BY <1>1 DEF Advance, FlushLeft
    <2> QED BY <1>0, <2>1
  <1>2. CASE rest # {}
    <2>1. rest \in SUBSET Kinds
      BY DEF BatcherTyped
    <2>2. FirstTable(rest) \in rest /\ FirstTable(rest) # "select"
      BY <1>2, <2>1, FirstTableOf
    <2>3. /\ Cardinality(rest) = Cardinality(rest \ {FirstTable(rest)}) + 1
          /\ Cardinality(rest \ {FirstTable(rest)}) \in Nat /\ Cardinality(rest) \in Nat
      <3>1. rest \ {FirstTable(rest)} \in SUBSET Kinds
        BY <2>1
      <3> QED BY <2>1, <2>2, <3>1, KindsCounted
    <2>4. FlushLeft' = Left("try", 1, 0) + Tables(Cardinality(rest \ {FirstTable(rest)}))
      BY <1>2, <2>2 DEF Advance, FlushLeft, Left
    <2>5. /\ Tables(Cardinality(rest))
               = Tables(Cardinality(rest \ {FirstTable(rest)})) + TableMax
          /\ Tables(Cardinality(rest \ {FirstTable(rest)})) \in Nat
          /\ Tables(Cardinality(rest)) \in Nat
      BY <2>3, TablesAdd
    <2>6. FlushLeft = Left(phase, attempt, timer) + Tables(Cardinality(rest))
      BY DEF FlushLeft
    <2> HIDE DEF rest
    <2> QED BY <2>4, <2>5, <2>6, LeftRange, TableStart, TableMaxSplit
  <1> QED BY <1>1, <1>2

LEMMA TryShortens ==
  ASSUME BatcherTyped, InsertErr \/ SleepRetry
  PROVE  FlushLeft' \in Nat /\ FlushLeft' <= FlushLeft
  <1>1. stage # "select" /\ UNCHANGED <<stage, todo>>
    BY DEF InsertErr, SleepRetry, Table
  <1>2. /\ attempt \in 1 .. InsertRetries /\ timer \in Nat
        /\ phase = "try" => timer <= MaxAnswer
    BY DEF BatcherTyped
  <1>3. /\ Backoff(attempt) \in Nat \ {0} /\ TwoPow[attempt] = 2 * Backoff(attempt)
        /\ Backoff(attempt) = TwoPow[attempt - 1]
    BY <1>2, BackoffGrows DEF Backoff
  <1>4. TwoPow[attempt] <= TwoPow[InsertRetries] /\ TwoPow[InsertRetries] \in Nat
    BY <1>2, TwoPowGrows, TwoPowSteps, WindowAssumption
  <1>5. Answers(InsertRetries - attempt) \in Nat
    BY <1>2, RetriesCounted
  <1>6. /\ Left(phase', attempt', timer') \in Nat
        /\ Left(phase', attempt', timer') <= Left(phase, attempt, timer)
    <2>1. CASE InsertErr
      <3>1. Left(phase, attempt, timer)
              = (MaxAnswer - timer) + Answers(InsertRetries - attempt)
                + (TwoPow[InsertRetries] - Backoff(attempt))
        BY <1>3, <2>1 DEF InsertErr, Left
      <3>2. Left(phase', attempt', timer')
              = Backoff(attempt) + Answers(InsertRetries - attempt)
                + (TwoPow[InsertRetries] - TwoPow[attempt])
        BY <2>1 DEF InsertErr, Left
      <3>3. timer <= MaxAnswer
        BY <1>2, <2>1 DEF InsertErr
      <3> QED BY <1>2, <1>3, <1>4, <1>5, <3>1, <3>2, <3>3, WindowAssumption
    <2>2. CASE SleepRetry
      <3>1. Left(phase, attempt, timer)
              = timer + Answers(InsertRetries - attempt)
                + (TwoPow[InsertRetries] - TwoPow[attempt])
        BY <2>2 DEF SleepRetry, Left
      <3>2. attempt # InsertRetries /\ attempt' = attempt + 1 /\ timer = 0 /\ timer' = 0
            /\ phase' = "try" /\ (attempt + 1) - 1 = attempt
        BY <1>2, <2>2, WindowAssumption DEF SleepRetry, Exhausted
      <3>3. Left(phase', attempt', timer')
              = (MaxAnswer - 0) + Answers(InsertRetries - (attempt + 1))
                + (TwoPow[InsertRetries] - TwoPow[attempt])
        BY <3>2 DEF Left
      <3>4. attempt + 1 \in 1 .. InsertRetries
        BY <1>2, <3>2, WindowAssumption
      <3>5. /\ Answers(InsertRetries - attempt)
                 = Answers(InsertRetries - (attempt + 1)) + MaxAnswer
            /\ Answers(InsertRetries - (attempt + 1)) \in Nat
        BY <1>2, <3>2, <3>4, RetriesCounted
      <3>6. TwoPow[attempt] \in Nat
        BY <1>3
      <3> QED BY <1>4, <1>5, <3>1, <3>2, <3>3, <3>5, <3>6, WindowAssumption
    <2> QED BY <2>1, <2>2
  <1>7. Tables(Cardinality(todo \ {stage})) \in Nat
    <2>1. todo \ {stage} \in SUBSET Kinds
      BY DEF BatcherTyped
    <2> QED BY <2>1, KindsCounted, TablesAdd
  <1>8. /\ FlushLeft = Left(phase, attempt, timer) + Tables(Cardinality(todo \ {stage}))
        /\ FlushLeft' = Left(phase', attempt', timer') + Tables(Cardinality(todo \ {stage}))
    <2>1. FlushLeft = Left(phase, attempt, timer) + Tables(Cardinality(todo \ {stage}))
      BY <1>1 DEF FlushLeft
    <2>2. FlushLeft' = Left(phase', attempt', timer') + Tables(Cardinality(todo \ {stage}))
      BY <1>1 DEF FlushLeft, Left
    <2> QED BY <2>1, <2>2
  <1>9. Left(phase, attempt, timer) \in Nat
    BY LeftRange, TableMaxSplit
  <1> QED BY <1>6, <1>7, <1>8, <1>9

LEMMA ElapseShortens ==
  ASSUME BatcherTyped, Elapse
  PROVE  /\ stage = "select" => FlushLeft' = 0 /\ FlushLeft = 0
         /\ stage # "select" => FlushLeft' = FlushLeft - 1
  <1>1. UNCHANGED <<stage, todo, phase, attempt>>
    BY DEF Elapse
  <1>2. CASE stage = "select"
    BY <1>1, <1>2 DEF FlushLeft
  <1>3. CASE stage # "select"
    <2>1. /\ timer \in Nat
          /\ attempt \in 1 .. InsertRetries /\ phase \in {"try", "sleep"}
      BY DEF BatcherTyped
    <2>2. /\ Answers(InsertRetries - attempt) \in Nat /\ TwoPow[attempt] \in Nat
          /\ TwoPow[InsertRetries] \in Nat /\ TwoPow[attempt - 1] \in Nat
      BY <2>1, RetriesCounted, TwoPowSteps, WindowAssumption
    <2>3. Left(phase, attempt, timer') = Left(phase, attempt, timer) - 1
      <3>1. CASE phase = "try"
        <4>1. timer' = timer + 1
          BY <1>3, <3>1 DEF Elapse
        <4> QED BY <2>1, <2>2, <3>1, <4>1, WindowAssumption DEF Left
      <3>2. CASE phase = "sleep"
        <4>1. timer' = timer - 1
          BY <1>3, <3>2 DEF Elapse
        <4> QED BY <2>1, <2>2, <3>2, <4>1, WindowAssumption DEF Left
      <3> QED BY <2>1, <3>1, <3>2
    <2>4. Tables(Cardinality(todo \ {stage})) \in Nat
      <3>1. todo \ {stage} \in SUBSET Kinds
        BY DEF BatcherTyped
      <3> QED BY <3>1, KindsCounted, TablesAdd
    <2>5. FlushLeft = Left(phase, attempt, timer) + Tables(Cardinality(todo \ {stage}))
      BY <1>3 DEF FlushLeft
    <2>6. FlushLeft' = Left(phase, attempt, timer') + Tables(Cardinality(todo \ {stage}))
      BY <1>1, <1>3 DEF FlushLeft, Left
    <2> QED BY <2>3, <2>4, <2>5, <2>6, LeftRange, TableMaxSplit, <1>3
  <1> QED BY <1>2, <1>3

-----------------------------------------------------------------------------
(* Every row has time left                                                 *)

(* The time before the n-th message in the channel is received: the flush  *)
(* in progress, the flush of what is buffered, and one table for each      *)
(* message ahead, received in whatever flushes there are.                  *)
Ahead(n) == FlushLeft + Tables(Cardinality(filled) + n)

Limit == MaxSecs + 2 * FlushMax + Tables(ChanCap)

UnsentAreNew == \A m \in Mark : at[m] = "unsent" => age[m] = 0

ChanPlaced == \A m \in Mark : at[m] = "chan" => \E p \in 1 .. Len(chan) : m \in chan[p].mark

ChanOnTime == \A p \in 1 .. Len(chan) : \A m \in chan[p].mark :
                  age[m] + Ahead(p - 1) <= FlushMax + Tables(ChanCap)

BufOnTime == \A m \in Mark : at[m] = "buf" =>
                 age[m] + ticker <= MaxSecs + FlushMax + Tables(ChanCap)

BatchOnTime == \A m \in Mark : at[m] = "batch" =>
                   Home[m] \in todo /\ age[m] + FlushLeft <= Limit

OnTime == UnsentAreNew /\ ChanPlaced /\ ChanOnTime /\ BufOnTime /\ BatchOnTime

AgeInv == WindowInv /\ TypeInv /\ OnTime

(* The facts about numbers and types the steps below use.                  *)
LEMMA AgeTypes ==
  ASSUME AgeInv
  PROVE  /\ BatcherTyped /\ age \in [Mark -> Nat] /\ at \in [Mark -> Place]
         /\ chan \in Seq(Message) /\ chan \in Seq(AtHome)
         /\ filled \in SUBSET Kinds /\ Cardinality(filled) \in Nat
         /\ FlushLeft \in 0 .. FlushMax
         /\ FlushMax \in Nat /\ Tables(ChanCap) \in Nat /\ MaxSecs \in Nat /\ ticker \in Nat
         /\ \A p \in 1 .. Len(chan) : chan[p].mark \subseteq Mark
  <1>1. /\ BatcherTyped /\ age \in [Mark -> Nat] /\ at \in [Mark -> Place]
        /\ chan \in Seq(Message) /\ chan \in Seq(AtHome) /\ MaxSecs \in Nat /\ ticker \in Nat
    BY WindowAssumption
    DEF AgeInv, TypeInv, ChanTyped, MarksTyped, BatcherTyped, WindowInv, WindowTyped
  <1>2. \A p \in 1 .. Len(chan) : chan[p].mark \subseteq Mark
    <2> TAKE p \in 1 .. Len(chan)
    <2>1. chan[p] \in Message
      BY <1>1
    <2> QED BY <2>1 DEF Message
  <1>3. FlushLeft \in 0 .. FlushMax /\ FlushMax \in Nat
    BY <1>1, FlushLeftRange, FlushMaxTables
  <1>4. Tables(ChanCap) \in Nat
    BY TablesAdd, WindowAssumption
  <1>5. filled \in SUBSET Kinds /\ Cardinality(filled) \in Nat
    BY <1>1, KindsCounted DEF BatcherTyped
  <1> QED BY <1>1, <1>2, <1>3, <1>4, <1>5

(* Whatever is buffered or left of a flush, it takes no longer than the    *)
(* longest flush: during a flush nothing is buffered.                      *)
LEMMA AheadSplit ==
  ASSUME BatcherTyped, NEW n \in Nat
  PROVE  /\ Ahead(n) = FlushLeft + Tables(Cardinality(filled)) + Tables(n)
         /\ FlushLeft + Tables(Cardinality(filled)) \in 0 .. FlushMax
         /\ Tables(Cardinality(filled)) \in Nat /\ Tables(n) \in Nat
         /\ Ahead(n) \in Nat
  <1>1. /\ filled \in SUBSET Kinds /\ Cardinality(filled) \in Nat
        /\ Cardinality(Kinds) \in Nat /\ Cardinality(filled) <= Cardinality(Kinds)
    BY KindsCounted DEF BatcherTyped
  <1>2. /\ Tables(Cardinality(filled) + n) = Tables(Cardinality(filled)) + Tables(n)
        /\ Tables(Cardinality(filled)) \in Nat /\ Tables(n) \in Nat
        /\ Tables(Cardinality(filled)) <= FlushMax
    BY <1>1, TablesAdd, FlushMaxTables
  <1>3. FlushLeft \in 0 .. FlushMax /\ FlushMax \in Nat
    BY FlushLeftRange, FlushMaxTables
  <1>4. FlushLeft + Tables(Cardinality(filled)) \in 0 .. FlushMax
    <2>1. CASE stage = "select"
      <3>1. FlushLeft = 0
        BY <2>1 DEF FlushLeft
      <3> QED BY <1>2, <1>3, <3>1
    <2>2. CASE stage # "select"
      <3>1. Tables(Cardinality(filled)) = 0
        <4>1. filled = {} /\ Cardinality({}) = 0
          BY <2>2, FS_EmptySet DEF BatcherTyped
        <4> QED BY <4>1, TablesAdd
      <3> QED BY <1>3, <3>1
    <2> QED BY <2>1, <2>2
  <1> QED BY <1>2, <1>3, <1>4 DEF Ahead

-----------------------------------------------------------------------------
(* The steps that receive, flush and wait                                  *)

LEMMA OnTimeInit == Init => OnTime
  <1> SUFFICES ASSUME Init PROVE OnTime
    OBVIOUS
  <1>1. \A m \in Mark : at[m] = "unsent" /\ age[m] = 0
    BY DEF Init
  <1>2. Len(chan) = 0
    BY DEF Init
  <1> QED BY <1>1, <1>2
          DEF OnTime, UnsentAreNew, ChanPlaced, ChanOnTime, BufOnTime, BatchOnTime

(* A step of a flush that makes no row older and no longer what is left.   *)
LEMMA FlushShortens ==
  ASSUME AgeInv, stage # "select", UNCHANGED <<chan, filled, age>>,
         FlushLeft' \in Nat, FlushLeft' <= FlushLeft,
         \A m \in Mark : /\ at'[m] \in {"unsent", "chan", "buf"} => at'[m] = at[m]
                         /\ at'[m] = "batch" => at[m] = "batch" /\ Home[m] \in todo'
  PROVE  OnTime'
  <1>1. UnsentAreNew' /\ ChanPlaced'
    BY DEF AgeInv, OnTime, UnsentAreNew, ChanPlaced
  <1>2. ChanOnTime'
    <2> SUFFICES ASSUME NEW p \in 1 .. Len(chan), NEW m \in chan[p].mark
                 PROVE  age[m] + (Ahead(p - 1))' <= FlushMax + Tables(ChanCap)
      BY DEF ChanOnTime
    <2>1. p - 1 \in Nat /\ m \in Mark /\ age[m] \in Nat
      BY AgeTypes
    <2>2. Cardinality(filled) + (p - 1) \in Nat
      BY <2>1, AgeTypes
    <2>3. Tables(Cardinality(filled) + (p - 1)) \in Nat
      BY <2>2, TablesAdd
    <2>4. (Ahead(p - 1))' = FlushLeft' + Tables(Cardinality(filled) + (p - 1))
      BY DEF Ahead
    <2>5. Ahead(p - 1) = FlushLeft + Tables(Cardinality(filled) + (p - 1))
      BY DEF Ahead
    <2>6. age[m] + Ahead(p - 1) <= FlushMax + Tables(ChanCap)
      BY DEF AgeInv, OnTime, ChanOnTime
    <2> QED BY <2>1, <2>3, <2>4, <2>5, <2>6, AgeTypes
  <1>3. BufOnTime'
    <2>1. \A m \in Mark : at'[m] # "buf"
      BY DEF AgeInv, WindowInv, NoneBufferedInFlush
    <2> QED BY <2>1 DEF BufOnTime
  <1>4. BatchOnTime'
    <2> SUFFICES ASSUME NEW m \in Mark, at'[m] = "batch"
                 PROVE  Home[m] \in todo' /\ age[m] + FlushLeft' <= Limit
      BY DEF BatchOnTime, Limit
    <2>1. age[m] + FlushLeft <= Limit /\ age[m] \in Nat /\ Limit \in Nat
      BY AgeTypes DEF AgeInv, OnTime, BatchOnTime, Limit
    <2> QED BY <2>1, AgeTypes
  <1> QED BY <1>1, <1>2, <1>3, <1>4 DEF OnTime

LEMMA PublishOnTime ==
  ASSUME AgeInv, NEW msg \in Message, Publish(msg)
  PROVE  OnTime'
  <1>1. /\ chan' = Append(chan, msg) /\ Len(chan) \in Nat /\ Len(chan) <= ChanCap
        /\ Len(chan') = Len(chan) + 1
        /\ chan'[Len(chan) + 1] = msg
        /\ \A p \in 1 .. Len(chan) : chan'[p] = chan[p]
    BY AgeTypes DEF Publish
  <1>2. msg.mark \subseteq Mark
    BY DEF Message
  <1>3. /\ \A m \in msg.mark : at[m] = "unsent" /\ at'[m] = "chan"
        /\ \A m \in Mark : m \notin msg.mark => at'[m] = at[m]
        /\ age' = age
    BY <1>2 DEF Publish, Move
  <1>4. FlushLeft' = FlushLeft /\ \A n : (Ahead(n))' = Ahead(n)
    <2>1. UNCHANGED <<filled, todo, stage, phase, attempt, timer, ticker>>
      BY DEF Publish, batcher
    <2> QED BY <2>1 DEF FlushLeft, Left, Ahead
  <1>5. UnsentAreNew'
    BY <1>3 DEF AgeInv, OnTime, UnsentAreNew
  <1>6. ChanPlaced'
    <2> SUFFICES ASSUME NEW m \in Mark, at'[m] = "chan"
                 PROVE  \E p \in 1 .. Len(chan') : m \in chan'[p].mark
      BY DEF ChanPlaced
    <2>1. CASE m \in msg.mark
      BY <1>1, <2>1
    <2>2. CASE m \notin msg.mark
      <3>1. PICK p \in 1 .. Len(chan) : m \in chan[p].mark
        BY <1>3, <2>2 DEF AgeInv, OnTime, ChanPlaced
      <3>2. p \in 1 .. Len(chan')
        BY <1>1
      <3> QED BY <1>1, <3>1, <3>2
    <2> QED BY <2>1, <2>2
  <1>7. ChanOnTime'
    <2> SUFFICES ASSUME NEW p \in 1 .. Len(chan'), NEW m \in chan'[p].mark
                 PROVE  age[m] + Ahead(p - 1) <= FlushMax + Tables(ChanCap)
      BY <1>3, <1>4 DEF ChanOnTime
    <2>1. CASE p = Len(chan) + 1
      <3>1. m \in Mark /\ age[m] = 0
        BY <1>1, <1>2, <1>3, <2>1 DEF AgeInv, OnTime, UnsentAreNew
      <3>2. p - 1 \in Nat /\ p - 1 <= ChanCap /\ ChanCap \in Nat
        BY <1>1, <2>1, WindowAssumption
      <3>3. Tables(p - 1) <= Tables(ChanCap)
        BY <3>2, TablesAdd
      <3>4. /\ Ahead(p - 1) = FlushLeft + Tables(Cardinality(filled)) + Tables(p - 1)
            /\ FlushLeft + Tables(Cardinality(filled)) \in 0 .. FlushMax
            /\ Tables(p - 1) \in Nat
        BY <3>2, AheadSplit, AgeTypes
      <3> QED BY <3>1, <3>3, <3>4, AgeTypes
    <2>2. CASE p # Len(chan) + 1
      <3>1. p \in 1 .. Len(chan) /\ m \in chan[p].mark
        BY <1>1, <2>2
      <3> QED BY <3>1 DEF AgeInv, OnTime, ChanOnTime
    <2> QED BY <2>1, <2>2
  <1>8. BufOnTime' /\ BatchOnTime'
    <2>1. UNCHANGED <<todo, ticker>>
      BY DEF Publish, batcher
    <2>2. /\ \A m \in Mark : at'[m] \in {"buf", "batch"} => at'[m] = at[m]
      BY <1>3
    <2> QED BY <1>3, <1>4, <2>1, <2>2
            DEF AgeInv, OnTime, BufOnTime, BatchOnTime, Limit
  <1> QED BY <1>5, <1>6, <1>7, <1>8 DEF OnTime

(* The head of the channel is received in the select: no flush is in       *)
(* progress, and those behind it come one place forward.                   *)
LEMMA RecvOnTime ==
  ASSUME AgeInv, Recv
  PROVE  OnTime'
  <1> DEFINE msg == Head(chan)
             tables == filled \cup {msg.table}
  <1>1. /\ chan # <<>> /\ chan' = Tail(chan) /\ Len(chan) \in Nat \ {0}
        /\ Len(chan') = Len(chan) - 1
        /\ msg = chan[1] /\ msg \in AtHome
        /\ \A p \in 1 .. Len(chan') : chan'[p] = chan[p + 1] /\ p + 1 \in 1 .. Len(chan)
    BY AgeTypes DEF Recv
  <1>2. msg.table \in Kinds /\ msg.mark \subseteq Mark /\ 1 \in 1 .. Len(chan)
        /\ \A m \in msg.mark : Home[m] = msg.table
    BY <1>1 DEF AtHome, Message
  <1>3. stage = "select" /\ FlushLeft = 0 /\ filled \in SUBSET Kinds
        /\ tables \in SUBSET Kinds /\ tables # {} /\ age' = age
    BY <1>2, AgeTypes DEF Recv, FlushLeft, BatcherTyped, StartFlush, Move
  <1> HIDE DEF msg
  <1>4. /\ Cardinality(filled) \in Nat /\ Cardinality(tables) \in Nat
        /\ Cardinality(tables) <= Cardinality(filled) + 1
    BY <1>3, KindsCounted
  <1> HIDE DEF tables
  <1>5. \A m \in msg.mark : age[m] <= FlushMax + Tables(ChanCap)
    <2> TAKE m \in msg.mark
    <2>1. age[m] + Ahead(1 - 1) <= FlushMax + Tables(ChanCap)
      BY <1>1, <1>2 DEF AgeInv, OnTime, ChanOnTime
    <2>2. Ahead(1 - 1) \in Nat /\ age[m] \in Nat
      <3>1. 1 - 1 \in Nat /\ BatcherTyped /\ age[m] \in Nat
        BY <1>2, AgeTypes
      <3> QED BY <3>1, AheadSplit
    <2> QED BY <2>1, <2>2, AgeTypes
  (* what is ahead of the messages behind it, before and after *)
  <1>6. ASSUME NEW p \in 1 .. Len(chan')
        PROVE  /\ Ahead((p + 1) - 1) = Tables(Cardinality(filled) + 1) + Tables(p - 1)
               /\ Tables(Cardinality(filled) + 1) \in Nat /\ Tables(p - 1) \in Nat
               /\ Tables(Cardinality(tables)) <= Tables(Cardinality(filled) + 1)
               /\ \A m \in chan'[p].mark :
                    /\ m \in Mark /\ age[m] \in Nat
                    /\ age[m] + Ahead((p + 1) - 1) <= FlushMax + Tables(ChanCap)
    <2>1. p - 1 \in Nat /\ Cardinality(filled) + 1 \in Nat
          /\ Cardinality(filled) + ((p + 1) - 1) = (Cardinality(filled) + 1) + (p - 1)
      BY <1>4
    <2>2. /\ Tables((Cardinality(filled) + 1) + (p - 1))
               = Tables(Cardinality(filled) + 1) + Tables(p - 1)
          /\ Tables(Cardinality(filled) + 1) \in Nat /\ Tables(p - 1) \in Nat
          /\ Tables(Cardinality(tables)) <= Tables(Cardinality(filled) + 1)
      BY <1>4, <2>1, TablesAdd
    <2>3. Ahead((p + 1) - 1) = 0 + Tables((Cardinality(filled) + 1) + (p - 1))
      BY <1>3, <2>1 DEF Ahead
    <2>4. \A m \in chan'[p].mark :
             /\ m \in Mark /\ age[m] \in Nat
             /\ age[m] + Ahead((p + 1) - 1) <= FlushMax + Tables(ChanCap)
      BY <1>1, AgeTypes DEF AgeInv, OnTime, ChanOnTime
    <2> QED BY <2>2, <2>3, <2>4
  <1>7. CASE StartFlush(tables, msg.mark \cup {m \in Mark : at[m] = "buf"}) /\ UNCHANGED ticker
    <2>1. FlushLeft' = Tables(Cardinality(tables)) /\ filled' = {}
      BY <1>3, <1>7, FlushLeftAtStart DEF StartFlush
    <2>2. FlushLeft' \in 0 .. FlushMax
      BY <1>3, <2>1, TablesOfKinds
    <2>3. /\ \A m \in Mark : m \in msg.mark \/ at[m] = "buf" => at'[m] = "batch"
          /\ \A m \in Mark : ~ (m \in msg.mark \/ at[m] = "buf") => at'[m] = at[m]
      BY <1>7 DEF StartFlush, Move
    <2>4. UnsentAreNew'
      BY <1>3, <2>3 DEF AgeInv, OnTime, UnsentAreNew
    <2>5. ChanPlaced'
      <3> SUFFICES ASSUME NEW m \in Mark, at'[m] = "chan"
                   PROVE  \E p \in 1 .. Len(chan') : m \in chan'[p].mark
        BY DEF ChanPlaced
      <3>1. at[m] = "chan" /\ m \notin msg.mark
        BY <2>3
      <3>2. PICK p \in 1 .. Len(chan) : m \in chan[p].mark
        BY <3>1 DEF AgeInv, OnTime, ChanPlaced
      <3>3. p # 1
        BY <1>1, <3>1, <3>2
      <3>4. p - 1 \in 1 .. Len(chan') /\ (p - 1) + 1 = p
        BY <1>1, <3>3
      <3> QED BY <1>1, <3>2, <3>4
    <2>6. ChanOnTime'
      <3> SUFFICES ASSUME NEW p \in 1 .. Len(chan'), NEW m \in chan'[p].mark
                   PROVE  age[m] + (Ahead(p - 1))' <= FlushMax + Tables(ChanCap)
        BY <1>3 DEF ChanOnTime
      <3>1. (Ahead(p - 1))' = Tables(Cardinality(tables)) + Tables(p - 1)
        <4>1. Cardinality({}) = 0 /\ 0 + (p - 1) = p - 1
          BY FS_EmptySet
        <4> QED BY <2>1, <4>1 DEF Ahead
      <3>2. Tables(Cardinality(tables)) \in Nat
        BY <1>4, TablesAdd
      <3> QED BY <1>6, <3>1, <3>2, AgeTypes
    <2>7. BufOnTime'
      BY <2>3 DEF BufOnTime
    <2>8. BatchOnTime'
      <3> SUFFICES ASSUME NEW m \in Mark, at'[m] = "batch"
                   PROVE  Home[m] \in todo' /\ age[m] + FlushLeft' <= Limit
        BY <1>3 DEF BatchOnTime, Limit
      <3>1. at[m] # "batch"
        BY <1>3 DEF AgeInv, OnTime, BatchOnTime, TypeInv, BatcherTyped
      <3>2. m \in msg.mark \/ at[m] = "buf"
        BY <2>3, <3>1
      <3>3. Home[m] \in tables /\ todo' = tables
        BY <1>2, <1>7, <3>2 DEF AgeInv, WindowInv, BufferedInFilled, StartFlush, tables
      <3>4. age[m] <= MaxSecs + FlushMax + Tables(ChanCap)
        <4>1. CASE m \in msg.mark
          BY <1>5, <4>1, AgeTypes
        <4>2. CASE at[m] = "buf"
          <5>1. age[m] + ticker <= MaxSecs + FlushMax + Tables(ChanCap)
            BY <4>2 DEF AgeInv, OnTime, BufOnTime
          <5> QED BY <5>1, AgeTypes
        <4> QED BY <3>2, <4>1, <4>2
      <3> QED BY <2>2, <3>3, <3>4, AgeTypes DEF Limit
    <2> QED BY <2>4, <2>5, <2>6, <2>7, <2>8 DEF OnTime
  <1>8. CASE /\ filled' = tables /\ ticker' = TickerAfterRecv
             /\ Move(msg.mark, "buf")
             /\ UNCHANGED <<todo, stage>>
    <2>1. FlushLeft' = 0
      BY <1>3, <1>8 DEF FlushLeft
    <2>3. /\ \A m \in msg.mark : at'[m] = "buf"
          /\ \A m \in Mark : m \notin msg.mark => at'[m] = at[m]
      BY <1>2, <1>8 DEF Move
    <2>4. UnsentAreNew'
      BY <1>3, <2>3 DEF AgeInv, OnTime, UnsentAreNew
    <2>5. ChanPlaced'
      <3> SUFFICES ASSUME NEW m \in Mark, at'[m] = "chan"
                   PROVE  \E p \in 1 .. Len(chan') : m \in chan'[p].mark
        BY DEF ChanPlaced
      <3>1. at[m] = "chan" /\ m \notin msg.mark
        BY <2>3
      <3>2. PICK p \in 1 .. Len(chan) : m \in chan[p].mark
        BY <3>1 DEF AgeInv, OnTime, ChanPlaced
      <3>3. p # 1
        BY <1>1, <3>1, <3>2
      <3>4. p - 1 \in 1 .. Len(chan') /\ (p - 1) + 1 = p
        BY <1>1, <3>3
      <3> QED BY <1>1, <3>2, <3>4
    <2>6. ChanOnTime'
      <3> SUFFICES ASSUME NEW p \in 1 .. Len(chan'), NEW m \in chan'[p].mark
                   PROVE  age[m] + (Ahead(p - 1))' <= FlushMax + Tables(ChanCap)
        BY <1>3 DEF ChanOnTime
      <3>1. (Ahead(p - 1))' = Tables(Cardinality(tables)) + Tables(p - 1)
        <4>1. p - 1 \in Nat /\ Tables(Cardinality(tables)) + Tables(p - 1) \in Nat
              /\ Tables(Cardinality(tables) + (p - 1))
                   = Tables(Cardinality(tables)) + Tables(p - 1)
          <5>1. p - 1 \in Nat
            OBVIOUS
          <5>2. /\ Tables(Cardinality(tables)) \in Nat /\ Tables(p - 1) \in Nat
                /\ Tables(Cardinality(tables) + (p - 1))
                     = Tables(Cardinality(tables)) + Tables(p - 1)
            BY <1>4, <5>1, TablesAdd
          <5> QED BY <5>1, <5>2
        <4>2. (Ahead(p - 1))' = 0 + Tables(Cardinality(tables) + (p - 1))
          BY <1>8, <2>1 DEF Ahead
        <4> QED BY <4>1, <4>2
      <3>2. Tables(Cardinality(tables)) \in Nat
        BY <1>4, TablesAdd
      <3> QED BY <1>6, <3>1, <3>2, AgeTypes
    <2>7. BufOnTime'
      <3> SUFFICES ASSUME NEW m \in Mark, at'[m] = "buf"
                   PROVE  age[m] + ticker <= MaxSecs + FlushMax + Tables(ChanCap)
        BY <1>3, <1>8 DEF BufOnTime, TickerAfterRecv
      <3>1. CASE m \in msg.mark
        <4>1. age[m] <= FlushMax + Tables(ChanCap) /\ age[m] \in Nat
          BY <1>5, <3>1, AgeTypes
        <4>2. ticker <= MaxSecs
          BY DEF AgeInv, TypeInv, BatcherTyped
        <4> QED BY <4>1, <4>2, AgeTypes
      <3>2. CASE m \notin msg.mark
        BY <2>3, <3>2 DEF AgeInv, OnTime, BufOnTime
      <3> QED BY <3>1, <3>2
    <2>8. BatchOnTime'
      <3>1. \A m \in Mark : at'[m] # "batch"
        BY <1>3, <2>3 DEF AgeInv, OnTime, BatchOnTime, TypeInv, BatcherTyped
      <3> QED BY <3>1 DEF BatchOnTime
    <2> QED BY <2>4, <2>5, <2>6, <2>7, <2>8 DEF OnTime
  <1> QED BY <1>7, <1>8 DEF Recv, msg, tables

LEMMA TickOnTime ==
  ASSUME AgeInv, Tick
  PROVE  OnTime'
  <1>1. stage = "select" /\ FlushLeft = 0 /\ ticker = 0 /\ chan' = chan
    BY DEF Tick, FlushLeft
  <1>2. CASE /\ StartFlush(filled, {m \in Mark : at[m] = "buf"}) /\ TickFlushes
    <2>1. filled \in SUBSET Kinds /\ filled # {} /\ age' = age
      BY <1>2, AgeTypes DEF BatcherTyped, TickFlushes, StartFlush, Move
    <2>2. FlushLeft' = Tables(Cardinality(filled)) /\ filled' = {} /\ todo' = filled
      BY <1>2, <2>1, FlushLeftAtStart DEF StartFlush
    <2>3. FlushLeft' \in 0 .. FlushMax
      BY <2>1, <2>2, TablesOfKinds
    <2>4. \A m \in Mark : at'[m] = IF at[m] = "buf" THEN "batch" ELSE at[m]
      BY <1>2 DEF StartFlush, Move
    <2>5. UnsentAreNew' /\ ChanPlaced' /\ BufOnTime'
      BY <1>1, <2>1, <2>4 DEF AgeInv, OnTime, UnsentAreNew, ChanPlaced, BufOnTime
    <2>6. ChanOnTime'
      <3> SUFFICES ASSUME NEW p \in 1 .. Len(chan), NEW m \in chan[p].mark
                   PROVE  age[m] + (Ahead(p - 1))' <= FlushMax + Tables(ChanCap)
        BY <1>1, <2>1 DEF ChanOnTime
      <3>1. age[m] + Ahead(p - 1) <= FlushMax + Tables(ChanCap)
        BY DEF AgeInv, OnTime, ChanOnTime
      <3>2. p - 1 \in Nat /\ Cardinality({}) = 0 /\ 0 + (p - 1) = p - 1
        BY FS_EmptySet
      <3>3. (Ahead(p - 1))' = Tables(Cardinality(filled)) + Tables(p - 1)
        BY <2>2, <3>2 DEF Ahead
      <3>4. /\ Ahead(p - 1) = 0 + Tables(Cardinality(filled)) + Tables(p - 1)
            /\ Tables(Cardinality(filled)) \in Nat /\ Tables(p - 1) \in Nat
        BY <1>1, <3>2, AheadSplit, AgeTypes
      <3> QED BY <3>1, <3>3, <3>4
    <2>7. BatchOnTime'
      <3> SUFFICES ASSUME NEW m \in Mark, at'[m] = "batch"
                   PROVE  Home[m] \in todo' /\ age[m] + FlushLeft' <= Limit
        BY <2>1 DEF BatchOnTime, Limit
      <3>1. at[m] # "batch"
        BY <1>1 DEF AgeInv, OnTime, BatchOnTime, TypeInv, BatcherTyped
      <3>2. at[m] = "buf"
        BY <2>4, <3>1
      <3>3. Home[m] \in filled
        BY <3>2 DEF AgeInv, WindowInv, BufferedInFilled
      <3>4. age[m] + 0 <= MaxSecs + FlushMax + Tables(ChanCap) /\ age[m] \in Nat
        BY <1>1, <3>2, AgeTypes DEF AgeInv, OnTime, BufOnTime
      <3> QED BY <2>2, <2>3, <3>3, <3>4, AgeTypes DEF Limit
    <2> QED BY <2>5, <2>6, <2>7 DEF OnTime
  <1>3. CASE ~TickFlushes
             /\ UNCHANGED <<sensor, filled, todo, bySize, stage, phase, attempt, timer, marks>>
    <2>1. \A m \in Mark : at[m] # "buf"
      BY <1>3 DEF TickFlushes, AgeInv, WindowInv, BufferedInFilled
    <2>2. FlushLeft' = FlushLeft /\ \A n : (Ahead(n))' = Ahead(n)
      BY <1>3 DEF FlushLeft, Left, Ahead
    <2>3. at' = at /\ age' = age /\ todo' = todo
      BY <1>3 DEF marks
    <2> QED BY <1>1, <2>1, <2>2, <2>3
            DEF AgeInv, OnTime, UnsentAreNew, ChanPlaced, ChanOnTime, BufOnTime,
                BatchOnTime, Limit
  <1> QED BY <1>2, <1>3 DEF Tick

LEMMA InsertOnTime ==
  ASSUME AgeInv, InsertOk \/ InsertErr \/ SleepRetry \/ SleepDrop
  PROVE  OnTime'
  <1>1. stage # "select" /\ BatcherTyped
    BY AgeTypes DEF InsertOk, InsertErr, SleepRetry, SleepDrop, Table
  <1>2. \A m \in Mark : at[m] = "batch" => Home[m] \in todo
    BY DEF AgeInv, OnTime, BatchOnTime
  <1>3. CASE InsertErr \/ SleepRetry
    <2>1. UNCHANGED <<chan, filled, age, at, todo>>
      BY <1>3 DEF InsertErr, SleepRetry, marks
    <2>2. FlushLeft' \in Nat /\ FlushLeft' <= FlushLeft
      BY <1>1, <1>3, TryShortens
    <2> QED BY <1>1, <1>2, <2>1, <2>2, FlushShortens
  <1>4. CASE InsertOk \/ SleepDrop
    <2>1. Advance /\ UNCHANGED <<chan, filled, age>> /\ todo' = todo \ {stage}
      BY <1>4 DEF InsertOk, SleepDrop, Advance, Move
    <2>2. FlushLeft' \in Nat /\ FlushLeft' <= FlushLeft
      BY <1>1, <2>1, AdvanceShortens
    <2>3. \A m \in Mark : /\ at'[m] \in {"unsent", "chan", "buf"} => at'[m] = at[m]
                          /\ at'[m] = "batch" => at[m] = "batch" /\ Home[m] # stage
      BY <1>4 DEF InsertOk, SleepDrop, Move, In
    <2>4. \A m \in Mark : at'[m] = "batch" => Home[m] \in todo'
      BY <1>2, <2>1, <2>3
    <2> QED BY <1>1, <2>1, <2>2, <2>3, <2>4, FlushShortens
  <1> QED BY <1>3, <1>4

(* A unit of time is a unit off the interval or off the flush.             *)
LEMMA ElapseOnTime ==
  ASSUME AgeInv, Elapse
  PROVE  OnTime'
  <1>1. UNCHANGED <<chan, filled, todo, stage, at>>
    BY DEF Elapse
  <1>2. \A m \in Mark : /\ age[m] \in Nat /\ age'[m] \in {age[m], age[m] + 1}
                        /\ at[m] = "unsent" => age'[m] = age[m]
    BY AgeTypes DEF Elapse, Older, Unresolved
  <1>3. UnsentAreNew' /\ ChanPlaced'
    BY <1>1, <1>2 DEF AgeInv, OnTime, UnsentAreNew, ChanPlaced
  <1>4. CASE stage = "select"
    <2>1. chan = <<>> /\ ticker > 0 /\ ticker' = ticker - 1
      BY <1>4 DEF Elapse
    <2>2. ChanOnTime'
      <3>1. Len(chan') = 0
        BY <1>1, <2>1
      <3> QED BY <3>1 DEF ChanOnTime
    <2>3. BatchOnTime'
      <3>1. \A m \in Mark : at'[m] # "batch"
        BY <1>1, <1>4 DEF AgeInv, OnTime, BatchOnTime, TypeInv, BatcherTyped
      <3> QED BY <3>1 DEF BatchOnTime
    <2>4. BufOnTime'
      <3> SUFFICES ASSUME NEW m \in Mark, at[m] = "buf"
                   PROVE  age'[m] + ticker' <= MaxSecs + FlushMax + Tables(ChanCap)
        BY <1>1 DEF BufOnTime
      <3>1. age[m] + ticker <= MaxSecs + FlushMax + Tables(ChanCap)
        BY DEF AgeInv, OnTime, BufOnTime
      <3> QED BY <1>2, <2>1, <3>1, AgeTypes
    <2> QED BY <1>3, <2>2, <2>3, <2>4 DEF OnTime
  <1>5. CASE stage # "select"
    <2>1. FlushLeft' = FlushLeft - 1
      BY <1>5, ElapseShortens, AgeTypes
    <2>2. ChanOnTime'
      <3> SUFFICES ASSUME NEW p \in 1 .. Len(chan), NEW m \in chan[p].mark
                   PROVE  age'[m] + (Ahead(p - 1))' <= FlushMax + Tables(ChanCap)
        BY <1>1 DEF ChanOnTime
      <3>1. age[m] + Ahead(p - 1) <= FlushMax + Tables(ChanCap) /\ m \in Mark /\ p - 1 \in Nat
        BY AgeTypes DEF AgeInv, OnTime, ChanOnTime
      <3>2. (Ahead(p - 1))' = FlushLeft' + Tables(Cardinality(filled) + (p - 1))
        BY <1>1 DEF Ahead
      <3>3. Ahead(p - 1) = FlushLeft + Tables(Cardinality(filled) + (p - 1))
        BY DEF Ahead
      <3>4. Tables(Cardinality(filled) + (p - 1)) \in Nat
        <4>1. Cardinality(filled) + (p - 1) \in Nat
          BY <3>1, AgeTypes
        <4> QED BY <4>1, TablesAdd
      <3>5. age[m] \in Nat /\ age'[m] \in {age[m], age[m] + 1}
        BY <1>2, <3>1
      <3>6. FlushLeft \in Nat /\ FlushMax + Tables(ChanCap) \in Nat
        BY AgeTypes
      <3>7. (Ahead(p - 1))' = Ahead(p - 1) - 1 /\ Ahead(p - 1) \in Nat
        BY <2>1, <3>2, <3>3, <3>4, <3>6
      <3> QED BY <3>1, <3>5, <3>6, <3>7
    <2>3. BufOnTime'
      <3>1. \A m \in Mark : at'[m] # "buf"
        BY <1>1, <1>5 DEF AgeInv, WindowInv, NoneBufferedInFlush
      <3> QED BY <3>1 DEF BufOnTime
    <2>4. BatchOnTime'
      <3> SUFFICES ASSUME NEW m \in Mark, at[m] = "batch"
                   PROVE  Home[m] \in todo /\ age'[m] + FlushLeft' <= Limit
        BY <1>1 DEF BatchOnTime, Limit
      <3>1. Home[m] \in todo /\ age[m] + FlushLeft <= Limit
        BY DEF AgeInv, OnTime, BatchOnTime
      <3>2. Limit \in Nat
        BY AgeTypes DEF Limit
      <3> QED BY <1>2, <2>1, <3>1, <3>2, AgeTypes
    <2> QED BY <1>3, <2>2, <2>3, <2>4 DEF OnTime
  <1> QED BY <1>4, <1>5

LEMMA OnTimeStep == AgeInv /\ [Next]_vars => OnTime'
  <1> SUFFICES ASSUME AgeInv, [Next]_vars PROVE OnTime'
    OBVIOUS
  <1>1. CASE UNCHANGED vars
    <2>1. UNCHANGED <<chan, filled, todo, stage, phase, attempt, timer, ticker, at, age>>
      BY <1>1 DEF vars, batcher, marks
    <2>2. FlushLeft' = FlushLeft /\ \A n : (Ahead(n))' = Ahead(n)
      BY <2>1 DEF FlushLeft, Left, Ahead
    <2> QED BY <2>1, <2>2
            DEF AgeInv, OnTime, UnsentAreNew, ChanPlaced, ChanOnTime, BufOnTime,
                BatchOnTime, Limit
  <1>2. ASSUME NEW msg \in Message, Publish(msg) PROVE OnTime'
    BY <1>2, PublishOnTime
  <1>3. CASE Recv
    BY <1>3, RecvOnTime
  <1>4. CASE Tick
    BY <1>4, TickOnTime
  <1>5. CASE InsertOk \/ InsertErr \/ SleepRetry \/ SleepDrop
    BY <1>5, InsertOnTime
  <1>6. CASE Elapse
    BY <1>6, ElapseOnTime
  <1> QED BY <1>1, <1>2, <1>3, <1>4, <1>5, <1>6 DEF Next

(* From its timestamp (main.rs:178) to its outcome a row spends at most    *)
(* the window, two flushes, and one table's attempts per message that was  *)
(* ahead of it in the channel (main.rs:222-309): every flush clears all    *)
(* it took, and inserts and sleeps are bounded by their retries.           *)
THEOREM ResolvedInTimeHolds == Spec => []ResolvedInTime
  <1>1. Init => AgeInv
    BY WindowInit, TypeInit, OnTimeInit DEF AgeInv
  <1>2. AgeInv /\ [Next]_vars => AgeInv'
    BY WindowStep, TypeStep, OnTimeStep DEF AgeInv
  <1>3. AgeInv => ResolvedInTime
    <2> SUFFICES ASSUME AgeInv, NEW m \in Mark, Unresolved(m)
                 PROVE  age[m] <= Limit
      BY DEF ResolvedInTime, Limit, Tables
    <2>1. age[m] \in Nat
      BY AgeTypes
    <2>2. CASE at[m] = "chan"
      <3>1. PICK p \in 1 .. Len(chan) : m \in chan[p].mark
        BY <2>2 DEF AgeInv, OnTime, ChanPlaced
      <3>2. age[m] + Ahead(p - 1) <= FlushMax + Tables(ChanCap)
        BY <3>1 DEF AgeInv, OnTime, ChanOnTime
      <3>3. Ahead(p - 1) \in Nat
        <4>1. p - 1 \in Nat
          OBVIOUS
        <4> QED BY <4>1, AheadSplit, AgeTypes
      <3> QED BY <2>1, <3>2, <3>3, AgeTypes DEF Limit
    <2>3. CASE at[m] = "buf"
      <3>1. age[m] + ticker <= MaxSecs + FlushMax + Tables(ChanCap)
        BY <2>3 DEF AgeInv, OnTime, BufOnTime
      <3> QED BY <2>1, <3>1, AgeTypes DEF Limit
    <2>4. CASE at[m] = "batch"
      <3>1. age[m] + FlushLeft <= Limit /\ Limit \in Nat
        BY <2>4, AgeTypes DEF AgeInv, OnTime, BatchOnTime, Limit
      <3> QED BY <2>1, <3>1, AgeTypes
    <2> QED BY <2>2, <2>3, <2>4 DEF Unresolved
  <1> QED BY <1>1, <1>2, <1>3, PTL DEF Spec
=============================================================================
