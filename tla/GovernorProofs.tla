--------------------------- MODULE GovernorProofs ---------------------------
(***************************************************************************)
(* Proofs about Governor, for any rate, burst, duty cycle and plan: what   *)
(* is read of what the bucket was asked for stays below the burst and      *)
(* twice the rate, and the task rests as much as its duty cycle asks for.  *)
(***************************************************************************)
EXTENDS Governor, TLAPS

-----------------------------------------------------------------------------
(* Arithmetic.                                                             *)

LEMMA Constants ==
    ASSUME Sensible
    PROVE  RATE \in Nat /\ CAPACITY \in Nat /\ WORK \in Nat /\ IDLE \in Nat /\ POWER_BACKOFF \in Nat
  BY DEF Sensible

\* A quotient that is rounded down is short by less than one.
LEMMA Quotient ==
    ASSUME NEW n \in Nat, NEW d \in Nat \ {0}
    PROVE  n \div d \in Nat /\ d * (n \div d) <= n /\ n < d * (n \div d) + d
<1>1. n \div d \in Nat
  OBVIOUS
<1>2. d * (n \div d) <= n
  OBVIOUS
<1>3. n < d * (n \div d) + d
  OBVIOUS
<1> QED
  BY <1>1, <1>2, <1>3

-----------------------------------------------------------------------------
(* The bytes that the rate lets through in some ticks.                     *)

Through(t) == RATE * t

LEMMA ThroughInt == ASSUME Sensible, NEW m \in Int PROVE Through(m) \in Int
  BY Constants DEF Through

LEMMA ThroughNothing == ASSUME Sensible PROVE Through(0) = 0
  BY Constants DEF Through

LEMMA ThroughSum ==
    ASSUME Sensible, NEW m \in Int, NEW n \in Int
    PROVE  Through(m + n) = Through(m) + Through(n)
  BY Constants DEF Through

LEMMA ThroughTwice == ASSUME Sensible, NEW m \in Int PROVE 2 * RATE * m = 2 * Through(m)
  BY Constants DEF Through

LEMMA ThroughMore ==
    ASSUME Sensible, NEW m \in Int, NEW n \in Int, m <= n
    PROVE  Through(m) <= Through(n)
<1>1. n - m \in Nat /\ RATE \in Nat
  BY Constants
<1>2. RATE * (n - m) \in Nat
  BY <1>1
<1>3. RATE * (n - m) = Through(n) - Through(m)
  BY <1>1 DEF Through
<1> QED
  BY <1>2, <1>3, ThroughInt

-----------------------------------------------------------------------------
(* What the bucket and the duty cycle promise of one call.                 *)

Bucket == [tokens : 0 .. CAPACITY, last : Nat]

LEMMA RefillFacts ==
    ASSUME Sensible, NEW b \in Bucket, NEW t \in Nat, b.last <= t
    PROVE  /\ refill(b, t) \in Bucket
           /\ refill(b, t).last = t
           /\ refill(b, t).tokens <= b.tokens + Through(t) - Through(b.last)
<1>1. RATE \in Nat /\ CAPACITY \in Nat /\ b.tokens \in 0 .. CAPACITY /\ b.last \in Nat
  BY DEF Sensible, Bucket
<1> DEFINE more == (t - b.last) * RATE
<1>2. /\ more \in Nat /\ more = Through(t) - Through(b.last)
      /\ Through(t) \in Int /\ Through(b.last) \in Int
  <2>1. Through(b.last + (t - b.last)) = Through(b.last) + Through(t - b.last)
    BY <1>1, ThroughSum
  <2>2. more = Through(t - b.last) /\ more \in Nat
    BY <1>1 DEF Through
  <2>3. b.last + (t - b.last) = t
    BY <1>1
  <2>4. Through(t) \in Int /\ Through(b.last) \in Int
    BY <1>1, ThroughInt
  <2> QED
    BY <2>1, <2>2, <2>3, <2>4
<1> HIDE DEF more
<1>3. refill(b, t) = [tokens |-> Least(b.tokens + more, CAPACITY), last |-> t]
  BY DEF refill, more
<1>4. /\ Least(b.tokens + more, CAPACITY) \in 0 .. CAPACITY
      /\ Least(b.tokens + more, CAPACITY) <= b.tokens + more
  BY <1>1, <1>2 DEF Least
<1> QED
  BY <1>1, <1>2, <1>3, <1>4 DEF Bucket

\* What is asked for is paid with what is there and what the wait will bring.
LEMMA SpendFacts ==
    ASSUME Sensible, NEW b \in Bucket, NEW t \in Nat, b.last <= t, NEW bytes \in Nat
    PROVE  LET spent == spend(b, t, bytes)
           IN  /\ spent.bucket \in Bucket /\ spent.bucket.last = t /\ spent.wait \in Nat
               /\ bytes + spent.bucket.tokens
                    <= b.tokens + Through(t) - Through(b.last) + Through(spent.wait)
<1> DEFINE full == refill(b, t)
           deficit == bytes - full.tokens
<1>1. /\ full \in Bucket /\ full.last = t
      /\ full.tokens <= b.tokens + Through(t) - Through(b.last)
  BY RefillFacts
<1>2. /\ RATE \in Nat \ {0} /\ CAPACITY \in Nat /\ full.tokens \in 0 .. CAPACITY
      /\ b.tokens \in 0 .. CAPACITY /\ b.last \in Nat
  BY <1>1 DEF Sensible, Bucket
<1>3. spend(b, t, bytes) =
        IF deficit <= 0
        THEN [bucket |-> [full EXCEPT !.tokens = @ - bytes], wait |-> 0]
        ELSE [bucket |-> [full EXCEPT !.tokens = 0], wait |-> (deficit + RATE - 1) \div RATE]
  BY DEF spend
<1> HIDE DEF full
<1>4. Through(t) \in Int /\ Through(b.last) \in Int /\ Through(0) = 0
  BY <1>2, ThroughInt, ThroughNothing
<1>5. CASE deficit <= 0
  <2>1. full.tokens - bytes \in 0 .. CAPACITY
    BY <1>2, <1>5
  <2> DEFINE left == [full EXCEPT !.tokens = @ - bytes]
  <2>2. left \in Bucket /\ left.last = t /\ left.tokens = full.tokens - bytes
    BY <1>1, <2>1 DEF Bucket
  <2>3. spend(b, t, bytes) = [bucket |-> left, wait |-> 0]
    BY <1>3, <1>5
  <2> HIDE DEF left
  <2> QED
    BY <1>1, <1>2, <1>4, <2>2, <2>3
<1>6. CASE ~(deficit <= 0)
  <2>1. deficit \in Nat /\ deficit + RATE - 1 \in Nat
    BY <1>2, <1>6
  <2> DEFINE wait == (deficit + RATE - 1) \div RATE
             left == [full EXCEPT !.tokens = 0]
  <2>2. wait \in Nat /\ deficit + RATE - 1 < Through(wait) + RATE
    BY <1>2, <2>1, Quotient DEF Through
  <2>3. left \in Bucket /\ left.last = t /\ left.tokens = 0
    BY <1>1, <1>2 DEF Bucket
  <2>4. spend(b, t, bytes) = [bucket |-> left, wait |-> wait]
    BY <1>3, <1>6
  <2> HIDE DEF wait, left
  <2>5. Through(wait) \in Int
    BY <1>2, <2>2, ThroughInt
  <2>6. bytes <= full.tokens + Through(wait)
    BY <1>2, <2>1, <2>2, <2>5
  <2> QED
    BY <1>1, <1>2, <1>4, <2>2, <2>3, <2>4, <2>5, <2>6
<1> QED
  BY <1>5, <1>6

\* The rest is what the duty cycle asks for, to half a tick.
LEMMA IdleFacts ==
    ASSUME Sensible, NEW spent \in Nat
    PROVE  /\ idle_after(spent) \in Nat
           /\ 2 * IDLE * spent <= 2 * WORK * idle_after(spent) + WORK
<1>1. WORK \in Nat \ {0} /\ IDLE \in Nat
  BY DEF Sensible
<1> DEFINE n == 2 * spent * IDLE + WORK
           d == 2 * WORK
<1>2. n \in Nat /\ d \in Nat \ {0}
  BY <1>1
<1>3. n \div d \in Nat /\ n < d * (n \div d) + d
  BY <1>2, Quotient
<1>4. idle_after(spent) = n \div d
  BY DEF idle_after
<1>5. n = 2 * IDLE * spent + WORK
  BY <1>1
<1> QED
  BY <1>1, <1>3, <1>4, <1>5


-----------------------------------------------------------------------------
(* The inductive invariant.                                                *)

\* Until when the bucket has been paid, and what it has been asked for.
PaidUntil == IF phase = "waiting" THEN until ELSE now
Asked == (IF phase = "waiting" THEN read + Head(groups) ELSE read) - free

\* The time by which the rest so far has been earned.
RestedUntil == IF phase \in {"working", "resting"} THEN until ELSE now

\* What is asked for is paid with the burst, with the refills so far, and
\* with the waits so far, which are at most the time that passed.
Paid == Asked + bucket.tokens <= CAPACITY + Through(bucket.last) + Through(PaidUntil)

Rested == groups # <<>> =>
    2 * IDLE * worked <= 2 * WORK * (RestedUntil - worked) + WORK * done

Timely ==
    /\ bucket.last <= now
    /\ phase = "working" => until <= now
    /\ phase \in {"waiting", "working"} => groups # <<>>

IInv == TypeOK /\ Timely /\ Paid /\ TwiceTheRate /\ Rested

LEMMA InitIInv == ASSUME Sensible PROVE Init => IInv
<1> SUFFICES ASSUME Init PROVE IInv
  OBVIOUS
<1>1. /\ RATE \in Nat /\ CAPACITY \in Nat /\ WORK \in Nat /\ IDLE \in Nat
      /\ groups \in Seq(Nat)
  BY Constants DEF Sensible, Init
<1>2. bucket.tokens = CAPACITY /\ bucket.last = 0 /\ now = 0 /\ read = 0 /\ free = 0
      /\ worked = 0 /\ done = 0 /\ phase = "planned" /\ until = 0
  BY DEF Init
<1>3. TypeOK
  BY <1>1 DEF Init, TypeOK
<1>4. Through(0) = 0 /\ 2 * RATE * 0 = 0 /\ 2 * IDLE * 0 = 0 /\ 2 * WORK * (0 - 0) = 0 /\ WORK * 0 = 0
  BY <1>1, ThroughNothing
<1>5. Timely
  BY <1>2 DEF Timely
<1>6. Paid /\ TwiceTheRate
  BY <1>1, <1>2, <1>4 DEF Paid, Asked, PaidUntil, TwiceTheRate
<1>7. Rested
  BY <1>1, <1>2, <1>4 DEF Rested, RestedUntil
<1> QED
  BY <1>3, <1>5, <1>6, <1>7 DEF IInv

\* More time is more rest.
LEMMA MoreRest ==
    ASSUME Sensible, NEW m \in Int, NEW n \in Int, m <= n, NEW w \in Int
    PROVE  2 * WORK * (m - w) <= 2 * WORK * (n - w)
<1>1. WORK \in Nat /\ n - m \in Nat
  BY Constants
<1>2. 2 * WORK * (n - m) \in Nat
  BY <1>1
<1>3. 2 * WORK * (n - m) = 2 * WORK * (n - w) - 2 * WORK * (m - w)
  BY <1>1
<1>4. 2 * WORK * (n - w) \in Int /\ 2 * WORK * (m - w) \in Int
  BY <1>1
<1> QED
  BY <1>2, <1>3, <1>4

\* The rest after a piece of work pays for that work.
LEMMA RestPays ==
    ASSUME NEW w \in Nat, NEW i \in Nat, NEW worked0 \in Nat, NEW begun \in Nat,
           NEW spent \in Nat, NEW rest \in Nat, NEW k \in Nat,
           2 * i * worked0 <= 2 * w * (begun - worked0) + w * k,
           2 * i * spent <= 2 * w * rest + w
    PROVE  2 * i * (worked0 + spent)
             <= 2 * w * (((begun + spent) + rest) - (worked0 + spent)) + w * (k + 1)
<1>1. 2 * i * (worked0 + spent) = 2 * i * worked0 + 2 * i * spent
  OBVIOUS
<1>2. 2 * w * (((begun + spent) + rest) - (worked0 + spent)) = 2 * w * (begun - worked0) + 2 * w * rest
  OBVIOUS
<1>3. w * (k + 1) = w * k + w
  OBVIOUS
<1>4. /\ 2 * i * worked0 \in Int /\ 2 * i * spent \in Int /\ 2 * w * (begun - worked0) \in Int
      /\ 2 * w * rest \in Int /\ w * k \in Int
  OBVIOUS
<1> QED
  BY <1>1, <1>2, <1>3, <1>4


-----------------------------------------------------------------------------
(* Its parts, as numbers.                                                  *)

LEMMA Types ==
    ASSUME Sensible, TypeOK
    PROVE  /\ now \in Nat /\ until \in Nat /\ read \in Nat /\ free \in Nat
           /\ worked \in Nat /\ done \in Nat
           /\ bucket \in Bucket /\ bucket.tokens \in Nat /\ bucket.last \in Nat
           /\ groups \in Seq(Nat)
           /\ groups # <<>> => Head(groups) \in Nat /\ Tail(groups) \in Seq(Nat)
<1>1. bucket \in Bucket /\ groups \in Seq(Nat)
  BY DEF TypeOK, Bucket
<1> QED
  BY <1>1, Constants DEF TypeOK, Bucket

LEMMA ThrottleStep == ASSUME Sensible PROVE IInv /\ Throttle => IInv'
<1> SUFFICES ASSUME IInv, Throttle PROVE IInv'
  OBVIOUS
<1> DEFINE bytes == Head(groups)
           spent == spend(bucket, now, bytes)
           left == spent.bucket
           wait == spent.wait
<1>1. /\ bucket \in Bucket /\ bucket.last <= now /\ groups # <<>>
      /\ phase = "planned" /\ phase' = "waiting"
      /\ now' = now /\ groups' = groups /\ read' = read /\ worked' = worked /\ done' = done
      /\ power' = power
  BY Types DEF Throttle, IInv, Timely
<1>2. /\ now \in Nat /\ read \in Nat /\ free \in Nat /\ bytes \in Nat
      /\ bucket.tokens \in Nat /\ bucket.last \in Nat
      /\ CAPACITY \in Nat /\ POWER_BACKOFF \in Nat
  BY <1>1, Types, Constants DEF IInv
<1>3. \/ until' = now + POWER_BACKOFF /\ free' = free + bytes /\ bucket' = bucket
      \/ bucket' = left /\ until' = now + wait /\ free' = free
  BY DEF Throttle
<1>4. /\ left \in Bucket /\ left.last = now /\ wait \in Nat
      /\ bytes + left.tokens
           <= bucket.tokens + Through(now) - Through(bucket.last) + Through(wait)
  BY <1>1, <1>2, SpendFacts
<1>5. (read - free) + bucket.tokens <= CAPACITY + Through(bucket.last) + Through(now)
  BY <1>1 DEF IInv, Paid, Asked, PaidUntil
<1> HIDE DEF bytes, spent, left, wait
<1>6. /\ left.tokens \in Nat
      /\ Through(now) \in Int /\ Through(bucket.last) \in Int /\ Through(wait) \in Int
  BY <1>2, <1>4, ThroughInt DEF Bucket
<1>7. /\ until' \in Nat /\ free' \in Nat /\ free <= free'
      /\ bucket' \in Bucket /\ bucket'.last <= now
      /\ ((read + bytes) - free') + bucket'.tokens
           <= CAPACITY + Through(bucket'.last) + Through(until')
  <2>1. CASE until' = now + POWER_BACKOFF /\ free' = free + bytes /\ bucket' = bucket
    <3>1. until' \in Nat /\ now <= until' /\ free' \in Nat /\ free <= free'
      BY <1>2, <2>1
    <3>2. Through(now) <= Through(until') /\ Through(until') \in Int
      BY <1>2, <3>1, ThroughMore, ThroughInt
    <3>3. (read + bytes) - free' = read - free
      BY <1>2, <2>1
    <3>4. (read - free) + bucket.tokens <= CAPACITY + Through(bucket.last) + Through(until')
      BY <1>2, <1>5, <1>6, <3>2
    <3> QED
      BY <1>1, <2>1, <3>1, <3>3, <3>4
  <2>2. CASE bucket' = left /\ until' = now + wait /\ free' = free
    <3>1. until' \in Nat /\ Through(until') = Through(now) + Through(wait)
      BY <1>2, <1>4, <2>2, ThroughSum
    <3>2. ((read + bytes) - free) + left.tokens
            <= CAPACITY + Through(now) + (Through(now) + Through(wait))
      BY <1>2, <1>4, <1>5, <1>6
    <3> QED
      BY <1>2, <1>4, <2>2, <3>1, <3>2
  <2> QED
    BY <1>3, <2>1, <2>2
<1>8. TypeOK'
  BY <1>1, <1>2, <1>7 DEF TypeOK, Bucket, IInv
<1>9. Timely'
  BY <1>1, <1>7 DEF Timely
<1>10. Paid'
  BY <1>1, <1>7 DEF Paid, Asked, PaidUntil, bytes
<1>11. TwiceTheRate'
  <2> DEFINE bound == CAPACITY + 2 * RATE * now
  <2>1. bound \in Int /\ read - free <= bound
    BY <1>2, Constants DEF IInv, TwiceTheRate
  <2> HIDE DEF bound
  <2> DEFINE freed == free'
  <2>2. freed \in Nat /\ free <= freed
    BY <1>7
  <2> HIDE DEF freed
  <2>3. read \in Nat /\ free \in Nat
    BY <1>2
  <2>4. read - freed <= bound
    BY <2>1, <2>2, <2>3
  <2> QED
    BY <1>1, <2>4 DEF TwiceTheRate, bound, freed
<1>12. Rested'
  BY <1>1 DEF Rested, RestedUntil, IInv
<1> QED
  BY <1>8, <1>9, <1>10, <1>11, <1>12 DEF IInv

LEMMA BeginWorkStep == ASSUME Sensible PROVE IInv /\ BeginWork => IInv'
<1> SUFFICES ASSUME IInv, BeginWork PROVE IInv'
  OBVIOUS
<1> DEFINE bytes == Head(groups)
<1>1. /\ phase = "waiting" /\ until <= now /\ phase' = "working" /\ until' = now
      /\ read' = read + bytes /\ now' = now /\ groups' = groups /\ free' = free
      /\ bucket' = bucket /\ worked' = worked /\ done' = done /\ power' = power
  BY Types DEF BeginWork, IInv
<1>2. bucket.last <= now /\ groups # <<>>
  BY <1>1 DEF IInv, Timely
<1>3. /\ now \in Nat /\ until \in Nat /\ read \in Nat /\ free \in Nat /\ bytes \in Nat
      /\ bucket.tokens \in Nat /\ bucket.last \in Nat /\ CAPACITY \in Nat
  BY <1>2, Types, Constants DEF IInv
<1>4. ((read + bytes) - free) + bucket.tokens
         <= CAPACITY + Through(bucket.last) + Through(until)
  BY <1>1 DEF IInv, Paid, Asked, PaidUntil
<1> HIDE DEF bytes
<1>5. until <= now
  BY <1>1
<1>6. /\ Through(until) <= Through(now) /\ Through(bucket.last) <= Through(now)
      /\ Through(until) \in Int /\ Through(now) \in Int /\ Through(bucket.last) \in Int
  <2>1. Through(until) <= Through(now)
    BY <1>3, <1>5, ThroughMore
  <2>2. Through(bucket.last) <= Through(now)
    BY <1>2, <1>3, ThroughMore
  <2> QED
    BY <1>3, <2>1, <2>2, ThroughInt
<1>7. TypeOK'
  BY <1>1, <1>3 DEF TypeOK, IInv
<1>8. Timely'
  BY <1>1, <1>2, <1>3 DEF Timely
<1>9. Paid'
  <2>1. ((read + bytes) - free) + bucket.tokens
           <= CAPACITY + Through(bucket.last) + Through(now)
    BY <1>3, <1>4, <1>6
  <2> QED
    BY <1>1, <2>1 DEF Paid, Asked, PaidUntil
<1>10. TwiceTheRate'
  <2>1. (read + bytes) - free <= CAPACITY + 2 * Through(now)
    BY <1>3, <1>4, <1>6
  <2>2. (read + bytes) - free <= CAPACITY + 2 * RATE * now
    BY <1>3, <2>1, ThroughTwice
  <2> QED
    BY <1>1, <2>2 DEF TwiceTheRate
<1>11. Rested'
  BY <1>1 DEF Rested, RestedUntil, IInv
<1> QED
  BY <1>7, <1>8, <1>9, <1>10, <1>11 DEF IInv

LEMMA EndWorkStep == ASSUME Sensible PROVE IInv /\ EndWork => IInv'
<1> SUFFICES ASSUME IInv, EndWork PROVE IInv'
  OBVIOUS
<1> DEFINE spent == now - until
           rest == idle_after(spent)
<1>1. /\ phase = "working" /\ groups # <<>> /\ until <= now /\ bucket.last <= now
      /\ now \in Nat /\ until \in Nat /\ worked \in Nat /\ done \in Nat
      /\ Tail(groups) \in Seq(Nat)
  BY Types DEF EndWork, Worked, IInv, Timely
<1>2. /\ phase' = "resting" /\ until' = now + rest /\ groups' = Tail(groups)
      /\ worked' = worked + now - until /\ done' = done + 1
      /\ now' = now /\ power' = power /\ bucket' = bucket /\ read' = read /\ free' = free
  BY DEF EndWork, Worked
<1>3. spent \in Nat
  BY <1>1
<1>4. WORK \in Nat /\ IDLE \in Nat
  BY Constants
<1>5. rest \in Nat /\ 2 * IDLE * spent <= 2 * WORK * rest + WORK
  BY <1>3, IdleFacts
<1>6. now = until + spent /\ worked' = worked + spent
  BY <1>1, <1>2
<1> HIDE DEF spent, rest
<1>7. TypeOK'
  <2>1. until' \in Nat /\ worked' \in Nat /\ done' \in Nat
    BY <1>1, <1>2, <1>3, <1>5, <1>6
  <2> QED
    BY <1>1, <1>2, <2>1 DEF TypeOK, IInv
<1>8. Timely'
  BY <1>1, <1>2 DEF Timely
<1>9. Paid' /\ TwiceTheRate'
  BY <1>1, <1>2 DEF Paid, Asked, PaidUntil, TwiceTheRate, IInv
<1>10. Rested'
  <2>1. 2 * IDLE * worked <= 2 * WORK * (until - worked) + WORK * done
    BY <1>1 DEF Rested, RestedUntil, IInv
  <2>2. 2 * IDLE * (worked + spent)
          <= 2 * WORK * (((until + spent) + rest) - (worked + spent)) + WORK * (done + 1)
    BY <1>1, <1>3, <1>4, <1>5, <2>1, RestPays
  <2>3. until' = (until + spent) + rest
    BY <1>2, <1>6
  <2>4. 2 * IDLE * worked' <= 2 * WORK * (until' - worked') + WORK * done'
    BY <1>2, <1>6, <2>2, <2>3
  <2> QED
    BY <1>2, <2>4 DEF Rested, RestedUntil
<1> QED
  BY <1>7, <1>8, <1>9, <1>10 DEF IInv

LEMMA PrepareFailsStep == ASSUME Sensible PROVE IInv /\ PrepareFails => IInv'
<1> SUFFICES ASSUME IInv, PrepareFails PROVE IInv'
  OBVIOUS
<1>1. /\ phase = "working" /\ until <= now
      /\ now \in Nat /\ until \in Nat /\ worked \in Nat /\ bucket.last <= now
  BY Types DEF PrepareFails, Worked, IInv, Timely
<1>2. /\ phase' = "planned" /\ groups' = <<>> /\ worked' = worked + now - until
      /\ until' = until /\ done' = done
      /\ now' = now /\ power' = power /\ bucket' = bucket /\ read' = read /\ free' = free
  BY DEF PrepareFails, Worked
<1>3. worked' \in Nat
  BY <1>1, <1>2
<1>4. TypeOK' /\ Timely'
  BY <1>1, <1>2, <1>3 DEF TypeOK, Timely, IInv
<1>5. Paid' /\ TwiceTheRate'
  BY <1>1, <1>2 DEF Paid, Asked, PaidUntil, TwiceTheRate, IInv
<1>6. Rested'
  BY <1>2 DEF Rested
<1> QED
  BY <1>4, <1>5, <1>6 DEF IInv

\* The rest that is due is over when the task goes on, however much later.
LEMMA GoOnStep == ASSUME Sensible PROVE IInv /\ GoOn => IInv'
<1> SUFFICES ASSUME IInv, GoOn PROVE IInv'
  OBVIOUS
<1>1. /\ phase = "resting" /\ until <= now /\ phase' = "planned"
      /\ now \in Nat /\ until \in Nat /\ worked \in Nat /\ done \in Nat
      /\ now' = now /\ power' = power /\ bucket' = bucket /\ groups' = groups /\ until' = until
      /\ read' = read /\ free' = free /\ worked' = worked /\ done' = done
  BY Types DEF GoOn, paced, IInv
<1>2. TypeOK' /\ Timely'
  BY <1>1 DEF TypeOK, Timely, IInv
<1>3. Paid' /\ TwiceTheRate'
  BY <1>1 DEF Paid, Asked, PaidUntil, TwiceTheRate, IInv
<1>4. Rested'
  <2>1. ASSUME groups # <<>>
        PROVE  2 * IDLE * worked <= 2 * WORK * (now - worked) + WORK * done
    <3>1. 2 * IDLE * worked <= 2 * WORK * (until - worked) + WORK * done
      BY <1>1, <2>1 DEF Rested, RestedUntil, IInv
    <3>2. 2 * WORK * (until - worked) <= 2 * WORK * (now - worked)
      BY <1>1, MoreRest
    <3>3. 2 * IDLE * worked \in Int /\ 2 * WORK * (until - worked) \in Int
          /\ 2 * WORK * (now - worked) \in Int /\ WORK * done \in Int
      BY <1>1, Constants
    <3> QED
      BY <3>1, <3>2, <3>3
  <2> QED
    BY <1>1, <2>1 DEF Rested, RestedUntil
<1> QED
  BY <1>2, <1>3, <1>4 DEF IInv

LEMMA TickStep == ASSUME Sensible PROVE IInv /\ Tick => IInv'
<1> SUFFICES ASSUME IInv, Tick PROVE IInv'
  OBVIOUS
<1>1. /\ now' = now + 1
      /\ now \in Nat /\ until \in Nat /\ worked \in Nat /\ done \in Nat
      /\ read \in Nat /\ free \in Nat /\ bucket.tokens \in Nat /\ bucket.last \in Nat
      /\ power' = power /\ bucket' = bucket /\ groups' = groups /\ until' = until /\ phase' = phase
      /\ read' = read /\ free' = free /\ worked' = worked /\ done' = done
  BY Types DEF Tick, paced, IInv
<1>2. now' \in Nat /\ now <= now' /\ CAPACITY \in Nat
  BY <1>1, Constants
<1>3. TypeOK' /\ Timely'
  BY <1>1, <1>2 DEF TypeOK, Timely, IInv
<1>4. /\ Through(now) <= Through(now') /\ Through(now) \in Int /\ Through(now') \in Int
      /\ Through(bucket.last) \in Int
  BY <1>1, <1>2, ThroughMore, ThroughInt
<1>5. Paid'
  <2>1. CASE phase = "waiting"
    BY <1>1, <2>1 DEF Paid, Asked, PaidUntil, IInv
  <2>2. CASE phase # "waiting"
    <3>1. (read - free) + bucket.tokens <= CAPACITY + Through(bucket.last) + Through(now)
      BY <2>2 DEF Paid, Asked, PaidUntil, IInv
    <3>2. (read - free) + bucket.tokens <= CAPACITY + Through(bucket.last) + Through(now')
      BY <1>1, <1>2, <1>4, <3>1
    <3> QED
      BY <1>1, <2>2, <3>2 DEF Paid, Asked, PaidUntil
  <2> QED
    BY <2>1, <2>2
<1>6. TwiceTheRate'
  <2>1. read - free <= CAPACITY + 2 * Through(now)
    BY <1>1, ThroughTwice DEF TwiceTheRate, IInv
  <2>2. read - free <= CAPACITY + 2 * Through(now')
    BY <1>1, <1>2, <1>4, <2>1
  <2> QED
    BY <1>1, <1>2, <2>2, ThroughTwice DEF TwiceTheRate
<1>7. Rested'
  <2>1. CASE phase \in {"working", "resting"}
    BY <1>1, <2>1 DEF Rested, RestedUntil, IInv
  <2>2. ASSUME phase \notin {"working", "resting"}, groups # <<>>
        PROVE  2 * IDLE * worked <= 2 * WORK * (now' - worked) + WORK * done
    <3>1. 2 * IDLE * worked <= 2 * WORK * (now - worked) + WORK * done
      BY <2>2 DEF Rested, RestedUntil, IInv
    <3>2. 2 * WORK * (now - worked) <= 2 * WORK * (now' - worked)
      <4> DEFINE later == now'
      <4>1. later \in Int /\ now \in Int /\ worked \in Int /\ now <= later
        BY <1>1, <1>2
      <4> HIDE DEF later
      <4>2. 2 * WORK * (now - worked) <= 2 * WORK * (later - worked)
        BY <4>1, MoreRest
      <4> QED
        BY <4>2 DEF later
    <3>3. 2 * IDLE * worked \in Int /\ 2 * WORK * (now - worked) \in Int
          /\ 2 * WORK * (now' - worked) \in Int /\ WORK * done \in Int
      BY <1>1, <1>2, Constants
    <3> QED
      BY <3>1, <3>2, <3>3
  <2> QED
    BY <1>1, <2>1, <2>2 DEF Rested, RestedUntil
<1> QED
  BY <1>3, <1>5, <1>6, <1>7 DEF IInv

\* Of the rest, the reading of the power supplies and what changes nothing.
LEMMA OtherSteps == ASSUME Sensible PROVE IInv /\ (PowerChanges \/ UNCHANGED vars) => IInv'
<1> SUFFICES ASSUME IInv, PowerChanges \/ UNCHANGED vars PROVE IInv'
  OBVIOUS
<1>1. /\ power' \in Reading
      /\ now' = now /\ bucket' = bucket /\ groups' = groups /\ until' = until /\ phase' = phase
      /\ read' = read /\ free' = free /\ worked' = worked /\ done' = done
  BY DEF PowerChanges, vars, paced, IInv, TypeOK
<1> QED
  BY <1>1 DEF IInv, TypeOK, Timely, Paid, Asked, PaidUntil, TwiceTheRate, Rested, RestedUntil

-----------------------------------------------------------------------------
\* The invariant, of any plan and whatever the machine says of its power.
THEOREM Invariance == ASSUME Sensible PROVE Spec => []IInv
<1>1. IInv /\ [Next]_vars => IInv'
  BY ThrottleStep, BeginWorkStep, EndWorkStep, PrepareFailsStep, GoOnStep, TickStep, OtherSteps
  DEF Next
<1> QED
  BY <1>1, InitIInv, PTL DEF Spec

\* The type of each variable: the bucket never holds more than its burst
\* (TokenBucket::refill), and no sleep and no count is negative.
THEOREM TypeCorrect == ASSUME Sensible PROVE Spec => []TypeOK
<1>1. IInv => TypeOK
  BY DEF IInv
<1> QED
  BY <1>1, Invariance, PTL

\* Of the bytes the bucket was asked for, no more are read than the burst and
\* twice the rate (Governor::throttle, TokenBucket::spend).
THEOREM RateKept == ASSUME Sensible PROVE Spec => []TwiceTheRate
<1>1. IInv => TwiceTheRate
  BY DEF IInv
<1> QED
  BY <1>1, Invariance, PTL

\* Whenever another group is due, the rest that the duty cycle asks for all
\* the work so far is over (Governor::after_cpu_work, DutyCycle::idle_after).
THEOREM DutyKept == ASSUME Sensible PROVE Spec => []DutyCycleKept
<1>1. IInv => DutyCycleKept
  BY DEF IInv, Rested, RestedUntil, DutyCycleKept
<1> QED
  BY <1>1, Invariance, PTL
=============================================================================
