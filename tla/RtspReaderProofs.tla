-------------------------- MODULE RtspReaderProofs --------------------------
(***************************************************************************)
(* Theorems about RtspReader, for any number of attempts, of requests and  *)
(* of skipped packets, and any timeout.                                    *)
(***************************************************************************)
EXTENDS RtspReader, TLAPS

\* The callback sends once: "received" is closed before the frame is in the
\* channel, and no packet gets past it any more.
OneFrame ==
    /\ callback = "send" => received /\ frameCh = "none"
    /\ ~received => frameCh = "none"

\* The time one connection may take, from its first request to its Close.
OneAttempt == (Requests + 1) * Timeout

\* What earlier attempts, with their pauses, and this one have taken at most.
TimeAtStep ==
    LET before == attempt * (OneAttempt + 1)
    IN  CASE step = "request" -> elapsed <= before + (Requests - left) * Timeout + waited
          [] step = "frame"   -> elapsed <= before + Requests * Timeout + waited
          [] step = "close"   -> elapsed <= before + OneAttempt
          [] step = "pause"   -> elapsed + 1 <= before
          [] step = "idle"    -> elapsed <= Limit

ReaderInv ==
    /\ TypeOK
    /\ OneFrame
    /\ TimeAtStep
    /\ step = "request" => left > 0

-----------------------------------------------------------------------------
\* Arithmetic.

LEMMA ProductMonotonic ==
    ASSUME NEW a \in Nat, NEW b \in Nat, NEW k \in Nat, a <= b
    PROVE  a * k <= b * k /\ a * k \in Nat
<1> DEFINE d == b - a
<1>1. d \in Nat /\ b = a + d
  OBVIOUS
<1>2. d * k \in Nat /\ a * k \in Nat
  BY <1>1
<1> HIDE DEF d
<1>3. (a + d) * k = a * k + d * k
  BY <1>1
<1> QED BY <1>1, <1>2, <1>3

\* One more attempt.
LEMMA NextProduct ==
    ASSUME NEW a \in Nat, NEW k \in Nat
    PROVE  (a + 1) * k = a * k + k
  OBVIOUS

\* After the last attempt there is no pause.
LEMMA AttemptsFitLimit ==
    ASSUME NEW a \in 0..(Attempts - 1)
    PROVE  a * (OneAttempt + 1) + OneAttempt <= Limit
<1>1. OneAttempt \in Nat
  BY ReaderAssumption DEF OneAttempt
<1>2. a * (OneAttempt + 1) <= (Attempts - 1) * (OneAttempt + 1)
  BY <1>1, ReaderAssumption, ProductMonotonic
<1> DEFINE last == Attempts - 1
<1>3. last \in Nat /\ last + 1 = Attempts
  BY ReaderAssumption
<1>4. last * (OneAttempt + 1) = last * OneAttempt + last
  BY <1>1, <1>3
<1>5. (last + 1) * OneAttempt = last * OneAttempt + OneAttempt
  BY <1>1, <1>3, NextProduct
<1>6. Limit = Attempts * OneAttempt + last
  <2>1. Attempts * (Requests + 1) * Timeout = Attempts * ((Requests + 1) * Timeout)
    BY ReaderAssumption
  <2> QED BY <2>1 DEF Limit, OneAttempt
<1>7. a * (OneAttempt + 1) \in Int /\ last * OneAttempt \in Int
  BY <1>1, <1>3
<1> HIDE DEF last
<1> QED BY <1>1, <1>2, <1>3, <1>4, <1>5, <1>6, <1>7

\* The share of a connection that its answered requests have taken at most.
LEMMA AnsweredTime ==
    ASSUME NEW l \in 1..Requests
    PROVE  /\ (Requests - l) * Timeout \in Nat
           /\ (Requests - (l - 1)) * Timeout = (Requests - l) * Timeout + Timeout
           /\ (Requests - l) * Timeout + Timeout <= Requests * Timeout
           /\ OneAttempt = Requests * Timeout + Timeout
           /\ Requests * Timeout \in Nat
<1> DEFINE k == Requests - l
<1>1. k \in Nat /\ k + 1 <= Requests /\ k + 1 = Requests - (l - 1)
  BY ReaderAssumption
<1>2. k * Timeout \in Nat /\ (k + 1) * Timeout <= Requests * Timeout
  BY <1>1, ReaderAssumption, ProductMonotonic
<1>3. (k + 1) * Timeout = k * Timeout + Timeout
  BY <1>1, ReaderAssumption, NextProduct
<1>4. OneAttempt = Requests * Timeout + Timeout /\ Requests * Timeout \in Nat
  BY ReaderAssumption, NextProduct DEF OneAttempt
<1>5. (Requests - (l - 1)) * Timeout = (k + 1) * Timeout
  BY <1>1
<1> HIDE DEF k
<1>6. k * Timeout = (Requests - l) * Timeout
  BY DEF k
<1> QED BY <1>2, <1>3, <1>4, <1>5, <1>6

-----------------------------------------------------------------------------
\* The invariant.

LEMMA ReaderInit == Init => ReaderInv
<1> SUFFICES ASSUME Init PROVE ReaderInv
  OBVIOUS
<1>1. 0 <= Limit
  <2>1. 0 * (OneAttempt + 1) + OneAttempt <= Limit
    BY ReaderAssumption, AttemptsFitLimit
  <2>2. OneAttempt \in Nat
    BY ReaderAssumption DEF OneAttempt
  <2>3. Limit \in Int
    BY ReaderAssumption DEF Limit
  <2> QED BY <2>1, <2>2, <2>3
<1>2. received \in BOOLEAN
  BY Zenon DEF Init
<1>3. TypeOK
  BY <1>2, ReaderAssumption DEF Init, TypeOK
<1> QED BY <1>1, <1>3 DEF Init, ReaderInv, OneFrame, TimeAtStep

LEMMA ReaderTypes ==
    ASSUME ReaderInv, Next
    PROVE  TypeOK'
<1> USE ReaderAssumption DEF ReaderInv, TypeOK, connection
<1>1. CASE Call
  <2>1. received' \in BOOLEAN
    BY <1>1, Zenon DEF Call, Connect
  <2> QED BY <1>1, <2>1 DEF Call, Connect
<1>2. CASE Answered
  BY <1>2 DEF Answered
<1>3. CASE Packet
  <2>1. received' \in BOOLEAN
    BY <1>3, Zenon DEF Packet
  <2> QED BY <1>3, <2>1 DEF Packet
<1>4. CASE Send
  BY <1>4 DEF Send
<1>5. CASE RequestFails
  BY <1>5 DEF RequestFails, ReturnOnce
<1>6. CASE TakeFrame
  BY <1>6 DEF TakeFrame, ReturnOnce
<1>7. CASE FrameTimeout
  BY <1>7 DEF FrameTimeout, ReturnOnce
<1>8. CASE Close
  BY <1>8 DEF Close
<1>9. CASE Retry
  <2>1. received' \in BOOLEAN
    BY <1>9, Zenon DEF Retry, Connect
  <2> QED BY <1>9, <2>1 DEF Retry, Connect
<1>10. CASE Tick
  BY <1>10 DEF Tick
<1> QED BY <1>1, <1>2, <1>3, <1>4, <1>5, <1>6, <1>7, <1>8, <1>9, <1>10
        DEF Next, ReadFrame

LEMMA ReaderOneFrame ==
    ASSUME ReaderInv, Next
    PROVE  OneFrame' /\ (step = "request" => left > 0)'
<1> USE ReaderAssumption DEF ReaderInv, TypeOK, OneFrame, connection
<1>1. CASE Call
  BY <1>1 DEF Call, Connect
<1>2. CASE Answered
  BY <1>2 DEF Answered
<1>3. CASE Packet
  BY <1>3 DEF Packet
<1>4. CASE Send
  BY <1>4 DEF Send
<1>5. CASE RequestFails
  BY <1>5 DEF RequestFails, ReturnOnce
<1>6. CASE TakeFrame
  BY <1>6 DEF TakeFrame, ReturnOnce
<1>7. CASE FrameTimeout
  BY <1>7 DEF FrameTimeout, ReturnOnce
<1>8. CASE Close
  BY <1>8 DEF Close
<1>9. CASE Retry
  BY <1>9 DEF Retry, Connect
<1>10. CASE Tick
  BY <1>10 DEF Tick
<1> QED BY <1>1, <1>2, <1>3, <1>4, <1>5, <1>6, <1>7, <1>8, <1>9, <1>10
        DEF Next, ReadFrame

\* Each step moves what it has used up to the account of the next one.
LEMMA ReaderTime ==
    ASSUME ReaderInv, Next
    PROVE  TimeAtStep'
<1> DEFINE before == attempt * (OneAttempt + 1)
<1>1. /\ attempt \in 0..(Attempts - 1) /\ left \in 0..Requests /\ waited \in 0..Timeout
      /\ elapsed \in Nat
      /\ step \in {"idle", "request", "frame", "close", "pause"}
  BY DEF ReaderInv, TypeOK
<1>2. OneAttempt \in Nat /\ Limit \in Int
  BY ReaderAssumption DEF OneAttempt, Limit
<1>3. before \in Nat /\ before + OneAttempt <= Limit
  <2>1. attempt \in Nat /\ OneAttempt + 1 \in Nat
    BY <1>1, <1>2, ReaderAssumption
  <2>2. before \in Nat
    BY <2>1
  <2> QED BY <1>1, <2>2, AttemptsFitLimit
<1>4. /\ OneAttempt = Requests * Timeout + Timeout
      /\ Requests * Timeout \in Nat
  BY ReaderAssumption, AnsweredTime
<1>5. step = "request" => left \in 1..Requests
  BY <1>1 DEF ReaderInv
<1>6. /\ step = "request" => elapsed <= before + (Requests - left) * Timeout + waited
      /\ step = "frame"   => elapsed <= before + Requests * Timeout + waited
      /\ step = "close"   => elapsed <= before + OneAttempt
      /\ step = "pause"   => elapsed + 1 <= before
      /\ step = "idle"    => elapsed <= Limit
  BY <1>1 DEF ReaderInv, TimeAtStep
<1>7. CASE Call
  <2>1. /\ step' = "request" /\ attempt' = 0 /\ elapsed' = 0 /\ left' = Requests /\ waited' = 0
    BY <1>7 DEF Call, Connect
  <2>2. 0 * (OneAttempt + 1) = 0 /\ (Requests - Requests) * Timeout = 0
    BY <1>2, ReaderAssumption
  <2> QED BY <2>1, <2>2 DEF TimeAtStep
<1>8. CASE Answered
  <2>1. /\ step = "request" /\ left' = left - 1 /\ waited' = 0
        /\ step' = IF left > 1 THEN "request" ELSE "frame"
        /\ attempt' = attempt /\ elapsed' = elapsed
    BY <1>8 DEF Answered
  <2>2. /\ (Requests - left) * Timeout \in Nat
        /\ (Requests - (left - 1)) * Timeout = (Requests - left) * Timeout + Timeout
        /\ (Requests - left) * Timeout + Timeout <= Requests * Timeout
    BY <2>1, <1>5, AnsweredTime
  <2> HIDE DEF before
  <2>3. elapsed <= before + (Requests - (left - 1)) * Timeout + 0
    BY <2>1, <2>2, <1>1, <1>3, <1>6, ReaderAssumption
  <2>4. elapsed <= before + Requests * Timeout + 0
    BY <2>1, <2>2, <1>1, <1>3, <1>4, <1>6, ReaderAssumption
  <2>5. CASE left > 1
    BY <2>1, <2>3, <2>5 DEF TimeAtStep, before
  <2>6. CASE ~(left > 1)
    BY <2>1, <2>4, <2>6 DEF TimeAtStep, before
  <2> QED BY <2>5, <2>6
<1>9. CASE Packet \/ Send
  <2>1. /\ step' = step /\ attempt' = attempt /\ left' = left
        /\ waited' = waited /\ elapsed' = elapsed
    BY <1>9 DEF Packet, Send
  <2> QED BY <2>1 DEF TimeAtStep, ReaderInv
<1>10. CASE RequestFails \/ TakeFrame \/ FrameTimeout
  <2>1. /\ step' = "close" /\ attempt' = attempt /\ elapsed' = elapsed
        /\ step \in {"request", "frame"}
    BY <1>10 DEF RequestFails, TakeFrame, FrameTimeout, ReturnOnce
  <2> HIDE DEF before
  <2>2. elapsed <= before + OneAttempt
    <3>1. CASE step = "request"
      <4>1. /\ (Requests - left) * Timeout \in Nat
            /\ (Requests - left) * Timeout + Timeout <= Requests * Timeout
        BY <3>1, <1>5, AnsweredTime
      <4> QED BY <3>1, <4>1, <1>1, <1>3, <1>4, <1>6, ReaderAssumption
    <3>2. CASE step = "frame"
      BY <3>2, <1>1, <1>3, <1>4, <1>6, ReaderAssumption
    <3> QED BY <2>1, <3>1, <3>2
  <2> QED BY <2>1, <2>2 DEF TimeAtStep, before
<1>11. CASE Close
  <2>1. CASE outcome = "transient" /\ attempt < Attempts - 1
    <3>1. step = "close" /\ step' = "pause" /\ attempt' = attempt + 1 /\ elapsed' = elapsed
      BY <1>11, <2>1 DEF Close
    <3>2. (attempt + 1) * (OneAttempt + 1) = before + (OneAttempt + 1)
      BY <1>1, <1>2, NextProduct
    <3> HIDE DEF before
    <3>3. elapsed + 1 <= (attempt + 1) * (OneAttempt + 1)
      BY <3>1, <3>2, <1>1, <1>2, <1>3, <1>6
    <3> QED BY <3>1, <3>3 DEF TimeAtStep
  <2>2. CASE ~(outcome = "transient" /\ attempt < Attempts - 1)
    <3>1. step = "close" /\ step' = "idle" /\ elapsed' = elapsed
      BY <1>11, <2>2 DEF Close
    <3> HIDE DEF before
    <3>2. elapsed <= Limit
      BY <3>1, <1>1, <1>2, <1>3, <1>6
    <3>3. Limit' = Limit
      BY DEF Limit
    <3> QED BY <3>1, <3>2, <3>3 DEF TimeAtStep
  <2> QED BY <2>1, <2>2
<1>12. CASE Retry
  <2>1. /\ step = "pause" /\ step' = "request" /\ attempt' = attempt /\ elapsed' = elapsed + 1
        /\ left' = Requests /\ waited' = 0
    BY <1>12 DEF Retry, Connect
  <2>2. (Requests - Requests) * Timeout = 0
    BY ReaderAssumption
  <2> HIDE DEF before
  <2>3. elapsed + 1 <= before + (Requests - Requests) * Timeout + 0
    BY <2>1, <2>2, <1>3, <1>6
  <2> QED BY <2>1, <2>3 DEF TimeAtStep, before
<1>13. CASE Tick
  <2>1. /\ step \in {"request", "frame"} /\ step' = step /\ attempt' = attempt
        /\ left' = left /\ waited' = waited + 1 /\ elapsed' = elapsed + 1
    BY <1>13 DEF Tick
  <2>2. step = "request" => (Requests - left) * Timeout \in Nat
    BY <1>5, AnsweredTime
  <2> HIDE DEF before
  <2>3. CASE step = "request"
    <3>1. elapsed + 1 <= before + (Requests - left) * Timeout + (waited + 1)
      BY <2>2, <2>3, <1>1, <1>3, <1>6
    <3> QED BY <2>1, <2>3, <3>1 DEF TimeAtStep, before
  <2>4. CASE step = "frame"
    <3>1. elapsed + 1 <= before + Requests * Timeout + (waited + 1)
      BY <2>4, <1>1, <1>3, <1>4, <1>6
    <3> QED BY <2>1, <2>4, <3>1 DEF TimeAtStep, before
  <2> QED BY <2>1, <2>3, <2>4
<1> QED BY <1>7, <1>8, <1>9, <1>10, <1>11, <1>12, <1>13 DEF Next, ReadFrame

LEMMA ReaderInvariance == Spec => []ReaderInv
<1>1. ReaderInv /\ UNCHANGED vars => ReaderInv'
  <2> SUFFICES ASSUME ReaderInv, UNCHANGED vars PROVE ReaderInv'
    OBVIOUS
  <2>1. TypeOK' /\ OneFrame' /\ (step = "request" => left > 0)'
    BY DEF vars, connection, ReaderInv, TypeOK, OneFrame
  <2>2. TimeAtStep'
    BY DEF vars, connection, ReaderInv, TimeAtStep
  <2> QED BY <2>1, <2>2 DEF ReaderInv
<1>2. ReaderInv /\ Next => ReaderInv'
  BY ReaderTypes, ReaderOneFrame, ReaderTime DEF ReaderInv
<1> QED BY <1>1, <1>2, ReaderInit, PTL DEF Spec

\* Every variable keeps its type: no attempt, request or skipped packet too many.
THEOREM ReaderTypeCorrectness == Spec => []TypeOK
  BY ReaderInvariance, PTL DEF ReaderInv

\* The packet callback never waits for room in the channel, however late the
\* frame is, so that Close never waits for the callback.
THEOREM CallbackIsFree == Spec => []CallbackNeverStuck
<1>1. ReaderInv => CallbackNeverStuck
  BY DEF ReaderInv, OneFrame, CallbackNeverStuck
<1> QED BY <1>1, ReaderInvariance, PTL

\* ReadFrame never takes longer than the limit, whatever the camera does and
\* however its timeouts are retried.
THEOREM ReadFrameTimeIsBounded == Spec => []TimeIsBounded
<1>1. ReaderInv => TimeIsBounded
  <2> SUFFICES ASSUME ReaderInv PROVE elapsed <= Limit
    BY DEF TimeIsBounded
  <2> DEFINE before == attempt * (OneAttempt + 1)
  <2>1. /\ attempt \in 0..(Attempts - 1) /\ left \in 0..Requests /\ waited \in 0..Timeout
        /\ elapsed \in Nat
        /\ step \in {"idle", "request", "frame", "close", "pause"}
    BY DEF ReaderInv, TypeOK
  <2>2. before \in Nat /\ before + OneAttempt <= Limit
    <3>1. attempt \in Nat /\ OneAttempt + 1 \in Nat
      BY <2>1, ReaderAssumption DEF OneAttempt
    <3> QED BY <2>1, <3>1, AttemptsFitLimit
  <2>3. OneAttempt \in Nat /\ Limit \in Int
    BY ReaderAssumption DEF OneAttempt, Limit
  <2>4. OneAttempt = Requests * Timeout + Timeout /\ Requests * Timeout \in Nat
    BY ReaderAssumption, AnsweredTime
  <2>5. /\ step = "request" => elapsed <= before + (Requests - left) * Timeout + waited
        /\ step = "frame"   => elapsed <= before + Requests * Timeout + waited
        /\ step = "close"   => elapsed <= before + OneAttempt
        /\ step = "pause"   => elapsed + 1 <= before
        /\ step = "idle"    => elapsed <= Limit
    BY <2>1 DEF ReaderInv, TimeAtStep
  <2> HIDE DEF before
  <2>6. CASE step = "request"
    <3>1. left \in 1..Requests
      BY <2>1, <2>6 DEF ReaderInv
    <3>2. /\ (Requests - left) * Timeout \in Nat
          /\ (Requests - left) * Timeout + Timeout <= Requests * Timeout
      BY <3>1, AnsweredTime
    <3> QED BY <2>1, <2>2, <2>3, <2>4, <2>5, <2>6, <3>2, ReaderAssumption
  <2>7. CASE step # "request"
    BY <2>1, <2>2, <2>3, <2>4, <2>5, <2>7, ReaderAssumption
  <2> QED BY <2>6, <2>7
<1> QED BY <1>1, ReaderInvariance, PTL
=============================================================================
