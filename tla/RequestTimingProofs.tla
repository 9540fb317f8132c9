------------------------ MODULE RequestTimingProofs -------------------------
(***************************************************************************)
(* Proofs about RequestTiming, for any delays, timeouts and numbers of     *)
(* retries and channels: if the longest backoffs of Fit channels are       *)
(* shorter than the client timeout, no request loses its caller on them;   *)
(* if they are shorter than the timeout of the drain, it cuts none off.    *)
(* With Fit = Channels the whole request is safe.                          *)
(***************************************************************************)
EXTENDS RequestTiming, TLAPS

\* The jitter is never negative and adds a quarter of the delay at most.
LEMMA JitterBound ==
    ASSUME NEW delay \in Nat, NEW d \in WithJitter(delay)
    PROVE  d \in Nat /\ d <= delay + delay \div 4
<1>1. delay \div 4 \in Int /\ delay \div 4 <= delay
  OBVIOUS
<1>2. d \in (delay - delay \div 4)..(delay + delay \div 4)
  BY DEF WithJitter
<1> QED
  BY <1>1, <1>2

(***************************************************************************)
(* The type invariant                                                      *)
(***************************************************************************)
LEMMA TypeInit == Init => TypeOK
<1> SUFFICES ASSUME Init PROVE TypeOK
  OBVIOUS
<1>1. record \in [1..Channels -> {"pending", "sent", "failed"}]
  BY DEF Init
<1>2. drain \in 0..DrainTimeout /\ client \in 0..ClientTimeout
  BY TimeAssumption DEF Init
<1>3. k \in 1..Channels /\ attempt \in 0..MaxRetries
  BY TimeAssumption DEF Init
<1> QED
  BY <1>1, <1>2, <1>3 DEF Init, TypeOK

\* A backoff begins with an attempt that exists and a time that is not negative.
LEMMA SendType ==
    ASSUME TypeOK, Send
    PROVE  TypeOK'
<1>1. late' \in Nat
  BY DEF Send, TypeOK
<1>2. pc' \in {"send", "backoff", "mark"} /\ outcome' \in {"pending", "sent", "failed"}
  BY DEF Send, TypeOK
<1>3. attempt' \in 0..MaxRetries /\ left' \in Nat
  <2>1. CASE attempt < MaxRetries /\ attempt' = attempt + 1
             /\ left' \in WithJitter(Delay[attempt + 1])
    <3>1. Delay[attempt + 1] \in Nat
      BY <2>1, TimeAssumption DEF TypeOK
    <3> QED
      BY <2>1, <3>1, JitterBound, TimeAssumption DEF TypeOK
  <2>2. CASE UNCHANGED <<attempt, left>>
    BY <2>2 DEF TypeOK
  <2> QED
    BY <2>1, <2>2 DEF Send
<1> QED
  BY <1>1, <1>2, <1>3 DEF Send, TypeOK, process, caller

LEMMA TypeStep == TypeOK /\ [Next]_vars => TypeOK'
<1> SUFFICES ASSUME TypeOK, [Next]_vars PROVE TypeOK'
  OBVIOUS
<1>1. CASE Accept
  BY <1>1 DEF Accept, TypeOK, process, caller
<1>2. CASE Send
  BY <1>2, SendType
<1>3. CASE BackoffEnds \/ Cancelled \/ UpdateFails
  BY <1>3 DEF BackoffEnds, Cancelled, UpdateFails, TypeOK, process, caller
<1>4. CASE UpdateStatus
  BY <1>4, TimeAssumption DEF UpdateStatus, TypeOK, process, caller
<1>5. CASE ClientGone \/ Shutdown \/ Exit
  BY <1>5 DEF ClientGone, Shutdown, Exit, TypeOK, process, caller, work
<1>6. CASE Tick
  <2>1. drain' \in 0..DrainTimeout
    BY <1>6, TimeAssumption DEF Tick, Drained, Open, TypeOK
  <2>2. client' \in 0..ClientTimeout /\ left' \in Nat
    BY <1>6, TimeAssumption DEF Tick, TypeOK
  <2> QED
    BY <1>6, <2>1, <2>2 DEF Tick, TypeOK
<1>7. CASE UNCHANGED vars
  BY <1>7 DEF vars, TypeOK
<1> QED
  BY <1>1, <1>2, <1>3, <1>4, <1>5, <1>6, <1>7 DEF Next, Request

\* Every variable keeps to its type, for any times.
THEOREM TypeCorrect == Spec => []TypeOK
BY TypeInit, TypeStep, PTL DEF Spec

(***************************************************************************)
(* The longest request                                                     *)
(***************************************************************************)
\* Longest[n] is the longest time that Send may still spend in backoffs after
\* attempt n; Rest[c] is the longest time of the channels after c, up to Fit.
IsLongest(Longest, Rest) ==
    /\ Longest \in [0..MaxRetries -> Nat]
    /\ Longest[MaxRetries] = 0
    /\ \A n \in 0..MaxRetries : n < MaxRetries =>
          Longest[n] = Delay[n + 1] + Delay[n + 1] \div 4 + Longest[n + 1]
    /\ Rest \in [1..Fit -> Nat]
    /\ Rest[Fit] = 0
    /\ \A c \in 1..Fit : c < Fit => Rest[c] = Longest[0] + Rest[c + 1]

\* The longest time that the request may still take for its first Fit channels.
Need(Longest, Rest) ==
    IF k > Fit THEN 0
    ELSE CASE pc = "idle"    -> Longest[0] + Rest[1]
           [] pc = "send"    -> Longest[attempt] + Rest[k]
           [] pc = "backoff" -> left + Longest[attempt] + Rest[k]
           [] pc = "mark"    -> Rest[k]
           [] OTHER          -> 0

\* A request that has not begun is at its first channel and attempt; one that
\* runs needs less time for those channels than the client timeout leaves it.
CallerInv(Longest, Rest) ==
    /\ pc = "idle" => k = 1 /\ attempt = 0
    /\ k <= Fit => Need(Longest, Rest) < client

\* Nor does it need longer than the drain lets it run.
DrainInv(Longest, Rest) ==
    /\ pc = "idle" => k = 1 /\ attempt = 0
    /\ main = "serve" => drain = DrainTimeout
    /\ Need(Longest, Rest) < DrainTimeout
    /\ k <= Fit =>
          /\ main = "drain" /\ Open => Need(Longest, Rest) < drain
          /\ main = "exited" => ~Open

LEMMA NeedType ==
    ASSUME NEW Longest, NEW Rest, IsLongest(Longest, Rest), TypeOK
    PROVE  /\ Longest[0] \in Nat /\ Longest[attempt] \in Nat
           /\ Rest[1] \in Nat
           /\ k <= Fit => Rest[k] \in Nat
           /\ Need(Longest, Rest) \in Nat
<1>1. attempt \in 0..MaxRetries /\ left \in Nat /\ k \in 1..Channels
  BY DEF TypeOK
<1>2. Longest[0] \in Nat /\ Longest[attempt] \in Nat
  BY <1>1, TimeAssumption DEF IsLongest
<1>3. Rest[1] \in Nat /\ (k <= Fit => Rest[k] \in Nat)
  BY <1>1, TimeAssumption DEF IsLongest
<1>4. Fit \in Nat /\ k \in Nat
  BY <1>1, TimeAssumption
<1> QED
  BY <1>1, <1>2, <1>3, <1>4 DEF Need

\* No step of the request raises what it needs.
LEMMA RequestNeed ==
    ASSUME NEW Longest, NEW Rest, IsLongest(Longest, Rest), TypeOK, Request
    PROVE  Need(Longest, Rest)' \in Int /\ Need(Longest, Rest)' <= Need(Longest, Rest)
<1>0. /\ Longest[0] \in Nat /\ Longest[attempt] \in Nat /\ Need(Longest, Rest) \in Nat
      /\ left \in Nat /\ attempt \in 0..MaxRetries /\ k \in Nat /\ Fit \in Nat
  BY NeedType, TimeAssumption DEF TypeOK
<1>1. k' = k \/ k' = k + 1
  BY DEF Request, Send, BackoffEnds, Cancelled, UpdateStatus, UpdateFails
<1>2. CASE k' > Fit
  BY <1>0, <1>2 DEF Need
<1>3. CASE ~(k' > Fit)
  <2>0. k \in 1..Fit /\ k <= Fit /\ k' <= Fit /\ k' \in Nat /\ Rest[k] \in Nat
    BY <1>0, <1>1, <1>3, NeedType, TimeAssumption DEF TypeOK
  <2>1. CASE Send
    <3>1. Need(Longest, Rest) = Longest[attempt] + Rest[k] /\ k' = k
      BY <1>0, <2>0, <2>1 DEF Send, Need
    <3>2. CASE pc' = "mark"
      BY <1>0, <2>0, <3>1, <3>2 DEF Need
    <3>3. CASE /\ attempt < MaxRetries /\ attempt' = attempt + 1
               /\ left' \in WithJitter(Delay[attempt + 1])
               /\ pc' = IF left' > 0 THEN "backoff" ELSE "send"
      <4>1. Longest[attempt] =
               Delay[attempt + 1] + Delay[attempt + 1] \div 4 + Longest[attempt + 1]
        BY <1>0, <3>3 DEF IsLongest
      <4>2. Delay[attempt + 1] \in Nat /\ Longest[attempt + 1] \in Nat
        BY <1>0, <3>3, TimeAssumption DEF IsLongest
      <4>3. left' \in Nat /\ left' <= Delay[attempt + 1] + Delay[attempt + 1] \div 4
        BY <3>3, <4>2, JitterBound
      <4>4. Need(Longest, Rest)'
               = (IF left' > 0 THEN left' ELSE 0) + Longest[attempt + 1] + Rest[k]
        BY <1>0, <2>0, <3>1, <3>3, <4>2, <4>3 DEF Need
      <4> QED
        BY <1>0, <2>0, <3>1, <4>1, <4>2, <4>3, <4>4
    <3> QED
      BY <2>1, <3>2, <3>3 DEF Send
  <2>2. CASE BackoffEnds
    BY <1>0, <2>0, <2>2 DEF BackoffEnds, Need
  <2>3. CASE Cancelled
    BY <1>0, <2>0, <2>3 DEF Cancelled, SeesContext, Need
  <2>4. CASE UpdateStatus
    <3>1. Need(Longest, Rest) = Rest[k]
      BY <1>0, <2>0, <2>4 DEF UpdateStatus, Need
    <3>2. CASE k < Channels /\ k' = k + 1 /\ pc' = "send"
      <4>1. Need(Longest, Rest)' = Longest[0] + Rest[k + 1]
        BY <1>0, <2>0, <2>4, <3>2 DEF UpdateStatus, Need
      <4>2. Rest[k] = Longest[0] + Rest[k + 1] /\ Rest[k + 1] \in Nat
        BY <1>0, <2>0, <3>2, TimeAssumption DEF IsLongest
      <4> QED
        BY <1>0, <2>0, <3>1, <4>1, <4>2
    <3>3. CASE pc' = "done"
      BY <1>0, <2>0, <3>1, <3>3 DEF Need
    <3> QED
      BY <2>4, <3>2, <3>3 DEF UpdateStatus
  <2>5. CASE UpdateFails
    BY <1>0, <2>0, <2>5 DEF UpdateFails, Need
  <2> QED
    BY <2>1, <2>2, <2>3, <2>4, <2>5 DEF Request
<1> QED
  BY <1>2, <1>3

\* A tick takes a unit of it.
LEMMA TickNeed ==
    ASSUME NEW Longest, NEW Rest, IsLongest(Longest, Rest), TypeOK, Tick, k <= Fit
    PROVE  Need(Longest, Rest)' = Need(Longest, Rest) - 1
<1>1. /\ Longest[attempt] \in Nat /\ Rest[k] \in Nat /\ left \in Nat
      /\ k \in Nat /\ Fit \in Nat
  BY NeedType, TimeAssumption DEF TypeOK
<1> QED
  BY <1>1 DEF Tick, Need

\* The other steps leave it alone.
LEMMA OtherNeed ==
    ASSUME NEW Longest, NEW Rest, IsLongest(Longest, Rest), TypeOK,
           ClientGone \/ Shutdown \/ Exit \/ UNCHANGED vars
    PROVE  Need(Longest, Rest)' = Need(Longest, Rest)
BY DEF ClientGone, Shutdown, Exit, vars, work, Need

LEMMA AcceptNeed ==
    ASSUME NEW Longest, NEW Rest, IsLongest(Longest, Rest), TypeOK, Accept,
           k = 1, attempt = 0
    PROVE  Need(Longest, Rest)' = Need(Longest, Rest)
BY DEF Accept, Need

(***************************************************************************)
(* The caller                                                              *)
(***************************************************************************)
LEMMA CallerStep ==
    ASSUME NEW Longest, NEW Rest, IsLongest(Longest, Rest), TypeOK,
           CallerInv(Longest, Rest), [Next]_vars
    PROVE  CallerInv(Longest, Rest)'
<1>0. Need(Longest, Rest) \in Nat /\ client \in Nat /\ k \in Nat /\ Fit \in Nat
  BY NeedType, TimeAssumption DEF TypeOK
<1>1. CASE Accept
  BY <1>0, <1>1, AcceptNeed DEF CallerInv, Accept, caller
<1>2. CASE Request
  <2>1. UNCHANGED caller /\ pc' # "idle" /\ (k' = k \/ k' = k + 1)
    BY <1>2 DEF Request, Send, BackoffEnds, Cancelled, UpdateStatus, UpdateFails
  <2> QED
    BY <1>0, <1>2, <2>1, RequestNeed DEF CallerInv, caller
<1>3. CASE ClientGone \/ Shutdown \/ Exit \/ UNCHANGED vars
  <2>1. UNCHANGED <<client, work>>
    BY <1>3 DEF ClientGone, Shutdown, Exit, vars, work, caller
  <2> QED
    BY <1>0, <1>3, <2>1, OtherNeed DEF CallerInv, work
<1>4. CASE Tick
  <2>1. k' = k /\ pc' # "idle" /\ (client > 0 => client' = client - 1)
    BY <1>0, <1>4 DEF Tick
  <2>2. CASE k <= Fit
    BY <1>0, <1>4, <2>1, <2>2, TickNeed DEF CallerInv
  <2> QED
    BY <2>1, <2>2 DEF CallerInv
<1> QED
  BY <1>1, <1>2, <1>3, <1>4 DEF Next

\* If the longest backoffs of Fit channels are shorter than the client timeout,
\* it does not fire before they are settled.
THEOREM AlwaysAnsweredInTime ==
    ASSUME NEW CONSTANT Longest, NEW CONSTANT Rest, IsLongest(Longest, Rest),
           Longest[0] + Rest[1] < ClientTimeout
    PROVE  Spec => []AnsweredInTime
<1>1. Init => TypeOK /\ CallerInv(Longest, Rest)
  BY TypeInit, TimeAssumption DEF Init, CallerInv, Need
<1>2. TypeOK /\ CallerInv(Longest, Rest) /\ [Next]_vars
         => (TypeOK /\ CallerInv(Longest, Rest))'
  BY TypeStep, CallerStep
<1>3. TypeOK /\ CallerInv(Longest, Rest) => AnsweredInTime
  BY NeedType, TimeAssumption DEF TypeOK, CallerInv, AnsweredInTime
<1> QED
  BY <1>1, <1>2, <1>3, PTL DEF Spec

(***************************************************************************)
(* The drain                                                               *)
(***************************************************************************)
LEMMA DrainStep ==
    ASSUME NEW Longest, NEW Rest, IsLongest(Longest, Rest), TypeOK,
           DrainInv(Longest, Rest), [Next]_vars
    PROVE  DrainInv(Longest, Rest)'
<1>0. /\ Need(Longest, Rest) \in Nat /\ drain \in Nat /\ DrainTimeout \in Nat
      /\ k \in Nat /\ Fit \in Nat
  BY NeedType, TimeAssumption DEF TypeOK
<1>1. CASE Accept
  BY <1>0, <1>1, AcceptNeed DEF DrainInv, Accept, process
<1>2. CASE Request
  <2>1. /\ UNCHANGED process /\ pc' # "idle" /\ (k' = k \/ k' = k + 1)
        /\ main # "exited" /\ Open
    BY <1>2 DEF Request, Send, BackoffEnds, Cancelled, SeesContext, UpdateStatus,
       UpdateFails, Running, Open
  <2> QED
    BY <1>0, <1>2, <2>1, RequestNeed DEF DrainInv, process
<1>3. CASE Shutdown
  <2>1. UNCHANGED <<drain, work>>
    BY <1>3 DEF Shutdown
  <2> QED
    BY <1>0, <1>3, <2>1, OtherNeed DEF DrainInv, Shutdown, work, Open
<1>4. CASE Exit
  <2>1. k <= Fit => ~Open
    BY <1>0, <1>4 DEF Exit, Drained, DrainInv
  <2>2. UNCHANGED <<drain, work>> /\ main' = "exited"
    BY <1>4 DEF Exit
  <2> QED
    BY <1>0, <1>4, <2>1, <2>2, OtherNeed DEF DrainInv, work, Open
<1>5. CASE ClientGone \/ UNCHANGED vars
  <2>1. UNCHANGED <<process, work>>
    BY <1>5 DEF ClientGone, vars, process, work
  <2> QED
    BY <1>0, <1>5, <2>1, OtherNeed DEF DrainInv, process, work, Open
<1>6. CASE Tick
  <2>1. /\ UNCHANGED <<main, pc, k>> /\ pc = "backoff" /\ main \in {"serve", "drain"}
        /\ drain' = IF main = "drain" THEN drain - 1 ELSE drain
    BY <1>6 DEF Tick
  <2>2. Need(Longest, Rest)' <= Need(Longest, Rest) /\ Need(Longest, Rest)' \in Int
    BY <1>0, <1>6, <2>1, TickNeed DEF Need
  <2>3. k <= Fit => Need(Longest, Rest)' = Need(Longest, Rest) - 1
    BY <1>6, TickNeed
  <2> QED
    BY <1>0, <2>1, <2>2, <2>3 DEF DrainInv, Open
<1> QED
  BY <1>1, <1>2, <1>3, <1>4, <1>5, <1>6 DEF Next

\* If the longest backoffs of Fit channels are shorter than the timeout of the
\* drain, stopping notification_service cuts none of them off.
THEOREM DrainAlwaysLetsFinish ==
    ASSUME NEW CONSTANT Longest, NEW CONSTANT Rest, IsLongest(Longest, Rest),
           Longest[0] + Rest[1] < DrainTimeout
    PROVE  Spec => []DrainLetsFinish
<1>1. Init => TypeOK /\ DrainInv(Longest, Rest)
  BY TypeInit, TimeAssumption DEF Init, DrainInv, Need, Open
<1>2. TypeOK /\ DrainInv(Longest, Rest) /\ [Next]_vars
         => (TypeOK /\ DrainInv(Longest, Rest))'
  BY TypeStep, DrainStep
<1>3. TypeOK /\ DrainInv(Longest, Rest) => DrainLetsFinish
  BY TimeAssumption DEF TypeOK, DrainInv, DrainLetsFinish
<1> QED
  BY <1>1, <1>2, <1>3, PTL DEF Spec

(***************************************************************************)
(* Late calls                                                              *)
(***************************************************************************)
\* After a late call the loop is in a backoff that has not run out, where it
\* looks at the context, or past the last call.
LateInv ==
    /\ late <= 1
    /\ late > 0 => gone /\ ((pc = "backoff" /\ left > 0) \/ pc \in {"mark", "done"})

\* The jitter leaves something of a delay that is positive.
LEMMA JitterPositive ==
    ASSUME NEW delay \in Nat \ {0}, NEW d \in WithJitter(delay)
    PROVE  d > 0
<1>1. d >= delay - delay \div 4 /\ d \in Int
  BY DEF WithJitter
<1>2. delay \div 4 < delay /\ delay \div 4 \in Int
  OBVIOUS
<1> QED
  BY <1>1, <1>2

\* A provider is called once more only out of a backoff, and a backoff with the
\* context done ends by it unless its time is over already.
LEMMA LateStep ==
    ASSUME \A n \in 1..MaxRetries : Delay[n] > 0, TypeOK, LateInv, [Next]_vars
    PROVE  LateInv'
<1>1. late \in Nat /\ left \in Nat /\ attempt \in 0..MaxRetries
  BY DEF TypeOK
<1>2. CASE Send
  <2>1. late = 0 /\ UNCHANGED gone
    BY <1>1, <1>2 DEF LateInv, Send, caller
  <2>2. pc' = "mark" \/ (pc' = "backoff" /\ left' > 0)
    <3>1. CASE /\ attempt < MaxRetries
               /\ left' \in WithJitter(Delay[attempt + 1])
               /\ pc' = IF left' > 0 THEN "backoff" ELSE "send"
      <4>1. Delay[attempt + 1] \in Nat \ {0}
        BY <1>1, <3>1, TimeAssumption
      <4>2. left' > 0
        BY <3>1, <4>1, JitterPositive
      <4> QED
        BY <3>1, <4>2
    <3> QED
      BY <1>2, <3>1 DEF Send
  <2> QED
    BY <1>2, <2>1, <2>2 DEF LateInv, Send
<1>3. CASE BackoffEnds
  BY <1>1, <1>3 DEF LateInv, BackoffEnds, caller
<1>4. CASE UpdateStatus
  BY <1>1, <1>4 DEF LateInv, UpdateStatus, caller
<1>5. CASE Cancelled \/ UpdateFails
  BY <1>5 DEF LateInv, Cancelled, UpdateFails, caller
<1>6. CASE Accept
  BY <1>1, <1>6 DEF LateInv, Accept
<1>7. CASE ClientGone \/ Shutdown \/ Exit
  BY <1>7 DEF LateInv, ClientGone, Shutdown, Exit, work, caller
<1>8. CASE Tick
  BY <1>1, <1>8 DEF LateInv, Tick, SeesContext
<1>9. CASE UNCHANGED vars
  BY <1>9 DEF LateInv, vars
<1> QED
  BY <1>2, <1>3, <1>4, <1>5, <1>6, <1>7, <1>8, <1>9 DEF Next, Request

\* If no backoff is zero, as config.go ensures, a caller that has gone costs one
\* more call of a provider at most, for any number of channels and retries.
THEOREM OneLateCallAtMost ==
    ASSUME \A n \in 1..MaxRetries : Delay[n] > 0
    PROVE  Spec => []OneLateCall
<1>1. Init => TypeOK /\ LateInv
  BY TypeInit DEF Init, LateInv
<1>2. TypeOK /\ LateInv /\ [Next]_vars => (TypeOK /\ LateInv)'
  BY TypeStep, LateStep
<1>3. LateInv => OneLateCall
  BY DEF LateInv, OneLateCall
<1> QED
  BY <1>1, <1>2, <1>3, PTL DEF Spec
=============================================================================
