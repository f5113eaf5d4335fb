--------------------------- MODULE GattNotifyProofs ---------------------------
(***************************************************************************)
(* For any number of links and challenges: the ready flags have a handler  *)
(* behind them and are exact without an overlap, and the watch is told     *)
(* challenges and cancellations in their order.                            *)
(***************************************************************************)
EXTENDS GattNotify, TLAPS

USE NotifyAssumption
USE DEF Links, NoChallenge, challengeVars, linkVars, tellerVars, cancellerVars, processorVars

LEMMA AppendKeeps ==
  ASSUME NEW S, NEW s \in Seq(S), NEW e \in S
  PROVE  /\ Append(s, e) \in Seq(S)
         /\ Len(Append(s, e)) = Len(s) + 1
         /\ \A i \in 1 .. Len(s) : Append(s, e)[i] = s[i]
         /\ Append(s, e)[Len(s) + 1] = e
  OBVIOUS

LEMMA TailKeeps ==
  ASSUME NEW S, NEW s \in Seq(S), s # <<>>
  PROVE  /\ Head(s) \in S
         /\ Head(s) = s[1]
         /\ Len(s) \in Nat \ {0}
         /\ Tail(s) \in Seq(S)
         /\ Len(Tail(s)) = Len(s) - 1
         /\ \A i \in 1 .. Len(Tail(s)) : Tail(s)[i] = s[i + 1]
  OBVIOUS

LEMMA ElementsIn ==
  ASSUME NEW S, NEW s \in Seq(S)
  PROVE  Len(s) \in Nat /\ \A i \in 1 .. Len(s) : s[i] \in S
  OBVIOUS

\* A channel of challenges drawn so far is one of those drawn later.
LEMMA SeqGrows ==
  ASSUME NEW n \in Nat, NEW s \in Seq(1 .. n)
  PROVE  s \in Seq(1 .. n + 1)
  OBVIOUS

-----------------------------------------------------------------------------
TellerStates == {"none", "looping", "waiting", "woken", "telling", "ending", "ended"}
CancellerStates == {"none", "looping", "receiving", "telling", "ending", "ended"}

LEMMA NotifyTypeInit == Init => TypeOK
<1> SUFFICES ASSUME Init PROVE TypeOK
  OBVIOUS
<1>1. /\ waiters \in Seq(Links) /\ receivers \in Seq(Links) /\ cancelQueue \in Seq(1 .. issued)
  BY DEF Init
<1>2. ChallengeTypeOK /\ issued <= MaxChallenges
  BY DEF Init, ChallengeInit, ChallengeTypeOK
<1>3. /\ teller \in [Links -> TellerStates] /\ canceller \in [Links -> CancellerStates]
      /\ telling \in [Links -> 0 .. issued] /\ cancelling \in [Links -> 0 .. issued]
  BY DEF Init, ChallengeInit, TellerStates, CancellerStates
<1>4. /\ up \in BOOLEAN /\ notifyReady \in BOOLEAN /\ permit \in BOOLEAN
      /\ cancelReady \in BOOLEAN /\ overlap \in BOOLEAN
  BY DEF Init
<1>5. /\ link \in 0 .. MaxLinks /\ pc = "idle" /\ peeked \in 0 .. issued
      /\ known \subseteq 1 .. issued /\ toldLast \in 0 .. issued
      /\ cancelledLast \in 0 .. issued /\ triggered \in 0 .. issued
  BY DEF Init, ChallengeInit
<1> QED BY <1>1, <1>2, <1>3, <1>4, <1>5 DEF TypeOK, TellerStates, CancellerStates

LEMMA DrawKeepsTypes ==
    ASSUME TypeOK, issued < MaxChallenges, Refresh
    PROVE  /\ ChallengeTypeOK' /\ issued' <= MaxChallenges
           /\ issued' = issued + 1 /\ issued' \in Nat /\ issued' \in 1 .. issued'
           /\ challenge' = issued'
           /\ telling \in [Links -> 0 .. issued'] /\ cancelling \in [Links -> 0 .. issued']
           /\ cancelQueue \in Seq(1 .. issued')
           /\ known \subseteq 1 .. issued'
           /\ peeked \in 0 .. issued' /\ toldLast \in 0 .. issued'
           /\ cancelledLast \in 0 .. issued' /\ triggered \in 0 .. issued'
<1>1. /\ issued' = issued + 1 /\ challenge' = issued + 1 /\ issued \in Nat
      /\ issued \in 0 .. MaxChallenges
  BY DEF TypeOK, ChallengeTypeOK, Refresh
<1>2. cancelQueue \in Seq(1 .. issued')
  BY <1>1, SeqGrows DEF TypeOK
<1>3. telling \in [Links -> 0 .. issued'] /\ cancelling \in [Links -> 0 .. issued']
  BY <1>1 DEF TypeOK
<1>4. known \subseteq 1 .. issued'
  BY <1>1 DEF TypeOK
<1> QED BY <1>1, <1>2, <1>3, <1>4 DEF TypeOK, ChallengeTypeOK

\* Who tells the watch of a challenge or of a cancellation has one.
Telling ==
    /\ \A g \in Links : teller[g] = "telling" => telling[g] # NoChallenge
    /\ pc = "sendCancel" => peeked # NoChallenge

LEMMA NotifyTypeInductive ==
    ASSUME TypeOK, Telling, [Next]_vars
    PROVE  TypeOK'
<1>1. CASE WatchConnects
  BY <1>1 DEF WatchConnects, TypeOK, ChallengeTypeOK
<1>2. CASE WatchLeaves
  BY <1>2 DEF WatchLeaves, TypeOK, ChallengeTypeOK
<1>3. CASE SubscribeChallenge
  BY <1>3 DEF SubscribeChallenge, TypeOK, ChallengeTypeOK
<1>4. CASE SubscribeCancel
  BY <1>4 DEF SubscribeCancel, TypeOK, ChallengeTypeOK
<1>5. CASE ReadChallenge
  BY <1>5, DrawKeepsTypes DEF ReadChallenge, TypeOK, ChallengeTypeOK
<1>6. ASSUME NEW g \in Links, TellerStep(g) PROVE TypeOK'
  <2>1. CASE AwaitStart(g)
    <3>1. teller' \in [Links -> TellerStates]
      BY <2>1 DEF AwaitStart, TypeOK, TellerStates
    <3>2. waiters' \in Seq(Links)
      <4>1. waiters \in Seq(Links) /\ Append(waiters, g) \in Seq(Links)
        BY AppendKeeps DEF TypeOK
      <4>2. waiters' = waiters \/ waiters' = Append(waiters, g)
        BY <2>1 DEF AwaitStart
      <4> QED BY <4>1, <4>2
    <3>3. permit' \in BOOLEAN
      BY <2>1 DEF AwaitStart
    <3> QED BY <2>1, <3>1, <3>2, <3>3
            DEF AwaitStart, TellerElsewhere, TypeOK, ChallengeTypeOK, TellerStates
  <2>2. CASE PeekChallenge(g)
    BY <2>2 DEF PeekChallenge, TellerElsewhere, TypeOK, ChallengeTypeOK
  <2>3. CASE TellChallenge(g)
    <3>1. teller' \in [Links -> TellerStates]
      BY <2>3 DEF TellChallenge, TypeOK, TellerStates
    <3>2. toldLast' \in 0 .. issued
      BY <2>3 DEF TellChallenge, TypeOK
    <3>3. known' \subseteq 1 .. issued
      <4>1. telling[g] \in 1 .. issued
        BY <2>3 DEF TellChallenge, TypeOK, ChallengeTypeOK, Telling
      <4>2. known' = known \/ known' = known \cup {telling[g]}
        BY <2>3 DEF TellChallenge
      <4> QED BY <4>1, <4>2 DEF TypeOK
    <3> QED BY <2>3, <3>1, <3>2, <3>3
            DEF TellChallenge, TellerElsewhere, TypeOK, ChallengeTypeOK, TellerStates
  <2>4. CASE DropTeller(g)
    BY <2>4 DEF DropTeller, TellerElsewhere, TypeOK, ChallengeTypeOK
  <2> QED BY <1>6, <2>1, <2>2, <2>3, <2>4 DEF TellerStep
<1>7. ASSUME NEW g \in Links, CancellerStep(g) PROVE TypeOK'
  <2>1. CASE LockReceiver(g)
    BY <2>1, AppendKeeps DEF LockReceiver, CancellerElsewhere, TypeOK, ChallengeTypeOK
  <2>2. CASE ReceiveCancel(g)
    <3>1. canceller' \in [Links -> CancellerStates]
      BY <2>2 DEF ReceiveCancel, TypeOK, CancellerStates
    <3>2. /\ receivers \in Seq(Links) /\ receivers # <<>>
          /\ cancelQueue \in Seq(1 .. issued) /\ cancelQueue # <<>>
      BY <2>2 DEF ReceiveCancel, TypeOK
    <3>3. receivers' \in Seq(Links)
      BY <2>2, <3>2, TailKeeps DEF ReceiveCancel
    <3>4. cancelQueue' \in Seq(1 .. issued) /\ Head(cancelQueue) \in 1 .. issued
      BY <2>2, <3>2, TailKeeps DEF ReceiveCancel
    <3>5. cancelling' \in [Links -> 0 .. issued]
      <4>1. cancelling' = [cancelling EXCEPT ![g] = Head(cancelQueue)]
        BY <2>2 DEF ReceiveCancel
      <4>2. Head(cancelQueue) \in 0 .. issued /\ cancelling \in [Links -> 0 .. issued]
        BY <3>4 DEF TypeOK, ChallengeTypeOK
      <4> QED BY <4>1, <4>2
    <3> QED BY <2>2, <3>1, <3>3, <3>4, <3>5
            DEF ReceiveCancel, CancellerElsewhere, TypeOK, ChallengeTypeOK, CancellerStates
  <2>3. CASE TellCancel(g)
    <3>1. canceller' \in [Links -> CancellerStates]
      BY <2>3 DEF TellCancel, TypeOK, CancellerStates
    <3>2. cancelledLast' \in 0 .. issued
      BY <2>3 DEF TellCancel, TypeOK
    <3> QED BY <2>3, <3>1, <3>2
            DEF TellCancel, CancellerElsewhere, TypeOK, ChallengeTypeOK, CancellerStates
  <2>4. CASE DropCanceller(g)
    BY <2>4 DEF DropCanceller, CancellerElsewhere, TypeOK, ChallengeTypeOK
  <2> QED BY <1>7, <2>1, <2>2, <2>3, <2>4 DEF CancellerStep
<1>8. CASE ProcessorStep
  <2>1. CASE Begin
    BY <2>1 DEF Begin, ProcessorElsewhere, TypeOK, ChallengeTypeOK
  <2>2. CASE CheckReady
    BY <2>2 DEF CheckReady, ProcessorElsewhere, TypeOK, ChallengeTypeOK
  <2>3. CASE DrawChallenge
    BY <2>3, DrawKeepsTypes DEF DrawChallenge, ProcessorElsewhere, TypeOK, ChallengeTypeOK
  <2>4. CASE Trigger
    <3>1. waiters \in Seq(Links) /\ teller \in [Links -> TellerStates] /\ permit \in BOOLEAN
      BY DEF TypeOK, TellerStates
    <3>2. /\ waiters' \in Seq(Links) /\ teller' \in [Links -> TellerStates]
          /\ permit' \in BOOLEAN
      <4>1. CASE waiters = <<>>
        BY <2>4, <3>1, <4>1 DEF Trigger, NotifyOne
      <4>2. CASE waiters # <<>>
        BY <2>4, <3>1, <4>2, TailKeeps DEF Trigger, NotifyOne, TellerStates
      <4> QED BY <4>1, <4>2
    <3> QED BY <2>4, <3>2 DEF Trigger, ProcessorElsewhere, TypeOK, ChallengeTypeOK, TellerStates
  <2>5. CASE WaitEnds
    <3>1. ChallengeTypeOK' /\ issued' = issued
      BY <2>5 DEF WaitEnds, TakeIfMatches, Matches, TypeOK, ChallengeTypeOK
    <3> QED BY <2>5, <3>1 DEF WaitEnds, ProcessorElsewhere, TypeOK
  <2>6. CASE WaitCancelled
    BY <2>6 DEF WaitCancelled, CanPeek, ProcessorElsewhere, TypeOK, ChallengeTypeOK
  <2>7. CASE SendCancel
    BY <2>7, AppendKeeps DEF SendCancel, ProcessorElsewhere, TypeOK, ChallengeTypeOK, Telling
  <2> QED BY <1>8, <2>1, <2>2, <2>3, <2>4, <2>5, <2>6, <2>7 DEF ProcessorStep
<1>9. CASE UNCHANGED vars
  BY <1>9 DEF vars, TypeOK, ChallengeTypeOK
<1> QED BY <1>1, <1>2, <1>3, <1>4, <1>5, <1>6, <1>7, <1>8, <1>9 DEF Next

-----------------------------------------------------------------------------
(***************************************************************************)
(* The ready flags.                                                        *)
(***************************************************************************)
\* A link that is there has a number.
UpHasLink == up => link \in Links

\* The flag of the challenges, and the handlers it stands for.
TellersSound ==
    /\ \A g \in Links : g > link => teller[g] = "none"
    /\ notifyReady => \E g \in Links :
         TellerAlive(g) /\ \A h \in Links : h > g => teller[h] = "none"
    /\ ~overlap => (notifyReady <=> \E g \in Links : TellerAlive(g))
    /\ ~overlap => \A g, h \in Links : TellerAlive(g) /\ TellerAlive(h) => g = h

\* The flag of the cancellations, and the handlers it stands for.
CancellersSound ==
    /\ \A g \in Links : g > link => canceller[g] = "none"
    /\ cancelReady => \E g \in Links :
         CancellerAlive(g) /\ \A h \in Links : h > g => canceller[h] = "none"
    /\ ~overlap => (cancelReady <=> \E g \in Links : CancellerAlive(g))
    /\ ~overlap => \A g, h \in Links : CancellerAlive(g) /\ CancellerAlive(h) => g = h

\* Who waits for the trigger is alive, and in the queue once.
WaitersWait ==
    /\ \A i \in 1 .. Len(waiters) : teller[waiters[i]] = "waiting"
    /\ \A i, j \in 1 .. Len(waiters) : waiters[i] = waiters[j] => i = j

\* A handler that goes on stays behind its flag.
LEMMA TellerGoesOn ==
    ASSUME TypeOK, TellersSound, NEW g \in Links, TellerAlive(g),
           NEW s \in TellerStates \ {"none", "ended"},
           teller' = [teller EXCEPT ![g] = s],
           UNCHANGED <<notifyReady, link, overlap>>
    PROVE  TellersSound'
<1>1. \A h \in Links : TellerAlive(h)' <=> TellerAlive(h)
  BY DEF TypeOK, TellerAlive, TellerStates
<1>2. \A h \in Links : (teller'[h] = "none") <=> (teller[h] = "none")
  BY DEF TypeOK, TellerAlive, TellerStates
<1> QED BY <1>1, <1>2 DEF TellersSound

LEMMA CancellerGoesOn ==
    ASSUME TypeOK, CancellersSound, NEW g \in Links, CancellerAlive(g),
           NEW s \in CancellerStates \ {"none", "ended"},
           canceller' = [canceller EXCEPT ![g] = s],
           UNCHANGED <<cancelReady, link, overlap>>
    PROVE  CancellersSound'
<1>1. \A h \in Links : CancellerAlive(h)' <=> CancellerAlive(h)
  BY DEF TypeOK, CancellerAlive, CancellerStates
<1>2. \A h \in Links : (canceller'[h] = "none") <=> (canceller[h] = "none")
  BY DEF TypeOK, CancellerAlive, CancellerStates
<1> QED BY <1>1, <1>2 DEF CancellersSound

\* A new handler is that of the newest link.
LEMMA TellerStarts ==
    ASSUME TypeOK, UpHasLink, TellersSound, SubscribeChallenge
    PROVE  TellersSound'
<1>1. /\ link \in Links /\ teller[link] = "none" /\ notifyReady'
      /\ teller' = [teller EXCEPT ![link] = "looping"] /\ link' = link
  BY DEF SubscribeChallenge, UpHasLink
<1>2. \A h \in Links : h # link => (TellerAlive(h)' <=> TellerAlive(h)) /\ teller'[h] = teller[h]
  BY <1>1 DEF TypeOK, TellerAlive
<1>3. TellerAlive(link)' /\ teller'[link] # "none"
  BY <1>1 DEF TypeOK, TellerAlive
<1>4. ~overlap' => \A h \in Links : ~TellerAlive(h)
  BY Zenon DEF SubscribeChallenge
<1>5. \A g \in Links : g > link' => teller'[g] = "none"
  BY <1>1, <1>2 DEF TellersSound, TypeOK
<1>6. ~overlap' => \A g, h \in Links : TellerAlive(g)' /\ TellerAlive(h)' => g = h
  BY <1>2, <1>4
<1>7. \E g \in Links : TellerAlive(g)' /\ \A h \in Links : h > g => teller'[h] = "none"
  BY <1>1, <1>3, <1>5
<1> QED BY <1>1, <1>5, <1>6, <1>7 DEF TellersSound

LEMMA CancellerStarts ==
    ASSUME TypeOK, UpHasLink, CancellersSound, SubscribeCancel
    PROVE  CancellersSound'
<1>1. /\ link \in Links /\ canceller[link] = "none" /\ cancelReady'
      /\ canceller' = [canceller EXCEPT ![link] = "looping"] /\ link' = link
  BY DEF SubscribeCancel, UpHasLink
<1>2. \A h \in Links : h # link =>
        (CancellerAlive(h)' <=> CancellerAlive(h)) /\ canceller'[h] = canceller[h]
  BY <1>1 DEF TypeOK, CancellerAlive
<1>3. CancellerAlive(link)' /\ canceller'[link] # "none"
  BY <1>1 DEF TypeOK, CancellerAlive
<1>4. ~overlap' => \A h \in Links : ~CancellerAlive(h)
  BY Zenon DEF SubscribeCancel
<1>5. \A g \in Links : g > link' => canceller'[g] = "none"
  BY <1>1, <1>2 DEF CancellersSound, TypeOK
<1>6. ~overlap' => \A g, h \in Links : CancellerAlive(g)' /\ CancellerAlive(h)' => g = h
  BY <1>2, <1>4
<1>7. \E g \in Links : CancellerAlive(g)' /\ \A h \in Links : h > g => canceller'[h] = "none"
  BY <1>1, <1>3, <1>5
<1> QED BY <1>1, <1>5, <1>6, <1>7 DEF CancellersSound

\* The guard that is dropped takes the flag with it: no handler is left without an
\* overlap.
LEMMA TellerEnds ==
    ASSUME TypeOK, TellersSound, NEW g \in Links, DropTeller(g)
    PROVE  TellersSound'
<1>1. /\ teller[g] = "ending" /\ teller' = [teller EXCEPT ![g] = "ended"] /\ ~notifyReady'
      /\ link' = link /\ overlap' = overlap
  BY DEF DropTeller, TellerElsewhere
<1>2. \A h \in Links : h # g => (TellerAlive(h)' <=> TellerAlive(h)) /\ teller'[h] = teller[h]
  BY <1>1 DEF TypeOK, TellerAlive
<1>3. TellerAlive(g) /\ ~TellerAlive(g)'
  BY <1>1 DEF TypeOK, TellerAlive
<1>4. ~overlap => \A h \in Links : ~TellerAlive(h)'
  BY <1>2, <1>3 DEF TellersSound
<1>5. \A h \in Links : h > link => teller'[h] = "none"
  BY <1>1, <1>2 DEF TellersSound
<1> QED BY <1>1, <1>4, <1>5 DEF TellersSound

LEMMA CancellerEnds ==
    ASSUME TypeOK, CancellersSound, NEW g \in Links, DropCanceller(g)
    PROVE  CancellersSound'
<1>1. /\ canceller[g] = "ending" /\ canceller' = [canceller EXCEPT ![g] = "ended"]
      /\ ~cancelReady' /\ link' = link /\ overlap' = overlap
  BY DEF DropCanceller, CancellerElsewhere
<1>2. \A h \in Links : h # g =>
        (CancellerAlive(h)' <=> CancellerAlive(h)) /\ canceller'[h] = canceller[h]
  BY <1>1 DEF TypeOK, CancellerAlive
<1>3. CancellerAlive(g) /\ ~CancellerAlive(g)'
  BY <1>1 DEF TypeOK, CancellerAlive
<1>4. ~overlap => \A h \in Links : ~CancellerAlive(h)'
  BY <1>2, <1>3 DEF CancellersSound
<1>5. \A h \in Links : h > link => canceller'[h] = "none"
  BY <1>1, <1>2 DEF CancellersSound
<1> QED BY <1>1, <1>4, <1>5 DEF CancellersSound

\* What disturbs neither handlers nor flag: a new link, or an overlap of the others.
LEMMA TellersElsewhere ==
    ASSUME TypeOK, TellersSound, UNCHANGED <<teller, notifyReady>>,
           link' \in {link, link + 1}, overlap => overlap'
    PROVE  TellersSound'
<1>1. \A h \in Links : TellerAlive(h)' <=> TellerAlive(h)
  BY DEF TellerAlive
<1>2. \A h \in Links : h > link' => teller'[h] = "none"
  BY DEF TellersSound, TypeOK
<1> QED BY <1>1, <1>2 DEF TellersSound

LEMMA CancellersElsewhere ==
    ASSUME TypeOK, CancellersSound, UNCHANGED <<canceller, cancelReady>>,
           link' \in {link, link + 1}, overlap => overlap'
    PROVE  CancellersSound'
<1>1. \A h \in Links : CancellerAlive(h)' <=> CancellerAlive(h)
  BY DEF CancellerAlive
<1>2. \A h \in Links : h > link' => canceller'[h] = "none"
  BY DEF CancellersSound, TypeOK
<1> QED BY <1>1, <1>2 DEF CancellersSound

\* What becomes of a handler that does not wait is nothing to those that do.
LEMMA OthersWait ==
    ASSUME TypeOK, WaitersWait, NEW g \in Links, teller[g] # "waiting", NEW s,
           teller' = [teller EXCEPT ![g] = s], UNCHANGED waiters
    PROVE  WaitersWait'
<1>1. waiters \in Seq(Links) /\ teller \in [Links -> TellerStates]
  BY DEF TypeOK, TellerStates
<1>2. \A i \in 1 .. Len(waiters) : waiters[i] \in Links
  BY <1>1, ElementsIn
<1>3. \A i \in 1 .. Len(waiters) : waiters[i] # g
  BY DEF WaitersWait
<1>4. \A i \in 1 .. Len(waiters) : teller'[waiters[i]] = teller[waiters[i]]
  BY <1>1, <1>2, <1>3
<1> QED BY <1>4 DEF WaitersWait

LEMMA WaitersAfterAwait ==
    ASSUME TypeOK, WaitersWait, NEW g \in Links, AwaitStart(g)
    PROVE  WaitersWait'
<1>1. CASE permit
  BY <1>1, OthersWait DEF AwaitStart
<1>2. CASE ~permit
  <2>1. /\ waiters' = Append(waiters, g) /\ teller' = [teller EXCEPT ![g] = "waiting"]
        /\ teller[g] = "looping" /\ waiters \in Seq(Links)
        /\ teller \in [Links -> TellerStates] /\ Len(waiters) \in Nat
    BY <1>2, ElementsIn DEF AwaitStart, TypeOK, TellerStates
  <2>2. \A i \in 1 .. Len(waiters) : waiters[i] \in Links /\ waiters[i] # g
    <3>1. \A i \in 1 .. Len(waiters) : waiters[i] \in Links
      BY <2>1, ElementsIn
    <3> QED BY <2>1, <3>1 DEF WaitersWait
  <2>3. /\ Len(waiters') = Len(waiters) + 1 /\ waiters'[Len(waiters) + 1] = g
        /\ \A i \in 1 .. Len(waiters) : waiters'[i] = waiters[i]
    BY <2>1, AppendKeeps
  <2>4. teller'[g] = "waiting" /\ \A h \in Links : h # g => teller'[h] = teller[h]
    BY <2>1 DEF TypeOK
  <2>5. \A i \in 1 .. Len(waiters') : teller'[waiters'[i]] = "waiting"
    <3>1. SUFFICES ASSUME NEW i \in 1 .. Len(waiters) + 1 PROVE teller'[waiters'[i]] = "waiting"
      BY <2>3
    <3>2. CASE i = Len(waiters) + 1
      BY <2>3, <2>4, <3>2
    <3>3. CASE i \in 1 .. Len(waiters)
      BY <2>2, <2>3, <2>4, <3>3 DEF WaitersWait
    <3> QED BY <2>1, <3>2, <3>3
  <2>6. \A i, j \in 1 .. Len(waiters') : waiters'[i] = waiters'[j] => i = j
    BY <2>1, <2>2, <2>3 DEF WaitersWait
  <2> QED BY <2>5, <2>6 DEF WaitersWait
<1> QED BY <1>1, <1>2

\* The one that is woken leaves the queue.
LEMMA WaitersAfterNotify ==
    ASSUME TypeOK, WaitersWait, TellersSound, NotifyOne, UNCHANGED <<notifyReady, link, overlap>>
    PROVE  WaitersWait' /\ TellersSound'
<1>1. CASE waiters = <<>>
  BY <1>1, TellersElsewhere DEF NotifyOne, WaitersWait
<1>2. CASE waiters # <<>>
  <2>0. waiters \in Seq(Links) /\ teller \in [Links -> TellerStates]
    BY DEF TypeOK, TellerStates
  <2>1. /\ Head(waiters) \in Links /\ Head(waiters) = waiters[1]
        /\ waiters' = Tail(waiters) /\ Len(waiters) \in Nat \ {0}
        /\ Len(waiters') = Len(waiters) - 1
        /\ \A i \in 1 .. Len(waiters') : waiters'[i] = waiters[i + 1]
        /\ teller' = [teller EXCEPT ![Head(waiters)] = "woken"]
    <3>1. waiters' = Tail(waiters) /\ teller' = [teller EXCEPT ![Head(waiters)] = "woken"]
      BY <1>2 DEF NotifyOne
    <3> QED BY <1>2, <2>0, <3>1, TailKeeps
  <2>2. teller[Head(waiters)] = "waiting"
    BY <2>1 DEF WaitersWait
  <2>3. TellersSound'
    BY <2>1, <2>2, TellerGoesOn DEF TellerAlive, TellerStates
  <2>4. \A i \in 1 .. Len(waiters') : waiters'[i] \in Links /\ waiters'[i] # Head(waiters)
    <3>1. \A i \in 1 .. Len(waiters) : waiters[i] \in Links
      BY <2>0, ElementsIn
    <3> QED BY <2>1, <3>1 DEF WaitersWait
  <2>5. \A i \in 1 .. Len(waiters') : teller'[waiters'[i]] = "waiting"
    <3>1. \A i \in 1 .. Len(waiters') : teller'[waiters'[i]] = teller[waiters'[i]]
      BY <2>0, <2>1, <2>4
    <3> QED BY <2>1, <3>1 DEF WaitersWait
  <2>6. \A i, j \in 1 .. Len(waiters') : waiters'[i] = waiters'[j] => i = j
    BY <2>1 DEF WaitersWait
  <2> QED BY <2>3, <2>5, <2>6 DEF WaitersWait
<1> QED BY <1>1, <1>2

LEMMA FlagsInductive ==
    ASSUME TypeOK, UpHasLink, TellersSound, CancellersSound, WaitersWait, [Next]_vars
    PROVE  UpHasLink' /\ TellersSound' /\ CancellersSound' /\ WaitersWait'
<1>1. CASE WatchConnects
  <2>1. WaitersWait'
    BY <1>1 DEF WatchConnects, WaitersWait
  <2>2. UpHasLink'
    BY <1>1 DEF WatchConnects, UpHasLink, TypeOK
  <2>3. TellersSound' /\ CancellersSound'
    BY <1>1, TellersElsewhere, CancellersElsewhere DEF WatchConnects
  <2> QED BY <2>1, <2>2, <2>3
<1>2. CASE WatchLeaves
  <2>1. WaitersWait' /\ UpHasLink'
    BY <1>2 DEF WatchLeaves, WaitersWait, UpHasLink
  <2> QED BY <1>2, <2>1, TellersElsewhere, CancellersElsewhere DEF WatchLeaves
<1>3. CASE SubscribeChallenge
  <2>1. WaitersWait'
    <3>1. link \in Links /\ teller[link] # "waiting"
      BY <1>3 DEF SubscribeChallenge, UpHasLink
    <3> QED BY <1>3, <3>1, OthersWait DEF SubscribeChallenge
  <2>2. UpHasLink' /\ CancellersSound'
    <3>1. overlap => overlap'
      BY <1>3 DEF SubscribeChallenge
    <3> QED BY <1>3, <3>1, CancellersElsewhere DEF SubscribeChallenge, UpHasLink
  <2> QED BY <1>3, <2>1, <2>2, TellerStarts
<1>4. CASE SubscribeCancel
  <2>1. WaitersWait'
    BY <1>4 DEF SubscribeCancel, WaitersWait
  <2>2. UpHasLink' /\ TellersSound'
    <3>1. overlap => overlap'
      BY <1>4 DEF SubscribeCancel
    <3> QED BY <1>4, <3>1, TellersElsewhere DEF SubscribeCancel, UpHasLink
  <2> QED BY <1>4, <2>1, <2>2, CancellerStarts
<1>5. CASE ReadChallenge
  <2>1. WaitersWait' /\ UpHasLink'
    BY <1>5 DEF ReadChallenge, WaitersWait, UpHasLink
  <2> QED BY <1>5, <2>1, TellersElsewhere, CancellersElsewhere DEF ReadChallenge
<1>6. ASSUME NEW g \in Links, TellerStep(g)
      PROVE  UpHasLink' /\ TellersSound' /\ CancellersSound' /\ WaitersWait'
  <2>1. TellerElsewhere
    BY <1>6 DEF TellerStep, AwaitStart, PeekChallenge, TellChallenge, DropTeller
  <2>2. UpHasLink' /\ CancellersSound'
    BY <2>1, CancellersElsewhere DEF TellerElsewhere, UpHasLink
  <2>3. CASE AwaitStart(g)
    <3>1. TellerAlive(g) /\ UNCHANGED <<notifyReady, link, overlap>>
      BY <2>1, <2>3 DEF AwaitStart, TellerAlive, TellerElsewhere
    <3>2. \E s \in {"woken", "waiting"} : teller' = [teller EXCEPT ![g] = s]
      BY <2>3 DEF AwaitStart
    <3>3. TellersSound'
      BY <3>1, <3>2, TellerGoesOn DEF TellerStates
    <3> QED BY <2>2, <2>3, <3>3, WaitersAfterAwait
  <2>4. CASE PeekChallenge(g)
    <3>1. /\ TellerAlive(g) /\ teller[g] # "waiting"
          /\ UNCHANGED <<notifyReady, link, overlap, waiters>>
      BY <2>1, <2>4 DEF PeekChallenge, TellerAlive, TellerElsewhere
    <3>2. \E s \in {"telling", "ending"} : teller' = [teller EXCEPT ![g] = s]
      BY <2>4 DEF PeekChallenge
    <3> QED BY <2>2, <3>1, <3>2, TellerGoesOn, OthersWait DEF TellerStates
  <2>5. CASE TellChallenge(g)
    <3>1. /\ TellerAlive(g) /\ teller[g] # "waiting"
          /\ UNCHANGED <<notifyReady, link, overlap, waiters>>
      BY <2>1, <2>5 DEF TellChallenge, TellerAlive, TellerElsewhere
    <3>2. \E s \in {"looping", "ending"} : teller' = [teller EXCEPT ![g] = s]
      BY <2>5 DEF TellChallenge
    <3> QED BY <2>2, <3>1, <3>2, TellerGoesOn, OthersWait DEF TellerStates
  <2>6. CASE DropTeller(g)
    <3>1. WaitersWait'
      BY <2>6, OthersWait DEF DropTeller
    <3> QED BY <2>2, <2>6, <3>1, TellerEnds
  <2> QED BY <1>6, <2>3, <2>4, <2>5, <2>6 DEF TellerStep
<1>7. ASSUME NEW g \in Links, CancellerStep(g)
      PROVE  UpHasLink' /\ TellersSound' /\ CancellersSound' /\ WaitersWait'
  <2>1. CancellerElsewhere
    BY <1>7 DEF CancellerStep, LockReceiver, ReceiveCancel, TellCancel, DropCanceller
  <2>2. UpHasLink' /\ TellersSound' /\ WaitersWait'
    <3>1. WaitersWait' /\ UpHasLink'
      BY <2>1 DEF CancellerElsewhere, WaitersWait, UpHasLink
    <3> QED BY <2>1, <3>1, TellersElsewhere DEF CancellerElsewhere
  <2>3. CASE DropCanceller(g)
    BY <2>2, <2>3, CancellerEnds
  <2>4. CASE LockReceiver(g) \/ ReceiveCancel(g) \/ TellCancel(g)
    <3>1. CancellerAlive(g) /\ UNCHANGED <<cancelReady, link, overlap>>
      BY <2>1, <2>4
         DEF LockReceiver, ReceiveCancel, TellCancel, CancellerAlive, CancellerElsewhere
    <3>2. \E s \in {"receiving", "telling", "looping", "ending"} :
            canceller' = [canceller EXCEPT ![g] = s]
      BY <2>4 DEF LockReceiver, ReceiveCancel, TellCancel
    <3> QED BY <2>2, <3>1, <3>2, CancellerGoesOn DEF CancellerStates
  <2> QED BY <1>7, <2>3, <2>4 DEF CancellerStep
<1>8. CASE ProcessorStep
  <2>1. UNCHANGED <<linkVars, overlap, notifyReady, canceller, cancelReady>>
    BY <1>8 DEF ProcessorStep, Begin, CheckReady, DrawChallenge, Trigger, WaitEnds,
                WaitCancelled, SendCancel, ProcessorElsewhere
  <2>2. UpHasLink' /\ CancellersSound'
    BY <2>1, CancellersElsewhere DEF UpHasLink
  <2>3. CASE Trigger
    BY <2>1, <2>2, <2>3, WaitersAfterNotify DEF Trigger
  <2>4. CASE UNCHANGED <<teller, waiters>>
    BY <2>1, <2>2, <2>4, TellersElsewhere DEF WaitersWait
  <2> QED BY <1>8, <2>3, <2>4 DEF ProcessorStep, Begin, CheckReady, DrawChallenge, WaitEnds,
                                  WaitCancelled, SendCancel
<1>9. CASE UNCHANGED vars
  <2>1. WaitersWait' /\ UpHasLink'
    BY <1>9 DEF vars, WaitersWait, UpHasLink
  <2> QED BY <1>9, <2>1, TellersElsewhere, CancellersElsewhere DEF vars
<1> QED BY <1>1, <1>2, <1>3, <1>4, <1>5, <1>6, <1>7, <1>8, <1>9 DEF Next

-----------------------------------------------------------------------------
(***************************************************************************)
(* The order in which the watch is told.                                   *)
(***************************************************************************)
\* The slot holds the challenge drawn last, or nothing.
ChallengeIsLatest == challenge \in {NoChallenge, issued}

\* What the handler of the link is about to tell is not older than what was told.
TellsForward ==
    \A g \in Links : g = link /\ teller[g] = "telling" => toldLast <= telling[g]

\* Every cancellation that is known of is older than n.
Below(n) ==
    /\ cancelledLast < n
    /\ \A g \in Links : cancelling[g] < n
    /\ \A i \in 1 .. Len(cancelQueue) : cancelQueue[i] < n

\* The channel holds ever newer cancellations, newer than those taken from it.
CancelsAscend ==
    /\ \A i, j \in 1 .. Len(cancelQueue) : i < j => cancelQueue[i] < cancelQueue[j]
    /\ \A i \in 1 .. Len(cancelQueue) : cancelledLast < cancelQueue[i]
    /\ \A g \in Links, i \in 1 .. Len(cancelQueue) : cancelling[g] < cancelQueue[i]
    /\ \A g \in Links : g = link /\ canceller[g] = "telling" => cancelledLast < cancelling[g]

\* The challenge that is waited for, or cancelled, is newer than every cancellation.
WaitedIsNewer ==
    /\ pc \in {"trigger", "wait"} => Below(triggered)
    /\ pc = "sendCancel" => Below(peeked)

LEMMA TellsInductive ==
    ASSUME TypeOK, TellersSound, WaitersWait, Telling, ChallengeIsLatest, TellsForward,
           [Next]_vars
    PROVE  Telling' /\ ChallengeIsLatest' /\ TellsForward' /\ toldLast' >= toldLast
<1>0. /\ teller \in [Links -> TellerStates] /\ telling \in [Links -> 0 .. issued]
      /\ issued \in Nat /\ toldLast \in 0 .. issued /\ challenge \in 0 .. issued
      /\ link \in 0 .. MaxLinks
  BY DEF TypeOK, ChallengeTypeOK, TellerStates
<1>1. CASE WatchConnects
  <2>1. \A g \in Links : g = link' => teller[g] # "telling"
    BY <1>0, <1>1 DEF WatchConnects, TellersSound
  <2> QED BY <1>0, <1>1, <2>1 DEF WatchConnects, Telling, ChallengeIsLatest, TellsForward
<1>2. CASE SubscribeChallenge
  <2>1. /\ teller' = [teller EXCEPT ![link] = "looping"]
        /\ UNCHANGED <<telling, toldLast, challenge, issued, link, pc, peeked>>
    BY <1>2 DEF SubscribeChallenge
  <2>2. \A g \in Links : teller'[g] = "telling" => teller[g] = "telling"
    BY <1>0, <2>1
  <2> QED BY <1>0, <2>1, <2>2 DEF Telling, ChallengeIsLatest, TellsForward
<1>3. ASSUME NEW g \in Links, TellerStep(g)
      PROVE  Telling' /\ ChallengeIsLatest' /\ TellsForward' /\ toldLast' >= toldLast
  <2>1. UNCHANGED <<challenge, issued, link, pc, peeked>>
    BY <1>3 DEF TellerStep, AwaitStart, PeekChallenge, TellChallenge, DropTeller, TellerElsewhere
  <2>2. CASE PeekChallenge(g)
    <3>1. /\ \A h \in Links : h # g => teller'[h] = teller[h] /\ telling'[h] = telling[h]
          /\ telling'[g] = challenge /\ toldLast' = toldLast
          /\ teller'[g] = "telling" => challenge = issued /\ challenge # NoChallenge
      BY <1>0, <2>2 DEF PeekChallenge, CanPeek, ChallengeIsLatest
    <3> QED BY <1>0, <2>1, <3>1 DEF Telling, ChallengeIsLatest, TellsForward
  <2>3. CASE TellChallenge(g)
    <3>1. /\ \A h \in Links : h # g => teller'[h] = teller[h]
          /\ teller'[g] # "telling" /\ telling' = telling
      BY <1>0, <2>3 DEF TellChallenge
    <3>2. toldLast' \in Nat /\ toldLast' >= toldLast
      BY <1>0, <2>3 DEF TellChallenge, Reaches, TellsForward
    <3>3. \A h \in Links : h # g /\ h = link => toldLast' = toldLast
      BY <2>3 DEF TellChallenge, Reaches
    <3> QED BY <1>0, <2>1, <3>1, <3>2, <3>3 DEF Telling, ChallengeIsLatest, TellsForward
  <2>4. CASE AwaitStart(g) \/ DropTeller(g)
    <3>1. telling' = telling /\ toldLast' = toldLast
      BY <2>4 DEF AwaitStart, DropTeller
    <3>2. \A h \in Links : teller'[h] = "telling" => teller[h] = "telling"
      BY <1>0, <2>4 DEF AwaitStart, DropTeller
    <3> QED BY <1>0, <2>1, <3>1, <3>2 DEF Telling, ChallengeIsLatest, TellsForward
  <2> QED BY <1>3, <2>2, <2>3, <2>4 DEF TellerStep
<1>4. CASE ProcessorStep
  <2>1. UNCHANGED <<telling, toldLast, link>>
    BY <1>4 DEF ProcessorStep, Begin, CheckReady, DrawChallenge, Trigger, WaitEnds,
                WaitCancelled, SendCancel, ProcessorElsewhere
  <2>2. \A h \in Links : teller'[h] = "telling" => teller[h] = "telling"
    <3>1. CASE Trigger
      BY <1>0, <3>1 DEF Trigger, NotifyOne
    <3>2. CASE teller' = teller
      BY <3>2
    <3> QED BY <1>4, <3>1, <3>2 DEF ProcessorStep, Begin, CheckReady, DrawChallenge, WaitEnds,
                                    WaitCancelled, SendCancel
  <2>3. ChallengeIsLatest'
    BY <1>0, <1>4 DEF ProcessorStep, Begin, CheckReady, DrawChallenge, Trigger, WaitEnds,
                WaitCancelled, SendCancel, Refresh, TakeIfMatches, ChallengeIsLatest
  <2>4. pc' = "sendCancel" => peeked' # NoChallenge
    BY <1>4 DEF ProcessorStep, Begin, CheckReady, DrawChallenge, Trigger, WaitEnds,
                WaitCancelled, SendCancel, CanPeek, Telling
  <2> QED BY <1>0, <2>1, <2>2, <2>3, <2>4 DEF Telling, TellsForward
<1>5. CASE ReadChallenge
  BY <1>0, <1>5 DEF ReadChallenge, Refresh, Telling, ChallengeIsLatest, TellsForward
<1>6. CASE UNCHANGED <<challengeVars, link, teller, telling, toldLast, pc, peeked>>
  BY <1>0, <1>6 DEF Telling, ChallengeIsLatest, TellsForward
<1>7. WatchLeaves \/ SubscribeCancel \/ UNCHANGED vars
        => UNCHANGED <<challengeVars, link, teller, telling, toldLast, pc, peeked>>
  BY DEF WatchLeaves, SubscribeCancel, vars
<1>8. ASSUME NEW g \in Links, CancellerStep(g)
      PROVE  UNCHANGED <<challengeVars, link, teller, telling, toldLast, pc, peeked>>
  BY <1>8 DEF CancellerStep, LockReceiver, ReceiveCancel, TellCancel, DropCanceller,
              CancellerElsewhere
<1> QED BY <1>1, <1>2, <1>3, <1>4, <1>5, <1>6, <1>7, <1>8 DEF Next

\* The handler of the link that is there tells the newest cancellation yet.
CancelTold ==
    \A g \in Links :
        canceller[g] = "telling" /\ canceller'[g] = "looping" => cancelling[g] > cancelledLast

LEMMA CancelsInductive ==
    ASSUME TypeOK, CancellersSound, Telling, ChallengeIsLatest, CancelsAscend, WaitedIsNewer,
           triggered \in 0 .. issued, [Next]_vars
    PROVE  CancelsAscend' /\ WaitedIsNewer' /\ CancelTold
<1>0. /\ canceller \in [Links -> CancellerStates] /\ cancelling \in [Links -> 0 .. issued]
      /\ issued \in Nat /\ cancelledLast \in 0 .. issued /\ challenge \in 0 .. issued
      /\ link \in 0 .. MaxLinks /\ cancelQueue \in Seq(1 .. issued) /\ Len(cancelQueue) \in Nat
      /\ triggered \in 0 .. issued /\ peeked \in 0 .. issued
      /\ \A i \in 1 .. Len(cancelQueue) : cancelQueue[i] \in 1 .. issued
  <2>1. cancelQueue \in Seq(1 .. issued)
    BY DEF TypeOK
  <2> QED BY <2>1, ElementsIn DEF TypeOK, ChallengeTypeOK, CancellerStates
<1>1. CASE WatchConnects
  <2>1. \A g \in Links : g = link' => canceller[g] # "telling"
    BY <1>0, <1>1 DEF WatchConnects, CancellersSound
  <2> QED BY <1>0, <1>1, <2>1
          DEF WatchConnects, CancelsAscend, WaitedIsNewer, Below, CancelTold
<1>2. CASE SubscribeCancel
  <2>1. canceller' = [canceller EXCEPT ![link] = "looping"] /\ canceller[link] = "none"
        /\ UNCHANGED <<cancelling, cancelledLast, cancelQueue, link, pc, peeked, triggered>>
    BY <1>2 DEF SubscribeCancel
  <2>2. \A g \in Links : /\ canceller'[g] = "telling" => canceller[g] = "telling"
                         /\ canceller[g] = "telling" => canceller'[g] = "telling"
    BY <1>0, <2>1
  <2> QED BY <1>0, <2>1, <2>2 DEF CancelsAscend, WaitedIsNewer, Below, CancelTold
<1>3. ASSUME NEW g \in Links, CancellerStep(g)
      PROVE  CancelsAscend' /\ WaitedIsNewer' /\ CancelTold
  <2>1. UNCHANGED <<link, pc, peeked, triggered>>
    BY <1>3 DEF CancellerStep, LockReceiver, ReceiveCancel, TellCancel, DropCanceller,
                CancellerElsewhere
  <2>2. CASE ReceiveCancel(g)
    <3>0. cancelQueue # <<>> /\ cancelQueue' = Tail(cancelQueue)
          /\ cancelling' = [cancelling EXCEPT ![g] = Head(cancelQueue)]
          /\ canceller' = [canceller EXCEPT ![g] = "telling"]
          /\ cancelledLast' = cancelledLast
      BY <2>2 DEF ReceiveCancel
    <3>1. /\ Head(cancelQueue) = cancelQueue[1] /\ Len(cancelQueue) \in Nat \ {0}
          /\ Len(cancelQueue') = Len(cancelQueue) - 1
          /\ \A i \in 1 .. Len(cancelQueue') : cancelQueue'[i] = cancelQueue[i + 1]
      BY <1>0, <3>0, TailKeeps
    <3>2. cancelling'[g] = cancelQueue[1] /\ canceller'[g] = "telling"
          /\ \A h \in Links : h # g => /\ cancelling'[h] = cancelling[h]
                                       /\ canceller'[h] = canceller[h]
      BY <1>0, <3>0, <3>1
    <3>3. CancelsAscend'
      <4>1. \A i, j \in 1 .. Len(cancelQueue') : i < j => cancelQueue'[i] < cancelQueue'[j]
        BY <3>1 DEF CancelsAscend
      <4>2. \A i \in 1 .. Len(cancelQueue') : cancelledLast' < cancelQueue'[i]
        BY <3>0, <3>1 DEF CancelsAscend
      <4>3. \A h \in Links, i \in 1 .. Len(cancelQueue') : cancelling'[h] < cancelQueue'[i]
        BY <3>1, <3>2 DEF CancelsAscend
      <4>4. \A h \in Links :
              h = link' /\ canceller'[h] = "telling" => cancelledLast' < cancelling'[h]
        BY <2>1, <3>0, <3>1, <3>2 DEF CancelsAscend
      <4> QED BY <4>1, <4>2, <4>3, <4>4 DEF CancelsAscend
    <3>4. ASSUME NEW n \in Nat, Below(n)
          PROVE  /\ cancelledLast' < n /\ \A h \in Links : cancelling'[h] < n
                 /\ \A i \in 1 .. Len(cancelQueue') : cancelQueue'[i] < n
      BY <3>0, <3>1, <3>2, <3>4 DEF Below
    <3>5. WaitedIsNewer'
      <4>1. pc \in {"trigger", "wait"} => Below(triggered)'
        <5>1. SUFFICES ASSUME pc \in {"trigger", "wait"} PROVE Below(triggered)'
          OBVIOUS
        <5>2. triggered \in Nat /\ Below(triggered)
          BY <1>0, <5>1 DEF WaitedIsNewer
        <5>3. /\ cancelledLast' < triggered /\ \A h \in Links : cancelling'[h] < triggered
              /\ \A i \in 1 .. Len(cancelQueue') : cancelQueue'[i] < triggered
          BY <3>4, <5>2
        <5> QED BY <2>1, <5>3 DEF Below
      <4>2. pc = "sendCancel" => Below(peeked)'
        <5>1. SUFFICES ASSUME pc = "sendCancel" PROVE Below(peeked)'
          OBVIOUS
        <5>2. peeked \in Nat /\ Below(peeked)
          BY <1>0, <5>1 DEF WaitedIsNewer
        <5>3. /\ cancelledLast' < peeked /\ \A h \in Links : cancelling'[h] < peeked
              /\ \A i \in 1 .. Len(cancelQueue') : cancelQueue'[i] < peeked
          BY <3>4, <5>2
        <5> QED BY <2>1, <5>3 DEF Below
      <4> QED BY <2>1, <4>1, <4>2 DEF WaitedIsNewer
    <3>6. CancelTold
      BY <2>2, <3>2 DEF ReceiveCancel, CancelTold
    <3> QED BY <3>3, <3>5, <3>6
  <2>3. CASE TellCancel(g)
    <3>0. cancelQueue' = cancelQueue /\ cancelling' = cancelling
      BY <2>3 DEF TellCancel
    <3>1. /\ \A h \in Links : h # g => canceller'[h] = canceller[h]
          /\ canceller'[g] # "telling" /\ canceller[g] = "telling"
          /\ canceller'[g] = "looping" => g = link
      BY <1>0, <2>3 DEF TellCancel, Reaches
    <3>2. cancelledLast' \in {cancelledLast, cancelling[g]}
      BY <2>3 DEF TellCancel
    <3>3. \A h \in Links : h # g /\ h = link => cancelledLast' = cancelledLast
      BY <2>3 DEF TellCancel, Reaches
    <3>4. CancelsAscend'
      BY <1>0, <2>1, <3>0, <3>1, <3>2, <3>3 DEF CancelsAscend
    <3>5. WaitedIsNewer'
      BY <1>0, <2>1, <3>0, <3>2 DEF WaitedIsNewer, Below
    <3>6. CancelTold
      BY <1>0, <3>1 DEF CancelTold, CancelsAscend
    <3> QED BY <3>4, <3>5, <3>6
  <2>4. CASE LockReceiver(g) \/ DropCanceller(g)
    <3>1. UNCHANGED <<cancelling, cancelledLast, cancelQueue>>
      BY <2>4 DEF LockReceiver, DropCanceller
    <3>2. \A h \in Links : /\ canceller'[h] = "telling" => canceller[h] = "telling"
                           /\ canceller[h] = "telling" => canceller'[h] = "telling"
      BY <1>0, <2>4 DEF LockReceiver, DropCanceller
    <3> QED BY <1>0, <2>1, <3>1, <3>2 DEF CancelsAscend, WaitedIsNewer, Below, CancelTold
  <2> QED BY <1>3, <2>2, <2>3, <2>4 DEF CancellerStep
<1>4. CASE SendCancel
  <2>0. /\ pc = "sendCancel" /\ pc' = "idle" /\ cancelQueue' = Append(cancelQueue, peeked)
        /\ UNCHANGED <<link, canceller, cancelling, cancelledLast>>
    BY <1>4 DEF SendCancel, ProcessorElsewhere
  <2>1. /\ Len(cancelQueue') = Len(cancelQueue) + 1 /\ cancelQueue'[Len(cancelQueue) + 1] = peeked
        /\ \A i \in 1 .. Len(cancelQueue) : cancelQueue'[i] = cancelQueue[i]
    <3>1. peeked \in 1 .. issued
      BY <1>0, <2>0 DEF Telling
    <3> QED BY <1>0, <2>0, <3>1, AppendKeeps
  <2>2. Below(peeked)
    BY <2>0 DEF WaitedIsNewer
  <2>3. \A i \in 1 .. Len(cancelQueue') : i \in 1 .. Len(cancelQueue) \/ i = Len(cancelQueue) + 1
    BY <1>0, <2>1
  <2>4. \A i, j \in 1 .. Len(cancelQueue') : i < j => cancelQueue'[i] < cancelQueue'[j]
    <3>1. SUFFICES ASSUME NEW i \in 1 .. Len(cancelQueue'), NEW j \in 1 .. Len(cancelQueue'),
                          i < j
                   PROVE  cancelQueue'[i] < cancelQueue'[j]
      OBVIOUS
    <3>2. i \in 1 .. Len(cancelQueue)
      BY <1>0, <2>1, <3>1
    <3>3. CASE j \in 1 .. Len(cancelQueue)
      BY <2>1, <3>1, <3>2, <3>3 DEF CancelsAscend
    <3>4. CASE j = Len(cancelQueue) + 1
      BY <2>1, <2>2, <3>2, <3>4 DEF Below
    <3> QED BY <2>3, <3>3, <3>4
  <2>5. \A i \in 1 .. Len(cancelQueue') : cancelledLast' < cancelQueue'[i]
    BY <2>0, <2>1, <2>2, <2>3 DEF CancelsAscend, Below
  <2>6. \A g \in Links, i \in 1 .. Len(cancelQueue') : cancelling'[g] < cancelQueue'[i]
    BY <2>0, <2>1, <2>2, <2>3 DEF CancelsAscend, Below
  <2>7. CancelsAscend'
    BY <2>0, <2>4, <2>5, <2>6 DEF CancelsAscend
  <2> QED BY <2>0, <2>7 DEF WaitedIsNewer, CancelTold
<1>5. CASE UNCHANGED <<link, canceller, cancelling, cancelledLast, cancelQueue>>
  <2>1. CancelsAscend' /\ CancelTold /\ \A n : Below(n)' <=> Below(n)
    BY <1>5 DEF CancelsAscend, CancelTold, Below
  <2>2. CASE UNCHANGED <<pc, peeked, triggered>>
    BY <2>1, <2>2 DEF WaitedIsNewer
  <2>3. CASE DrawChallenge
    <3>1. Below(issued + 1)
      BY <1>0 DEF Below
    <3> QED BY <2>1, <2>3, <3>1 DEF DrawChallenge, WaitedIsNewer
  <2>4. CASE WaitCancelled
    <3>1. pc = "wait" /\ (pc' = "sendCancel" => peeked' = issued) /\ pc' \notin {"trigger", "wait"}
      BY <2>4 DEF WaitCancelled, CanPeek, ChallengeIsLatest
    <3>2. Below(issued)
      BY <1>0, <3>1 DEF WaitedIsNewer, Below
    <3> QED BY <2>1, <3>1, <3>2 DEF WaitedIsNewer
  <2>5. CASE Begin \/ CheckReady \/ Trigger \/ WaitEnds
    BY <2>1, <2>5 DEF Begin, CheckReady, Trigger, WaitEnds, WaitedIsNewer
  <2>6. WatchLeaves \/ SubscribeChallenge \/ ReadChallenge \/ UNCHANGED vars
          => UNCHANGED <<pc, peeked, triggered>>
    BY DEF WatchLeaves, SubscribeChallenge, ReadChallenge, vars
  <2>7. ASSUME NEW g \in Links, TellerStep(g) PROVE UNCHANGED <<pc, peeked, triggered>>
    BY <2>7 DEF TellerStep, AwaitStart, PeekChallenge, TellChallenge, DropTeller,
                TellerElsewhere
  <2> QED BY <1>1, <1>2, <1>3, <1>4, <2>1, <2>2, <2>3, <2>4, <2>5, <2>6, <2>7
          DEF Next, ProcessorStep
<1>6. WatchLeaves \/ SubscribeChallenge \/ ReadChallenge \/ UNCHANGED vars
        => UNCHANGED <<link, canceller, cancelling, cancelledLast, cancelQueue>>
  BY DEF WatchLeaves, SubscribeChallenge, ReadChallenge, vars
<1>7. ASSUME NEW g \in Links, TellerStep(g)
      PROVE  UNCHANGED <<link, canceller, cancelling, cancelledLast, cancelQueue>>
  BY <1>7 DEF TellerStep, AwaitStart, PeekChallenge, TellChallenge, DropTeller, TellerElsewhere
<1>8. Begin \/ CheckReady \/ DrawChallenge \/ Trigger \/ WaitEnds \/ WaitCancelled
        => UNCHANGED <<link, canceller, cancelling, cancelledLast, cancelQueue>>
  BY DEF Begin, CheckReady, DrawChallenge, Trigger, WaitEnds, WaitCancelled, ProcessorElsewhere
<1> QED BY <1>1, <1>2, <1>3, <1>4, <1>5, <1>6, <1>7, <1>8 DEF Next, ProcessorStep

-----------------------------------------------------------------------------
(***************************************************************************)
(* The trigger.                                                            *)
(***************************************************************************)
\* Who waits is in the queue, and a permit is stored only when nobody does.
WaitersQueue ==
    /\ \A g \in Links : teller[g] = "waiting" => \E i \in 1 .. Len(waiters) : waiters[i] = g
    /\ permit => waiters = <<>>

\* From the draw to the end of the wait the slot holds a challenge: no handler that is
\* woken finds it empty.
SlotHeld == pc \in {"trigger", "wait"} => challenge # NoChallenge

\* A permit is for handlers to come: nobody sleeps on it.
LEMMA PermitIsForOthers ==
    ASSUME WaitersQueue, permit
    PROVE  \A g \in Links : teller[g] # "waiting"
BY DEF WaitersQueue

\* Only the processor empties the slot, at the end of its wait.
LEMMA SlotHeldInductive ==
    ASSUME TypeOK, SlotHeld, [Next]_vars
    PROVE  SlotHeld'
<1>1. CASE ReadChallenge
  BY <1>1 DEF ReadChallenge, Refresh, TypeOK, ChallengeTypeOK, SlotHeld
<1>2. CASE ProcessorStep
  BY <1>2 DEF ProcessorStep, Begin, CheckReady, DrawChallenge, Trigger, WaitEnds, WaitCancelled,
              SendCancel, Refresh, TypeOK, ChallengeTypeOK, SlotHeld
<1>3. CASE UNCHANGED <<challengeVars, pc>>
  BY <1>3 DEF SlotHeld
<1>4. WatchConnects \/ WatchLeaves \/ SubscribeChallenge \/ SubscribeCancel \/ UNCHANGED vars
        => UNCHANGED <<challengeVars, pc>>
  BY DEF WatchConnects, WatchLeaves, SubscribeChallenge, SubscribeCancel, vars
<1>5. ASSUME NEW g \in Links, TellerStep(g) \/ CancellerStep(g)
      PROVE  UNCHANGED <<challengeVars, pc>>
  BY <1>5 DEF TellerStep, AwaitStart, PeekChallenge, TellChallenge, DropTeller, TellerElsewhere,
              CancellerStep, LockReceiver, ReceiveCancel, TellCancel, DropCanceller,
              CancellerElsewhere
<1> QED BY <1>1, <1>2, <1>3, <1>4, <1>5 DEF Next

\* Who comes to wait joins the queue, unless the permit lets him by.
LEMMA QueueAfterAwait ==
    ASSUME TypeOK, WaitersQueue, NEW g \in Links, AwaitStart(g)
    PROVE  WaitersQueue'
<1>1. CASE permit
  <2>1. ~permit' /\ teller' = [teller EXCEPT ![g] = "woken"] /\ waiters' = waiters
    BY <1>1 DEF AwaitStart
  <2>2. \A h \in Links : teller'[h] = "waiting" => teller[h] = "waiting"
    BY <2>1 DEF TypeOK
  <2> QED BY <2>1, <2>2 DEF WaitersQueue
<1>2. CASE ~permit
  <2>1. /\ ~permit' /\ teller' = [teller EXCEPT ![g] = "waiting"]
        /\ waiters' = Append(waiters, g) /\ waiters \in Seq(Links) /\ Len(waiters) \in Nat
    BY <1>2, ElementsIn DEF AwaitStart, TypeOK
  <2>2. /\ Len(waiters') = Len(waiters) + 1 /\ waiters'[Len(waiters) + 1] = g
        /\ \A i \in 1 .. Len(waiters) : waiters'[i] = waiters[i]
    BY <2>1, AppendKeeps
  <2>3. SUFFICES ASSUME NEW h \in Links, teller'[h] = "waiting"
                 PROVE  \E i \in 1 .. Len(waiters') : waiters'[i] = h
    BY <2>1 DEF WaitersQueue
  <2>4. CASE h = g
    <3>1. Len(waiters) + 1 \in 1 .. Len(waiters')
      BY <2>1, <2>2
    <3> QED BY <2>2, <2>4, <3>1
  <2>5. CASE h # g
    <3>1. teller[h] = "waiting"
      BY <2>1, <2>3, <2>5 DEF TypeOK
    <3>2. PICK i \in 1 .. Len(waiters) : waiters[i] = h
      BY <3>1 DEF WaitersQueue
    <3>3. i \in 1 .. Len(waiters') /\ waiters'[i] = h
      BY <2>1, <2>2, <3>2
    <3> QED BY <3>3
  <2> QED BY <2>4, <2>5
<1> QED BY <1>1, <1>2

\* Only the oldest leaves the queue, and is woken; the permit is stored when there is
\* none. Either way the trigger is kept.
LEMMA QueueAfterNotify ==
    ASSUME TypeOK, WaitersQueue, NotifyOne
    PROVE  /\ WaitersQueue'
           /\ permit' \/ \E g \in Links : teller'[g] = "woken"
<1>1. CASE waiters = <<>>
  BY <1>1 DEF NotifyOne, WaitersQueue
<1>2. CASE waiters # <<>>
  <2>1. waiters \in Seq(Links) /\ waiters' = Tail(waiters) /\ permit' = permit
        /\ teller' = [teller EXCEPT ![Head(waiters)] = "woken"]
    BY <1>2 DEF NotifyOne, TypeOK
  <2>2. /\ Head(waiters) \in Links /\ Head(waiters) = waiters[1]
        /\ Len(waiters) \in Nat \ {0} /\ Len(waiters') = Len(waiters) - 1
        /\ \A i \in 1 .. Len(waiters') : waiters'[i] = waiters[i + 1]
    BY <1>2, <2>1, TailKeeps
  <2>3. ~permit'
    BY <1>2, <2>1 DEF WaitersQueue, TypeOK
  <2>4. teller'[Head(waiters)] = "woken"
    BY <2>1, <2>2 DEF TypeOK
  <2>5. ASSUME NEW h \in Links, teller'[h] = "waiting"
        PROVE  \E i \in 1 .. Len(waiters') : waiters'[i] = h
    <3>1. h # Head(waiters) /\ teller[h] = "waiting"
      BY <2>1, <2>4, <2>5 DEF TypeOK
    <3>2. PICK i \in 1 .. Len(waiters) : waiters[i] = h
      BY <3>1 DEF WaitersQueue
    <3>3. i # 1 /\ i \in Nat
      BY <2>2, <3>1, <3>2
    <3>4. i - 1 \in 1 .. Len(waiters') /\ waiters'[i - 1] = waiters[(i - 1) + 1]
      BY <2>2, <3>2, <3>3
    <3>5. (i - 1) + 1 = i
      BY <3>3
    <3> QED BY <3>2, <3>4, <3>5
  <2> QED BY <2>2, <2>3, <2>4, <2>5 DEF WaitersQueue
<1> QED BY <1>1, <1>2

\* What brings nobody to wait leaves the queue as it was.
LEMMA QueueElsewhere ==
    ASSUME WaitersQueue, UNCHANGED <<waiters, permit>>,
           \A g \in Links : teller'[g] = "waiting" => teller[g] = "waiting"
    PROVE  WaitersQueue'
BY DEF WaitersQueue

LEMMA TriggerInductive ==
    ASSUME TypeOK, UpHasLink, ChallengeIsLatest, SlotHeld, WaitersQueue, NoTriggerLost,
           toldLast' >= toldLast, [Next]_vars
    PROVE  WaitersQueue' /\ NoTriggerLost'
<1>0. /\ teller \in [Links -> TellerStates] /\ telling \in [Links -> 0 .. issued]
      /\ issued \in Nat /\ toldLast \in 0 .. issued /\ triggered \in 0 .. issued
      /\ toldLast' >= toldLast
  BY DEF TypeOK, ChallengeTypeOK, TellerStates
<1>1. CASE SubscribeChallenge
  <2>1. /\ link \in Links /\ teller[link] = "none"
        /\ teller' = [teller EXCEPT ![link] = "looping"]
        /\ UNCHANGED <<pc, telling, permit, waiters, toldLast, triggered>>
    BY <1>1 DEF SubscribeChallenge, UpHasLink
  <2>2. \A g \in Links : teller'[g] = "waiting" => teller[g] = "waiting"
    BY <1>0, <2>1
  <2>3. \A g \in Links : teller[g] \in TellerStates \ {"none"} => teller'[g] = teller[g]
    BY <1>0, <2>1
  <2> QED BY <2>1, <2>2, <2>3, QueueElsewhere DEF NoTriggerLost, TellerStates
<1>2. ASSUME NEW g \in Links, TellerStep(g) PROVE WaitersQueue' /\ NoTriggerLost'
  <2>1. UNCHANGED <<challenge, issued, pc, triggered>>
    BY <1>2 DEF TellerStep, AwaitStart, PeekChallenge, TellChallenge, DropTeller,
                TellerElsewhere
  <2>2. CASE AwaitStart(g)
    <3>1. teller[g] = "looping" /\ UNCHANGED <<telling, toldLast>>
      BY <2>2 DEF AwaitStart
    <3>2. \A h \in Links : h # g => teller'[h] = teller[h]
      BY <1>0, <2>2 DEF AwaitStart
    <3>3. permit => teller'[g] = "woken"
      BY <1>0, <2>2 DEF AwaitStart
    <3>4. NoTriggerLost'
      BY <2>1, <3>1, <3>2, <3>3 DEF NoTriggerLost
    <3> QED BY <2>2, <3>4, QueueAfterAwait
  <2>3. CASE PeekChallenge(g)
    <3>1. /\ teller[g] = "woken" /\ telling'[g] = challenge
          /\ CanPeek => teller'[g] = "telling"
          /\ ~CanPeek => teller'[g] = "ending"
          /\ UNCHANGED <<permit, waiters, toldLast>>
          /\ \A h \in Links : h # g => teller'[h] = teller[h] /\ telling'[h] = telling[h]
      BY <1>0, <2>3 DEF PeekChallenge
    <3>2. WaitersQueue'
      BY <3>1, QueueElsewhere
    <3>3. pc = "wait" => teller'[g] = "telling" /\ telling'[g] >= triggered
      BY <1>0, <3>1 DEF SlotHeld, CanPeek, ChallengeIsLatest
    <3> QED BY <2>1, <3>2, <3>3 DEF NoTriggerLost
  <2>4. CASE TellChallenge(g)
    <3>1. /\ teller[g] = "telling" /\ UNCHANGED <<telling, permit, waiters>>
          /\ \A h \in Links : h # g => teller'[h] = teller[h]
          /\ \/ teller'[g] = "looping" /\ toldLast' = telling[g]
             \/ teller'[g] = "ending" /\ toldLast' = toldLast
      BY <1>0, <2>4 DEF TellChallenge
    <3>2. WaitersQueue'
      <4>1. \A h \in Links : teller'[h] = "waiting" => teller[h] = "waiting"
        BY <3>1
      <4> QED BY <3>1, <4>1, QueueElsewhere
    <3>3. SUFFICES ASSUME pc = "wait" PROVE NoTriggerLost'
      BY <2>1, <3>2 DEF NoTriggerLost
    <3>4. CASE toldLast >= triggered
      <4>1. toldLast' >= triggered
        BY <1>0, <3>1, <3>4
      <4> QED BY <2>1, <3>2, <4>1 DEF NoTriggerLost
    <3>5. CASE telling[g] >= triggered
      BY <2>1, <3>1, <3>2, <3>5 DEF NoTriggerLost
    <3>6. CASE ~(toldLast >= triggered) /\ ~(telling[g] >= triggered)
      <4>1. \/ \E h \in Links : h # g /\ teller[h] = "woken"
            \/ \E h \in Links : /\ h # g /\ teller[h] \in {"telling", "ending", "ended"}
                               /\ telling[h] >= triggered
            \/ permit /\ \A h \in Links : teller[h] # "waiting"
        BY <3>1, <3>3, <3>6 DEF NoTriggerLost
      <4> QED BY <2>1, <3>1, <3>2, <4>1 DEF NoTriggerLost
    <3> QED BY <3>4, <3>5, <3>6
  <2>5. CASE DropTeller(g)
    <3>1. /\ teller[g] = "ending" /\ teller'[g] = "ended"
          /\ UNCHANGED <<telling, permit, waiters, toldLast>>
          /\ \A h \in Links : h # g => teller'[h] = teller[h]
      BY <1>0, <2>5 DEF DropTeller
    <3>2. WaitersQueue'
      BY <3>1, QueueElsewhere
    <3> QED BY <2>1, <3>1, <3>2 DEF NoTriggerLost
  <2> QED BY <1>2, <2>2, <2>3, <2>4, <2>5 DEF TellerStep
<1>3. CASE Trigger
  <2>1. WaitersQueue' /\ (permit' \/ \E g \in Links : teller'[g] = "woken")
    BY <1>3, QueueAfterNotify DEF Trigger
  <2>2. permit' => \A g \in Links : teller'[g] # "waiting"
    BY <2>1 DEF WaitersQueue
  <2> QED BY <2>1, <2>2 DEF NoTriggerLost
<1>4. CASE UNCHANGED tellerVars /\ (pc' = "wait" => pc = "wait" /\ triggered' = triggered)
  BY <1>4, QueueElsewhere DEF NoTriggerLost
<1>5. CASE ReadChallenge
  BY <1>5, QueueElsewhere DEF ReadChallenge, NoTriggerLost
<1>6. WatchConnects \/ WatchLeaves \/ SubscribeCancel \/ UNCHANGED vars
        => UNCHANGED tellerVars /\ UNCHANGED processorVars
  BY DEF WatchConnects, WatchLeaves, SubscribeCancel, vars
<1>7. ASSUME NEW g \in Links, CancellerStep(g)
      PROVE  UNCHANGED tellerVars /\ UNCHANGED processorVars
  BY <1>7 DEF CancellerStep, LockReceiver, ReceiveCancel, TellCancel, DropCanceller,
              CancellerElsewhere
<1>8. Begin \/ CheckReady \/ DrawChallenge \/ WaitEnds \/ WaitCancelled \/ SendCancel
        => /\ UNCHANGED tellerVars
           /\ pc' = "wait" => pc = "wait" /\ triggered' = triggered
  BY DEF Begin, CheckReady, DrawChallenge, WaitEnds, WaitCancelled, SendCancel
<1> QED BY <1>1, <1>2, <1>3, <1>4, <1>5, <1>6, <1>7, <1>8 DEF Next, ProcessorStep

-----------------------------------------------------------------------------
(***************************************************************************)
(* The theorems.                                                           *)
(***************************************************************************)
NotifyInv ==
    /\ TypeOK
    /\ Telling
    /\ UpHasLink /\ TellersSound /\ CancellersSound /\ WaitersWait
    /\ ChallengeIsLatest /\ TellsForward
    /\ CancelsAscend /\ WaitedIsNewer
    /\ SlotHeld /\ WaitersQueue /\ NoTriggerLost

LEMMA NotifyInvInit == Init => NotifyInv
<1> SUFFICES ASSUME Init PROVE NotifyInv
  OBVIOUS
<1>1. TypeOK
  BY NotifyTypeInit
<1>2. Telling /\ UpHasLink /\ WaitersWait
  BY DEF Init, Telling, UpHasLink, WaitersWait
<1>3. TellersSound
  BY DEF Init, TellersSound, TellerAlive
<1>4. CancellersSound
  BY DEF Init, CancellersSound, CancellerAlive
<1>5. ChallengeIsLatest /\ TellsForward /\ CancelsAscend /\ WaitedIsNewer
  BY DEF Init, ChallengeInit, ChallengeIsLatest, TellsForward, CancelsAscend, WaitedIsNewer
<1>6. SlotHeld /\ WaitersQueue /\ NoTriggerLost
  BY DEF Init, SlotHeld, WaitersQueue, NoTriggerLost
<1> QED BY <1>1, <1>2, <1>3, <1>4, <1>5, <1>6 DEF NotifyInv

LEMMA NotifyInvStep ==
    ASSUME NotifyInv, [Next]_vars
    PROVE  NotifyInv' /\ toldLast' >= toldLast /\ CancelTold
<1>1. TypeOK' /\ triggered \in 0 .. issued
  BY NotifyTypeInductive DEF NotifyInv, TypeOK
<1>2. UpHasLink' /\ TellersSound' /\ CancellersSound' /\ WaitersWait'
  BY FlagsInductive DEF NotifyInv
<1>3. Telling' /\ ChallengeIsLatest' /\ TellsForward' /\ toldLast' >= toldLast
  BY TellsInductive DEF NotifyInv
<1>4. CancelsAscend' /\ WaitedIsNewer' /\ CancelTold
  BY <1>1, CancelsInductive DEF NotifyInv
<1>5. SlotHeld'
  BY SlotHeldInductive DEF NotifyInv
<1>6. WaitersQueue' /\ NoTriggerLost'
  BY <1>3, TriggerInductive DEF NotifyInv
<1> QED BY <1>1, <1>2, <1>3, <1>4, <1>5, <1>6 DEF NotifyInv

LEMMA NotifyInvHolds == Spec => []NotifyInv
<1>1. NotifyInv /\ [Next]_vars => NotifyInv'
  BY NotifyInvStep
<1> QED BY <1>1, NotifyInvInit, PTL DEF Spec

\* The handlers, the flags, the trigger and the channel keep their types: no queue holds
\* a link or a challenge that does not exist.
THEOREM NotifyTypeCorrect == Spec => []TypeOK
<1>1. NotifyInv => TypeOK
  BY DEF NotifyInv
<1> QED BY <1>1, NotifyInvHolds, PTL

\* A flag that is set has a handler behind it, that of the latest subscription.
THEOREM FlagsHaveHandlers == Spec => []ReadyHasHandler
<1>1. NotifyInv => ReadyHasHandler
  BY DEF NotifyInv, TellersSound, CancellersSound, ReadyHasHandler
<1> QED BY <1>1, NotifyInvHolds, PTL

\* Without an overlap of handlers, a flag is set exactly when there is one.
THEOREM FlagsExact == Spec => []FlagExactWithoutOverlap
<1>1. NotifyInv => FlagExactWithoutOverlap
  BY DEF NotifyInv, TellersSound, CancellersSound, FlagExactWithoutOverlap
<1> QED BY <1>1, NotifyInvHolds, PTL

\* No trigger is lost between the handlers, the permit and the links.
THEOREM TriggersKept == Spec => []NoTriggerLost
<1>1. NotifyInv => NoTriggerLost
  BY DEF NotifyInv
<1> QED BY <1>1, NotifyInvHolds, PTL

\* The watch is never told an older challenge after a newer one.
THEOREM TellsInOrder == Spec => ToldInOrder
<1>1. NotifyInv /\ [Next]_vars => [toldLast' >= toldLast]_vars
  BY NotifyInvStep
<1> QED BY <1>1, NotifyInvHolds, PTL DEF Spec, ToldInOrder

\* A cancellation reaches the watch at most once, and in the order of the requests.
THEOREM CancelsToldInOrder == Spec => CancelsInOrder
<1>1. NotifyInv /\ [Next]_vars => [CancelTold]_vars
  BY NotifyInvStep
<1> QED BY <1>1, NotifyInvHolds, PTL DEF Spec, CancelsInOrder, CancelTold
=============================================================================
