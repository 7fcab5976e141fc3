------------------------- MODULE DriverOffersProofs -------------------------
(***************************************************************************)
(* Proofs about DriverOffers, for any number of offers and any number of   *)
(* answers and reads under way.                                            *)
(***************************************************************************)
EXTENDS DriverOffers, WellFoundedInduction, SequenceTheorems, TLAPS

\* The card is mounted while an offer is shown, and only then.
MountedIffShown ==
  /\ card.state = "CLOSED" <=> shown = NoOffer
  /\ card.state = "CLOSED" => card.timer = NoOffer

\* A response under way is about an offer.
ResponsesName == \A c \in Calls : call[c].step # "idle" => call[c].offer \in Offers

\* What the app was told it won, and what a timer will open, the server gave.
ToldIsWon == \A c \in Calls : /\ call[c].step = "back" /\ call[c].accepted
                              /\ call[c].result = "accepted"
                              => call[c].offer \in won

TimersWon == dismissals \subseteq won \cup {NoOffer}

\* The inductive invariant.
OInv ==
  /\ OffersTypeOK
  /\ ShownIsNext
  /\ MountedIffShown
  /\ OneAnswerAtATime
  /\ ResponsesName
  /\ ToldIsWon
  /\ TimersWon
  /\ TripOnlyIfAssigned

-----------------------------------------------------------------------------
(* The entry the card shows. *)

\* A set of naturals that is not empty has a least element, and Min finds it.
LEMMA MinIsLeast ==
  ASSUME NEW S, S \subseteq Nat, S # {}
  PROVE  Min(S) \in S /\ \A x \in S : Min(S) <= x
<1> DEFINE Less == {xy \in Nat \X Nat : xy[1] < xy[2]}
<1>1. IsWellFoundedOn(Less, Nat)
  BY NatLessThanWellFounded DEF OpToRel
<1>2. \E x \in S : \A y \in S : ~(<<y, x>> \in Less)
  <2> HIDE DEF Less
  <2> QED BY <1>1, WFMin
<1>3. PICK x \in S : \A y \in S : ~(<<y, x>> \in Less)
  BY <1>2
<1>4. ASSUME NEW y \in S PROVE x <= y
  <2>1. x \in Nat /\ y \in Nat
    OBVIOUS
  <2>2. <<y, x>> \in Nat \X Nat /\ ~(<<y, x>>[1] < <<y, x>>[2])
    BY <1>3, <2>1
  <2> QED BY <2>1, <2>2
<1> QED BY <1>4 DEF Min

LEMMA SoonestIsNext ==
  ASSUME NEW q \in SUBSET Offers, late \subseteq Offers
  PROVE  /\ Soonest(q) \in Offers \cup {NoOffer}
         /\ Soonest(q) = NoOffer => q \subseteq late
         /\ Soonest(q) # NoOffer =>
              Soonest(q) \in q /\ \A o \in q : o < Soonest(q) => o \in late
<1>1. CASE q \ late = {}
  BY <1>1 DEF Soonest
<1>2. CASE q \ late # {}
  <2>1. q \ late \subseteq Nat
    BY OffersAssumption
  <2>2. /\ Min(q \ late) \in q \ late
        /\ \A x \in q \ late : Min(q \ late) <= x
    BY <1>2, <2>1, MinIsLeast
  <2>3. Soonest(q) = Min(q \ late)
    BY <1>2 DEF Soonest
  <2>4. \A o \in q \ late : ~(o < Soonest(q))
    BY <2>1, <2>2, <2>3
  <2> QED BY <2>2, <2>3, <2>4, OffersAssumption
<1> QED BY <1>1, <1>2

\* What Notify and its callers keep.  cl are the responses once the caller is
\* done with them, st the state it gives the card, ds its timers.
Fit(st, ds, cl) ==
  /\ st \in CardStates
  /\ card.state # "CLOSED" => st # "CLOSED"
  /\ ds \subseteq won \cup {NoOffer}
  /\ cl \in [Calls -> Response]
  /\ \A c, d \in Calls : Sending(cl, c) /\ Sending(cl, d) => c = d
  /\ st = "NEW_OFFER" \/ card.state = "CLOSED" => \A c \in Calls : ~Sending(cl, c)
  /\ \A c \in Calls : cl[c].step # "idle" => cl[c].offer \in Offers
  /\ \A c \in Calls : /\ cl[c].step = "back" /\ cl[c].accepted
                      /\ cl[c].result = "accepted"
                      => cl[c].offer \in won

\* The part of the invariant that is about the queue, the card and responses.
CardInv ==
  /\ queue \subseteq Offers /\ shown \in Offers \cup {NoOffer}
  /\ card \in Card /\ dismissals \subseteq Offers \cup {NoOffer}
  /\ call \in [Calls -> Response]
  /\ ShownIsNext /\ MountedIffShown /\ OneAnswerAtATime
  /\ ResponsesName /\ ToldIsWon /\ TimersWon

LEMMA OrphanedType ==
  ASSUME NEW cl \in [Calls -> Response]
  PROVE  /\ Orphaned(cl) \in [Calls -> Response]
         /\ \A c \in Calls : /\ Orphaned(cl)[c].offer = cl[c].offer
                             /\ Orphaned(cl)[c].accepted = cl[c].accepted
                             /\ Orphaned(cl)[c].step = cl[c].step
                             /\ Orphaned(cl)[c].result = cl[c].result
                             /\ ~Sending(Orphaned(cl), c)
BY DEF Orphaned, Sending, Response

LEMMA NotifyKeeps ==
  ASSUME OInv, NEW q \in SUBSET Offers, NEW st, NEW ds, NEW cl,
         Fit(st, ds, cl), Notify(q, st, ds, cl), UNCHANGED <<late, won>>
  PROVE  CardInv'
<1>1. won \subseteq Offers /\ late \subseteq Offers /\ card \in Card
  BY DEF OInv, OffersTypeOK
<1>2. queue' = q /\ shown' = Soonest(q)
  BY DEF Notify
<1>3. queue' \subseteq Offers /\ shown' \in Offers \cup {NoOffer} /\ ShownIsNext'
  BY <1>1, <1>2, SoonestIsNext DEF ShownIsNext
<1>4. CASE Soonest(q) = NoOffer
  <2>1. card' = Closed /\ dismissals' = {} /\ call' = Orphaned(cl)
    BY <1>4 DEF Notify
  <2>2. call' \in [Calls -> Response] /\ OneAnswerAtATime'
    BY <2>1, OrphanedType DEF Fit, OneAnswerAtATime
  <2>3. ResponsesName' /\ ToldIsWon'
    BY <2>1, OrphanedType DEF Fit, ResponsesName, ToldIsWon
  <2>4. card' \in Card /\ MountedIffShown'
    BY <1>2, <1>4, <2>1 DEF Closed, Card, CardStates, MountedIffShown
  <2> QED BY <1>3, <2>1, <2>2, <2>3, <2>4 DEF CardInv, TimersWon
<1>5. CASE Soonest(q) # NoOffer
  <2>1. /\ card' = IF card.state = "CLOSED" THEN Mounted(Soonest(q))
                   ELSE [card EXCEPT !.state = st]
        /\ dismissals' = ds /\ call' = cl
    BY <1>5 DEF Notify, StaysMounted
  <2>2. card' \in Card /\ MountedIffShown'
    BY <1>1, <1>2, <1>3, <1>5, <2>1
    DEF Fit, Mounted, Card, CardStates, MountedIffShown
  <2>3. card'.state \in {"NEW_OFFER", "CLOSED"} => \A c \in Calls : ~Sending(cl, c)
    BY <1>1, <2>1 DEF Fit, Mounted, Card
  <2>4. OneAnswerAtATime' /\ call' \in [Calls -> Response]
    BY <2>1, <2>3 DEF Fit, OneAnswerAtATime
  <2>5. ResponsesName' /\ ToldIsWon' /\ TimersWon'
    BY <2>1 DEF Fit, ResponsesName, ToldIsWon, TimersWon
  <2>6. dismissals' \subseteq Offers \cup {NoOffer}
    BY <1>1, <2>1 DEF Fit
  <2> QED BY <1>3, <2>2, <2>4, <2>5, <2>6 DEF CardInv
<1> QED BY <1>4, <1>5

\* Without a change of the queue the card may still get a state and timers,
\* as long as it is mounted.
LEMMA KeptQueueKeeps ==
  ASSUME OInv, NEW st, NEW ds, NEW cl, Fit(st, ds, cl),
         card.state = "CLOSED" => st = "CLOSED",
         card' = [card EXCEPT !.state = st], dismissals' = ds, call' = cl,
         UNCHANGED <<queue, shown, late, won>>
  PROVE  CardInv'
<1>1. card \in Card /\ won \subseteq Offers
  BY DEF OInv, OffersTypeOK
<1>2. card' \in Card /\ card'.state = st /\ card'.timer = card.timer
  BY <1>1 DEF Fit, Card
<1>3. MountedIffShown'
  BY <1>2 DEF OInv, MountedIffShown, Fit
<1>4. OneAnswerAtATime'
  BY <1>2 DEF Fit, OneAnswerAtATime
<1> QED
  BY <1>1, <1>2, <1>3, <1>4
  DEF OInv, OffersTypeOK, CardInv, Fit, ShownIsNext, ResponsesName, ToldIsWon,
      TimersWon

LEMMA RemoveKeeps ==
  ASSUME OInv, NEW o, NEW st, NEW ds, NEW cl, Fit(st, ds, cl),
         card.state = "CLOSED" => st = "CLOSED",
         removeByOfferId(o, st, ds, cl), UNCHANGED <<late, won>>
  PROVE  CardInv'
<1>1. CASE o \in queue /\ Notify(queue \ {o}, st, ds, cl)
  <2>1. queue \ {o} \in SUBSET Offers
    BY DEF OInv, OffersTypeOK
  <2> QED BY <1>1, <2>1, NotifyKeeps
<1>2. CASE /\ o \notin queue
           /\ card' = [card EXCEPT !.state = st]
           /\ dismissals' = ds /\ call' = cl
           /\ UNCHANGED <<queue, shown>>
  BY <1>2, KeptQueueKeeps
<1> QED BY <1>1, <1>2 DEF removeByOfferId

\* The state of the card as it is fits, and so does a response that is done.
LEMMA AsItIs == ASSUME OInv PROVE Fit(card.state, dismissals, call)
BY DEF OInv, OffersTypeOK, Card, Fit, MountedIffShown, OneAnswerAtATime,
       ResponsesName, ToldIsWon, TimersWon

LEMMA FreedFits ==
  ASSUME OInv, NEW c \in Calls, NEW st \in CardStates, NEW ds,
         card.state # "CLOSED" => st # "CLOSED",
         ds \subseteq won \cup {NoOffer},
         st = "NEW_OFFER" => card.state = "NEW_OFFER" \/ Sending(call, c)
  PROVE  Fit(st, ds, Freed(c))
<1> USE DEF OInv
<1>1. call \in [Calls -> Response]
  BY DEF OffersTypeOK
<1>2. IdleCall \in Response /\ IdleCall.step = "idle"
  BY DEF IdleCall, Response, Results
<1>3. /\ Freed(c) \in [Calls -> Response]
      /\ Freed(c)[c] = IdleCall
      /\ \A d \in Calls \ {c} : Freed(c)[d] = call[d]
  BY <1>1, <1>2 DEF Freed
<1>4. \A d \in Calls : Sending(Freed(c), d) => d # c /\ Sending(call, d)
  BY <1>2, <1>3 DEF Sending
<1>5. \A d, e \in Calls : Sending(Freed(c), d) /\ Sending(Freed(c), e) => d = e
  BY <1>4 DEF OneAnswerAtATime
<1>6. st = "NEW_OFFER" \/ card.state = "CLOSED" =>
        \A d \in Calls : ~Sending(Freed(c), d)
  BY <1>4 DEF OneAnswerAtATime
<1>7. \A d \in Calls : Freed(c)[d].step # "idle" => d # c
  BY <1>2, <1>3
<1>8. \A d \in Calls : Freed(c)[d].step # "idle" => Freed(c)[d].offer \in Offers
  BY <1>3, <1>7 DEF ResponsesName
<1>9. \A d \in Calls : /\ Freed(c)[d].step = "back" /\ Freed(c)[d].accepted
                       /\ Freed(c)[d].result = "accepted"
                       => Freed(c)[d].offer \in won
  BY <1>3, <1>7 DEF ToldIsWon
<1> QED BY <1>3, <1>5, <1>6, <1>8, <1>9 DEF Fit

-----------------------------------------------------------------------------
(* The invariant, from the part about the card and the rest of the types. *)

LEMMA Assemble ==
  ASSUME CardInv', server' \in [Offers -> OfferStatus], won' \subseteq Offers,
         late' \subseteq Offers, wire' \in Seq(Event),
         fetch' \in [Fetches -> Read], opened' \subseteq won'
  PROVE  OInv'
BY DEF OInv, CardInv, OffersTypeOK, TripOnlyIfAssigned

LEMMA InitOInv == Init => OInv
<1> SUFFICES ASSUME Init PROVE OInv
  OBVIOUS
<1> USE DEF Init
<1>1. IdleCall \in Response /\ IdleFetch \in Read /\ Closed \in Card
  BY DEF IdleCall, Response, Results, IdleFetch, Read, Closed, Card, CardStates
<1>2. OffersTypeOK
  BY <1>1 DEF OffersTypeOK, OfferStatus
<1>3. ShownIsNext /\ MountedIffShown
  BY DEF ShownIsNext, MountedIffShown, Closed
<1>4. OneAnswerAtATime /\ ResponsesName /\ ToldIsWon
  BY DEF OneAnswerAtATime, ResponsesName, ToldIsWon, Sending, IdleCall
<1> QED BY <1>2, <1>3, <1>4 DEF OInv, TimersWon, TripOnlyIfAssigned

\* A step that leaves the queue, the card and the responses alone.
LEMMA CardUntouched ==
  ASSUME OInv, UNCHANGED <<queue, shown, card, dismissals, call>>,
         late \subseteq late', won' = won
  PROVE  CardInv'
BY DEF OInv, OffersTypeOK, CardInv, ShownIsNext, MountedIffShown,
       OneAnswerAtATime, ResponsesName, ToldIsWon, TimersWon

LEMMA PushType ==
  ASSUME OInv, NEW ev \in {"NEW", "REMOVED"}, NEW o \in Offers, Push(ev, o)
  PROVE  wire' \in Seq(Event)
<1>1. [event |-> ev, offer |-> o] \in Event /\ wire \in Seq(Event)
  BY DEF Event, OInv, OffersTypeOK
<1> QED BY <1>1 DEF Push

LEMMA ServerKeeps == ASSUME OInv, Server PROVE OInv'
<1> USE DEF cardVars, serverVars
<1> PICK o \in Offers : Publish(o) \/ Withdraw(o) \/ Expire(o)
  BY DEF Server
<1>1. CASE Publish(o)
  <2>1. CardInv'
    BY <1>1, CardUntouched DEF Publish
  <2>2. wire' \in Seq(Event)
    BY <1>1, PushType DEF Publish
  <2> QED BY <1>1, <2>1, <2>2, Assemble
          DEF Publish, OInv, OffersTypeOK, OfferStatus, TripOnlyIfAssigned
<1>2. CASE Withdraw(o)
  <2>1. CardInv'
    BY <1>2, CardUntouched DEF Withdraw
  <2>2. wire' \in Seq(Event)
    BY <1>2, PushType DEF Withdraw
  <2> QED BY <1>2, <2>1, <2>2, Assemble
          DEF Withdraw, OInv, OffersTypeOK, OfferStatus, TripOnlyIfAssigned
<1>3. CASE Expire(o)
  <2>1. CardInv'
    BY <1>3, CardUntouched DEF Expire
  <2> QED BY <1>3, <2>1, Assemble
          DEF Expire, OInv, OffersTypeOK, TripOnlyIfAssigned
<1> QED BY <1>1, <1>2, <1>3

-----------------------------------------------------------------------------
(* The events of the socket. *)

LEMMA WireHead ==
  ASSUME OInv, wire # <<>>
  PROVE  Head(wire) \in Event /\ Head(wire).offer \in Offers
         /\ Tail(wire) \in Seq(Event)
<1>1. wire \in Seq(Event)
  BY DEF OInv, OffersTypeOK
<1>2. Head(wire) \in Event /\ Tail(wire) \in Seq(Event)
  BY <1>1, HeadTailProperties
<1> QED BY <1>2 DEF Event

LEMMA UpsertKeeps ==
  ASSUME OInv, NEW o \in Offers, upsertRequest(o), UNCHANGED <<late, won>>
  PROVE  CardInv'
<1>1. CASE o \in late /\ UNCHANGED <<cardVars, call>>
  BY <1>1, CardUntouched DEF cardVars
<1>2. CASE o \notin late /\ Notify(queue \cup {o}, card.state, dismissals, call)
  <2>1. queue \cup {o} \in SUBSET Offers
    BY DEF OInv, OffersTypeOK
  <2> QED BY <1>2, <2>1, AsItIs, NotifyKeeps
<1> QED BY <1>1, <1>2 DEF upsertRequest

LEMMA IncomingKeeps == ASSUME OInv, handleIncomingOffer PROVE OInv'
<1>1. CardInv'
  BY WireHead, UpsertKeeps DEF handleIncomingOffer, serverVars
<1> QED BY <1>1, WireHead, Assemble
        DEF handleIncomingOffer, serverVars, OInv, OffersTypeOK,
            TripOnlyIfAssigned

LEMMA RemovedKeeps == ASSUME OInv, RemovedEvent PROVE OInv'
<1> DEFINE o == Head(wire).offer
           st == IF shown = o THEN "ALREADY_ASSIGNED" ELSE card.state
           ds == IF shown = o THEN dismissals \cup {NoOffer} ELSE dismissals
<1>1. o \in Offers /\ removeByOfferId(o, st, ds, call) /\ UNCHANGED <<late, won>>
  BY WireHead DEF RemovedEvent, serverVars
<1>2. Fit(card.state, dismissals, call)
  BY AsItIs
<1>3. card.state = "CLOSED" => st = "CLOSED"
  BY <1>1, OffersAssumption DEF OInv, MountedIffShown
<1>4. Fit(st, ds, call)
  BY <1>2 DEF Fit, CardStates
<1>5. CardInv'
  <2> HIDE DEF o, st, ds
  <2> QED BY <1>1, <1>3, <1>4, RemoveKeeps
<1> QED BY <1>5, WireHead, Assemble
        DEF RemovedEvent, serverVars, OInv, OffersTypeOK, TripOnlyIfAssigned

-----------------------------------------------------------------------------
(* The driver's answers. *)

\* One response changes: the others keep what is known of them.
LEMMA OneResponse ==
  ASSUME OInv, NEW c \in Calls, NEW r \in Response,
         call' = [call EXCEPT ![c] = r],
         r.step # "idle" => r.offer \in Offers,
         r.step = "back" /\ r.accepted /\ r.result = "accepted"
           => r.offer \in won',
         won \subseteq won'
  PROVE  /\ call' \in [Calls -> Response]
         /\ ResponsesName' /\ ToldIsWon'
         /\ \A d \in Calls : Sending(call', d) =>
              Sending(call, d) \/ (d = c /\ r.by = "card" /\ r.step # "idle")
<1>1. call \in [Calls -> Response]
  BY DEF OInv, OffersTypeOK
<1>2. call'[c] = r /\ \A d \in Calls \ {c} : call'[d] = call[d]
  BY <1>1
<1>3. call' \in [Calls -> Response]
  BY <1>1
<1> QED BY <1>2, <1>3 DEF OInv, ResponsesName, ToldIsWon, Sending

LEMMA TapKeeps ==
  ASSUME OInv, NEW c \in Calls, NEW accept \in BOOLEAN, Tap(c, accept)
  PROVE  OInv'
<1> DEFINE r == [offer |-> shown, accepted |-> accept, by |-> "card",
                 step |-> "first", result |-> "none"]
<1> USE DEF OInv
<1>1. r \in Response /\ shown \in Offers
  BY DEF Tap, OffersTypeOK, MountedIffShown, Response, Results
<1>2. /\ call' \in [Calls -> Response]
      /\ ResponsesName' /\ ToldIsWon'
      /\ \A d \in Calls : Sending(call', d) => Sending(call, d) \/ d = c
  BY <1>1, OneResponse DEF Tap, serverVars
<1>3. \A d \in Calls : ~Sending(call, d)
  BY DEF Tap, OneAnswerAtATime
<1>4. card' \in Card /\ card'.state \in {"ACCEPTING", "REJECTING"}
      /\ card'.timer = card.timer
  BY DEF Tap, OffersTypeOK, Card, CardStates
<1>5. OneAnswerAtATime'
  BY <1>2, <1>3, <1>4 DEF OneAnswerAtATime
<1>6. MountedIffShown'
  BY <1>4 DEF Tap, MountedIffShown
<1>7. ShownIsNext' /\ TimersWon'
  BY DEF Tap, serverVars, ShownIsNext, TimersWon
<1>8. CardInv'
  BY <1>2, <1>4, <1>5, <1>6, <1>7 DEF Tap, CardInv, OffersTypeOK
<1> QED BY <1>8, Assemble
        DEF Tap, serverVars, OffersTypeOK, TripOnlyIfAssigned

LEMMA NoteRespondKeeps ==
  ASSUME OInv, NEW c \in Calls, NEW o \in Offers, NEW accept \in BOOLEAN,
         NoteRespond(c, o, accept)
  PROVE  OInv'
<1> DEFINE r == [offer |-> o, accepted |-> accept, by |-> "note",
                 result |-> "none", step |-> IF accept THEN "first" ELSE "second"]
<1> USE DEF OInv, serverVars, cardVars
<1>1. r \in Response /\ r.offer = o /\ r.by = "note" /\ r.step # "back"
  BY DEF Response, Results
<1>2. call' = [call EXCEPT ![c] = r] /\ won' = won
  BY DEF NoteRespond
<1>3. /\ call' \in [Calls -> Response]
      /\ ResponsesName' /\ ToldIsWon'
      /\ \A d \in Calls : Sending(call', d) => Sending(call, d)
  <2> HIDE DEF r
  <2> QED BY <1>1, <1>2, OneResponse
<1>4. OneAnswerAtATime'
  BY <1>3 DEF OneAnswerAtATime, NoteRespond
<1>5. ShownIsNext' /\ TimersWon' /\ MountedIffShown'
  BY DEF NoteRespond, ShownIsNext, TimersWon, MountedIffShown
<1>6. CardInv'
  BY <1>3, <1>4, <1>5 DEF NoteRespond, CardInv, OffersTypeOK
<1> QED BY <1>6, Assemble
        DEF NoteRespond, OffersTypeOK, TripOnlyIfAssigned

\* What the server records is what it answers.
LEMMA RecordType ==
  ASSUME OInv, NEW o \in Offers, NEW accept \in BOOLEAN,
         Record(o, Verdict(o, accept))
  PROVE  /\ Verdict(o, accept) \in Results
         /\ server' \in [Offers -> OfferStatus]
         /\ won' \subseteq Offers /\ won \subseteq won'
         /\ Verdict(o, accept) = "accepted" => o \in won'
<1>1. Verdict(o, accept) \in Results
  BY DEF Verdict, Results
<1>2. server \in [Offers -> OfferStatus] /\ won \subseteq Offers
  BY DEF OInv, OffersTypeOK
<1>3. server' \in [Offers -> OfferStatus]
  BY <1>2 DEF Record, OfferStatus
<1> QED BY <1>1, <1>2, <1>3 DEF Record

LEMMA RespondKeeps == ASSUME OInv, NEW c \in Calls, Respond(c) PROVE OInv'
<1> USE DEF OInv, serverVars, cardVars
<1> DEFINE o == call[c].offer
           verdict == Verdict(o, call[c].accepted)
           failed == IF call[c].step = "first"
                     THEN [call[c] EXCEPT !.step = "second"]
                     ELSE [call[c] EXCEPT !.step = "back", !.result = "error"]
           answer == [call[c] EXCEPT !.step = "back", !.result = verdict]
<1>1. PICK arrives \in BOOLEAN, answered \in BOOLEAN :
        /\ answered => arrives
        /\ IF arrives THEN Record(o, verdict) ELSE UNCHANGED <<server, won>>
        /\ call' = [call EXCEPT ![c] = IF answered THEN answer ELSE failed]
  BY DEF Respond
<1>2. call \in [Calls -> Response] /\ call[c] \in Response
  BY DEF OffersTypeOK
<1>3. o \in Offers /\ call[c].accepted \in BOOLEAN
  BY <1>2 DEF Respond, ResponsesName, Response
<1>4. verdict \in Results
  BY DEF Verdict, Results
<1>5. /\ server' \in [Offers -> OfferStatus]
      /\ won' \subseteq Offers /\ won \subseteq won'
      /\ arrives /\ verdict = "accepted" => o \in won'
  <2>1. CASE arrives
    BY <1>1, <1>3, <2>1, RecordType
  <2>2. CASE ~arrives
    BY <1>1, <2>2 DEF OffersTypeOK
  <2> QED BY <2>1, <2>2
<1>6. PICK r \in Response :
        /\ call' = [call EXCEPT ![c] = r]
        /\ r.offer = o /\ r.by = call[c].by /\ r.step # "idle"
        /\ r.step = "back" /\ r.result = "accepted" => o \in won'
  <2>1. CASE answered
    <3>1. /\ answer \in Response /\ answer.offer = o /\ answer.by = call[c].by
          /\ answer.step = "back" /\ answer.result = verdict
      BY <1>2, <1>4 DEF Response
    <3> QED BY <1>1, <1>5, <2>1, <3>1
  <2>2. CASE ~answered
    <3>1. /\ failed \in Response /\ failed.offer = o /\ failed.by = call[c].by
          /\ failed.step \in {"second", "back"}
          /\ failed.step = "back" => failed.result = "error"
      BY <1>2 DEF Respond, Response, Results
    <3> QED BY <1>1, <2>2, <3>1
  <2> QED BY <2>1, <2>2
<1>7. /\ call' \in [Calls -> Response]
      /\ ResponsesName' /\ ToldIsWon'
      /\ \A d \in Calls : Sending(call', d) =>
           Sending(call, d) \/ (d = c /\ r.by = "card" /\ r.step # "idle")
  BY <1>3, <1>5, <1>6, OneResponse
<1>8. \A d \in Calls : Sending(call', d) => Sending(call, d)
  BY <1>6, <1>7 DEF Respond, Sending
<1>9. OneAnswerAtATime'
  BY <1>8 DEF Respond, OneAnswerAtATime
<1>10. ShownIsNext' /\ MountedIffShown' /\ TimersWon'
  BY <1>5 DEF Respond, ShownIsNext, MountedIffShown, TimersWon
<1>11. CardInv'
  BY <1>7, <1>9, <1>10 DEF Respond, CardInv, OffersTypeOK
<1> QED BY <1>5, <1>11, Assemble
        DEF Respond, OffersTypeOK, TripOnlyIfAssigned

\* Freeing a response that the card still hears leaves no other to be heard.
LEMMA AnswerFits ==
  ASSUME OInv, NEW c \in Calls, call[c].step = "back",
         NEW st \in CardStates \ {"NEW_OFFER", "CLOSED"},
         NEW ds, ds \subseteq won \cup {NoOffer}
  PROVE  Fit(IF Live(c) THEN st ELSE card.state,
             IF Live(c) THEN ds ELSE dismissals, Freed(c))
<1>1. card.state \in CardStates
  BY DEF OInv, OffersTypeOK, Card
<1>2. CASE Live(c)
  BY <1>2, FreedFits
<1>3. CASE ~Live(c)
  <2>1. dismissals \subseteq won \cup {NoOffer}
    BY DEF OInv, TimersWon
  <2> QED BY <1>1, <1>3, <2>1, FreedFits
<1> QED BY <1>2, <1>3

\* A closed card hears no answer.
LEMMA LiveMeansOpen ==
  ASSUME OInv, NEW c \in Calls, call[c].step = "back", Live(c)
  PROVE  card.state \notin {"CLOSED", "NEW_OFFER"}
BY DEF OInv, OneAnswerAtATime, Sending, Live

LEMMA AnswerRemoves ==
  ASSUME OInv, NEW c \in Calls, call[c].step = "back",
         NEW st \in CardStates \ {"NEW_OFFER", "CLOSED"},
         NEW ds, ds \subseteq won \cup {NoOffer}, UNCHANGED <<late, won>>,
         NEW s, s = (IF Live(c) THEN st ELSE card.state),
         NEW t, t = (IF Live(c) THEN ds ELSE dismissals),
         removeByOfferId(call[c].offer, s, t, Freed(c))
  PROVE  CardInv'
<1>1. Fit(s, t, Freed(c))
  BY AnswerFits
<1>2. card.state = "CLOSED" => s = "CLOSED"
  BY LiveMeansOpen
<1> QED BY <1>1, <1>2, RemoveKeeps

LEMMA ClearKeeps ==
  ASSUME OInv, NEW cl, Fit("EXPIRED", {}, cl), clearIncomingRequest(cl),
         UNCHANGED <<late, won>>
  PROVE  CardInv'
<1>1. Notify({}, "EXPIRED", {}, cl)
  BY DEF clearIncomingRequest, Notify, Soonest
<1> QED BY <1>1, NotifyKeeps

LEMMA FreedOpen ==
  ASSUME OInv, NEW c \in Calls, call[c].step = "back", Live(c),
         call' = Freed(c), UNCHANGED <<queue, shown, late, won>>,
         dismissals' \subseteq won \cup {NoOffer},
         \E st \in CardStates \ {"CLOSED"} :
           card' = [card EXCEPT !.state = st]
  PROVE  CardInv'
<1>1. Sending(call, c)
  BY DEF Live, Sending
<1>2. PICK st \in CardStates \ {"CLOSED"} : card' = [card EXCEPT !.state = st]
  OBVIOUS
<1>3. Fit(st, dismissals', Freed(c))
  BY <1>1, FreedFits
<1> QED BY <1>2, <1>3, LiveMeansOpen, KeptQueueKeeps

LEMMA FreedSilent ==
  ASSUME OInv, NEW c \in Calls, call[c].step = "back", ~Live(c),
         call' = Freed(c),
         UNCHANGED <<queue, shown, card, dismissals, late, won>>
  PROVE  CardInv'
<1>1. card \in Card /\ card = [card EXCEPT !.state = card.state]
  BY DEF OInv, OffersTypeOK, Card
<1>2. Fit(card.state, dismissals, Freed(c))
  BY <1>1, FreedFits DEF OInv, TimersWon, Card
<1> QED BY <1>1, <1>2, KeptQueueKeeps

LEMMA AnswerKeeps == ASSUME OInv, NEW c \in Calls, Answer(c) PROVE OInv'
<1> USE DEF serverVars, cardVars
<1>1. /\ server \in [Offers -> OfferStatus] /\ won \subseteq Offers
      /\ late \subseteq Offers /\ wire \in Seq(Event)
      /\ fetch \in [Fetches -> Read] /\ opened \subseteq won
      /\ dismissals \subseteq won \cup {NoOffer}
      /\ {} \subseteq won \cup {NoOffer}
      /\ dismissals \cup {NoOffer} \subseteq won \cup {NoOffer}
  BY DEF OInv, OffersTypeOK, TripOnlyIfAssigned, TimersWon
<1>2. CASE AnswerLost(c)
  <2> DEFINE s == IF Live(c) THEN "ALREADY_ASSIGNED" ELSE card.state
             t == IF Live(c) THEN dismissals \cup {NoOffer} ELSE dismissals
  <2>1. /\ call[c].step = "back" /\ UNCHANGED <<late, won>>
        /\ removeByOfferId(call[c].offer, s, t, Freed(c))
    BY <1>2 DEF AnswerLost, Back
  <2>2. dismissals \cup {NoOffer} \subseteq won \cup {NoOffer}
    BY <1>1
  <2>3. "ALREADY_ASSIGNED" \in CardStates \ {"NEW_OFFER", "CLOSED"}
    BY DEF CardStates
  <2>4. CardInv'
    <3>1. s = (IF Live(c) THEN "ALREADY_ASSIGNED" ELSE card.state)
      OBVIOUS
    <3>2. t = (IF Live(c) THEN dismissals \cup {NoOffer} ELSE dismissals)
      OBVIOUS
    <3> HIDE DEF s, t
    <3> QED BY <2>1, <2>2, <2>3, <3>1, <3>2, AnswerRemoves
  <2> QED BY <1>1, <1>2, <2>4, Assemble DEF AnswerLost
<1>3. CASE AnswerRetry(c)
  <2>1. /\ call[c].step = "back" /\ call' = Freed(c)
        /\ UNCHANGED <<queue, shown, late, won>>
    BY <1>3 DEF AnswerRetry, Back
  <2>2. ASSUME Live(c) PROVE CardInv'
    <3>1. /\ card' = [card EXCEPT !.state = "NEW_OFFER"]
          /\ dismissals' = dismissals
      BY <1>3, <2>2 DEF AnswerRetry
    <3>2. "NEW_OFFER" \in CardStates \ {"CLOSED"}
      BY DEF CardStates
    <3>3. dismissals' \subseteq won \cup {NoOffer}
      BY <1>1, <3>1
    <3> QED BY <2>1, <2>2, <3>1, <3>2, <3>3, FreedOpen
  <2>3. ASSUME ~Live(c) PROVE CardInv'
    <3>1. UNCHANGED <<card, dismissals>>
      BY <1>3, <2>3 DEF AnswerRetry
    <3> QED BY <2>1, <2>3, <3>1, FreedSilent
  <2>4. CardInv'
    BY <2>2, <2>3
  <2> QED BY <1>1, <1>3, <2>4, Assemble DEF AnswerRetry
<1>4. CASE AnswerExpired(c)
  <2> DEFINE s == IF Live(c) THEN "EXPIRED" ELSE card.state
             t == IF Live(c) THEN dismissals \cup {NoOffer} ELSE dismissals
  <2>1. /\ call[c].step = "back" /\ UNCHANGED <<late, won>>
        /\ removeByOfferId(call[c].offer, s, t, Freed(c))
    BY <1>4 DEF AnswerExpired, Back
  <2>2. dismissals \cup {NoOffer} \subseteq won \cup {NoOffer}
    BY <1>1
  <2>3. "EXPIRED" \in CardStates \ {"NEW_OFFER", "CLOSED"}
    BY DEF CardStates
  <2>4. CardInv'
    <3>1. s = (IF Live(c) THEN "EXPIRED" ELSE card.state)
      OBVIOUS
    <3>2. t = (IF Live(c) THEN dismissals \cup {NoOffer} ELSE dismissals)
      OBVIOUS
    <3> HIDE DEF s, t
    <3> QED BY <2>1, <2>2, <2>3, <3>1, <3>2, AnswerRemoves
  <2> QED BY <1>1, <1>4, <2>4, Assemble DEF AnswerExpired
<1>5. CASE AnswerWon(c)
  <2> DEFINE s == IF Live(c) THEN "ACCEPTED" ELSE card.state
             t == IF Live(c) THEN dismissals \cup {call[c].offer} ELSE dismissals
  <2>1. /\ call[c].step = "back" /\ UNCHANGED <<late, won>>
        /\ removeByOfferId(call[c].offer, s, t, Freed(c))
    BY <1>5 DEF AnswerWon, Back
  <2>2. dismissals \cup {call[c].offer} \subseteq won \cup {NoOffer}
    BY <1>1, <1>5 DEF AnswerWon, Success, Back, OInv, ToldIsWon
  <2>3. "ACCEPTED" \in CardStates \ {"NEW_OFFER", "CLOSED"}
    BY DEF CardStates
  <2>4. CardInv'
    <3>1. s = (IF Live(c) THEN "ACCEPTED" ELSE card.state)
      OBVIOUS
    <3>2. t = (IF Live(c) THEN dismissals \cup {call[c].offer} ELSE dismissals)
      OBVIOUS
    <3> HIDE DEF s, t
    <3> QED BY <2>1, <2>2, <2>3, <3>1, <3>2, AnswerRemoves
  <2> QED BY <1>1, <1>5, <2>4, Assemble DEF AnswerWon
<1>6. CASE AnswerUnknown(c)
  <2>1. /\ call[c].step = "back" /\ call' = Freed(c)
        /\ UNCHANGED <<queue, shown, late, won>>
    BY <1>6 DEF AnswerUnknown, Back
  <2>2. ASSUME Live(c) PROVE CardInv'
    <3>1. /\ card' = [card EXCEPT !.state = "ALREADY_ASSIGNED"]
          /\ dismissals' = dismissals \cup {NoOffer}
      BY <1>6, <2>2 DEF AnswerUnknown
    <3>2. "ALREADY_ASSIGNED" \in CardStates \ {"CLOSED"}
      BY DEF CardStates
    <3>3. dismissals' \subseteq won \cup {NoOffer}
      BY <1>1, <3>1
    <3> QED BY <2>1, <2>2, <3>1, <3>2, <3>3, FreedOpen
  <2>3. ASSUME ~Live(c) PROVE CardInv'
    <3>1. UNCHANGED <<card, dismissals>>
      BY <1>6, <2>3 DEF AnswerUnknown
    <3> QED BY <2>1, <2>3, <3>1, FreedSilent
  <2>4. CardInv'
    BY <2>2, <2>3
  <2> QED BY <1>1, <1>6, <2>4, Assemble DEF AnswerUnknown
<1>7. CASE RejectDone(c)
  <2>1. call[c].step = "back"
    BY <1>7 DEF RejectDone, Back
  <2>2. CASE Live(c)
    <3>1. Fit("EXPIRED", {}, Freed(c))
      BY <1>1, <2>1, <2>2, FreedFits DEF CardStates
    <3>2. CardInv'
      BY <1>7, <2>2, <3>1, ClearKeeps DEF RejectDone
    <3> QED BY <1>1, <1>7, <3>2, Assemble DEF RejectDone
  <2>3. CASE ~Live(c)
    <3>1. CardInv'
      BY <1>1, <1>7, <2>1, <2>3, FreedSilent DEF RejectDone
    <3> QED BY <1>1, <1>7, <3>1, Assemble DEF RejectDone
  <2> QED BY <2>2, <2>3
<1>8. CASE NoteWon(c)
  <2>1. ~Live(c) /\ call[c].step = "back" /\ call[c].offer \in won
    BY <1>8 DEF NoteWon, Success, Back, Live, OInv, ToldIsWon
  <2>2. CardInv'
    BY <1>1, <1>8, <2>1, FreedSilent DEF NoteWon
  <2> QED BY <1>1, <1>8, <2>1, <2>2, Assemble DEF NoteWon
<1>9. CASE NoteFailed(c)
  <2>1. ~Live(c) /\ call[c].step = "back"
    BY <1>9 DEF NoteFailed, Back, Live
  <2>2. CardInv'
    BY <1>1, <1>9, <2>1, FreedSilent DEF NoteFailed
  <2> QED BY <1>1, <1>9, <2>2, Assemble DEF NoteFailed
<1>10. CASE NoteDropped(c)
  <2>1. ~Live(c) /\ call[c].step = "back" /\ UNCHANGED <<late, won>>
        /\ removeByOfferId(call[c].offer, card.state, dismissals, Freed(c))
    BY <1>10 DEF NoteDropped, Back, Live
  <2>2. "EXPIRED" \in CardStates \ {"NEW_OFFER", "CLOSED"}
    BY DEF CardStates
  <2>3. CardInv'
    BY <1>1, <2>1, <2>2, AnswerRemoves
  <2> QED BY <1>1, <1>10, <2>3, Assemble DEF NoteDropped
<1>11. ASSUME NEW f \in Fetches, NoteLost(c, f) PROVE OInv'
  <2>1. ~Live(c) /\ call[c].step = "back"
    BY <1>11 DEF NoteLost, Back, Live
  <2>2. CardInv'
    BY <1>1, <1>11, <2>1, FreedSilent DEF NoteLost
  <2>3. fetch' \in [Fetches -> Read]
    BY <1>1, <1>11
    DEF NoteLost, reconcileStateWithBackend, fetchPendingOffers, Pending, Read
  <2> QED BY <1>1, <1>11, <2>2, <2>3, Assemble DEF NoteLost
<1> QED BY <1>2, <1>3, <1>4, <1>5, <1>6, <1>7, <1>8, <1>9, <1>10, <1>11
        DEF Answer

LEMMA CurrentFitsExpired == ASSUME OInv PROVE Fit("EXPIRED", {}, call)
<1>1. Fit(card.state, dismissals, call)
  BY AsItIs
<1> QED BY <1>1 DEF Fit, CardStates

LEMMA CardKeeps ==
  ASSUME OInv, \/ CardTimeout \/ TapDismiss
               \/ \E d \in Offers \cup {NoOffer} : DismissFires(d)
  PROVE  OInv'
<1> USE DEF serverVars, cardVars
<1>1. /\ server \in [Offers -> OfferStatus] /\ won \subseteq Offers
      /\ late \subseteq Offers /\ wire \in Seq(Event)
      /\ fetch \in [Fetches -> Read] /\ opened \subseteq won
      /\ dismissals \subseteq won \cup {NoOffer}
  BY DEF OInv, OffersTypeOK, TripOnlyIfAssigned, TimersWon
<1>2. CASE CardTimeout
  <2>1. card'.state = "EXPIRED" /\ card'.timer = NoOffer /\ card' \in Card
    BY <1>2 DEF CardTimeout, Card, CardStates
  <2>2. card.state # "CLOSED"
    BY <1>1, <1>2, OffersAssumption DEF CardTimeout, OInv, MountedIffShown
  <2>3. MountedIffShown' /\ OneAnswerAtATime'
    BY <1>2, <2>1, <2>2
    DEF CardTimeout, OInv, MountedIffShown, OneAnswerAtATime
  <2>4. CardInv'
    BY <1>2, <2>1, <2>3
    DEF CardTimeout, OInv, OffersTypeOK, CardInv, ShownIsNext, ResponsesName,
        ToldIsWon, TimersWon
  <2> QED BY <1>1, <1>2, <2>4, Assemble DEF CardTimeout
<1>3. CASE TapDismiss
  <2>1. CardInv'
    BY <1>3, CurrentFitsExpired, ClearKeeps DEF TapDismiss
  <2> QED BY <1>1, <1>3, <2>1, Assemble DEF TapDismiss
<1>4. ASSUME NEW d \in Offers \cup {NoOffer}, DismissFires(d) PROVE OInv'
  <2>1. CardInv'
    BY <1>4, CurrentFitsExpired, ClearKeeps DEF DismissFires
  <2> QED BY <1>1, <1>4, <2>1, Assemble DEF DismissFires
<1> QED BY <1>2, <1>3, <1>4

-----------------------------------------------------------------------------
(* Reads of the server. *)

LEMMA FetchKeeps ==
  ASSUME OInv, NEW f \in Fetches,
         Resume(f) \/ BackgroundTick(f) \/ NoteTap(f) \/ Apply(f)
  PROVE  OInv'
<1> USE DEF serverVars, cardVars
<1>1. /\ server \in [Offers -> OfferStatus] /\ won \subseteq Offers
      /\ late \subseteq Offers /\ wire \in Seq(Event)
      /\ fetch \in [Fetches -> Read] /\ opened \subseteq won
  BY DEF OInv, OffersTypeOK, TripOnlyIfAssigned
<1>2. CASE Resume(f) \/ BackgroundTick(f) \/ NoteTap(f)
  <2>1. CardInv'
    BY <1>2, CardUntouched DEF Resume, BackgroundTick, NoteTap
  <2>2. fetch' \in [Fetches -> Read]
    BY <1>1, <1>2
    DEF Resume, BackgroundTick, NoteTap, reconcileStateWithBackend,
        fetchPendingOffers, Pending, Read
  <2> QED BY <1>1, <1>2, <2>1, <2>2, Assemble DEF Resume, BackgroundTick, NoteTap
<1>3. FetchDone(f) => fetch' \in [Fetches -> Read]
  BY <1>1 DEF FetchDone, IdleFetch, Read
<1>4. fetch[f].snap \in SUBSET Offers
  BY <1>1 DEF Read
<1>5. CASE ApplyOffers(f)
  <2>1. CardInv'
    BY <1>4, <1>5, AsItIs, NotifyKeeps DEF ApplyOffers, reconcileWithBackend
  <2> QED BY <1>1, <1>3, <1>5, <2>1, Assemble DEF ApplyOffers
<1>6. CASE ApplyNewest(f)
  <2>1. PICK o \in Offers : upsertRequest(o)
    BY <1>4, <1>6 DEF ApplyNewest
  <2>2. CardInv'
    BY <1>6, <2>1, UpsertKeeps DEF ApplyNewest
  <2> QED BY <1>1, <1>3, <1>6, <2>2, Assemble DEF ApplyNewest
<1>7. CASE ApplyEmpty(f)
  <2>1. CASE clearIncomingRequest(call)
    BY <1>1, <1>3, <1>7, <2>1, CurrentFitsExpired, ClearKeeps, Assemble
    DEF ApplyEmpty
  <2>2. CASE UNCHANGED <<cardVars, call>>
    BY <1>1, <1>3, <1>7, <2>2, CardUntouched, Assemble DEF ApplyEmpty
  <2> QED BY <1>7, <2>1, <2>2 DEF ApplyEmpty
<1>8. CASE ApplyTap(f)
  <2>1. CardInv'
    BY <1>8, CardUntouched DEF ApplyTap
  <2> QED BY <1>1, <1>3, <1>8, <2>1, Assemble DEF ApplyTap
<1> QED BY <1>2, <1>5, <1>6, <1>7, <1>8 DEF Apply

-----------------------------------------------------------------------------

LEMMA NextOInv == OInv /\ [Next]_vars => OInv'
<1> SUFFICES ASSUME OInv, [Next]_vars PROVE OInv'
  OBVIOUS
<1>1. CASE Server
  BY <1>1, ServerKeeps
<1>2. CASE Driver
  BY <1>2, TapKeeps, CardKeeps, NoteRespondKeeps, FetchKeeps DEF Driver
<1>3. CASE handleIncomingOffer \/ RemovedEvent
  BY <1>3, IncomingKeeps, RemovedKeeps
<1>4. CASE \E f \in Fetches : Resume(f) \/ BackgroundTick(f) \/ Apply(f)
  BY <1>4, FetchKeeps
<1>5. CASE \E c \in Calls : Respond(c) \/ Answer(c)
  BY <1>5, RespondKeeps, AnswerKeeps
<1>6. CASE CardTimeout \/ \E d \in Offers \cup {NoOffer} : DismissFires(d)
  BY <1>6, CardKeeps
<1>7. CASE UNCHANGED vars
  <2>1. CardInv'
    BY <1>7, CardUntouched DEF vars
  <2> QED BY <1>7, <2>1, Assemble DEF vars, OInv, OffersTypeOK, TripOnlyIfAssigned
<1> QED BY <1>1, <1>2, <1>3, <1>4, <1>5, <1>6, <1>7 DEF Next

LEMMA OInvAlways == Spec => []OInv
BY InitOInv, NextOInv, PTL DEF Spec

(* The variables keep their types. *)
THEOREM OffersTypeCorrect == Spec => []OffersTypeOK
<1>1. OInv => OffersTypeOK
  BY DEF OInv
<1> QED BY <1>1, OInvAlways, PTL

(* The card shows the open entry that expires first, whatever order events, *)
(* lists, answers and timers come in.                                      *)
THEOREM CardShowsNext == Spec => []ShownIsNext
<1>1. OInv => ShownIsNext
  BY DEF OInv
<1> QED BY <1>1, OInvAlways, PTL

(* The card never has two answers under way. *)
THEOREM CardAnswersOnce == Spec => []OneAnswerAtATime
<1>1. OInv => OneAnswerAtATime
  BY DEF OInv
<1> QED BY <1>1, OInvAlways, PTL

(* The trip screen opens only for a ride the driver was given. *)
THEOREM TripsAreAssigned == Spec => []TripOnlyIfAssigned
<1>1. OInv => TripOnlyIfAssigned
  BY DEF OInv
<1> QED BY <1>1, OInvAlways, PTL

-----------------------------------------------------------------------------
(* What the liveness of the card rests on: a card that waits has something *)
(* to wait for.                                                            *)

Caused(st, ds, cl) ==
  /\ st \in {"ACCEPTING", "REJECTING"} => \E c \in Calls : Sending(cl, c)
  /\ st = "ACCEPTED" => ds \ {NoOffer} # {}
  /\ st = "ALREADY_ASSIGNED" => ds # {}

(* A card that sends has an answer under way, a card that announces a      *)
(* result a timer, and one that announces a won ride a timer that opens it.*)
WaitingHasCause == Caused(card.state, dismissals, call)

\* The card takes state st, or is closed, or is mounted anew.
LEMMA NotifyCaused ==
  ASSUME OInv, NEW q, NEW st, NEW ds, NEW cl,
         Caused(st, ds, cl), Notify(q, st, ds, cl)
  PROVE  WaitingHasCause'
<1>1. card \in Card
  BY DEF OInv, OffersTypeOK
<1>2. CASE Soonest(q) = NoOffer \/ card.state = "CLOSED"
  <2>1. card'.state \in {"CLOSED", "NEW_OFFER"}
    BY <1>2 DEF Notify, Closed, Mounted
  <2> QED BY <2>1 DEF WaitingHasCause, Caused
<1>3. CASE ~(Soonest(q) = NoOffer \/ card.state = "CLOSED")
  <2>1. card' = [card EXCEPT !.state = st] /\ dismissals' = ds /\ call' = cl
    BY <1>3 DEF Notify, StaysMounted
  <2>2. card'.state = st
    BY <1>1, <2>1 DEF Card
  <2> QED BY <2>1, <2>2 DEF WaitingHasCause, Caused, Sending
<1> QED BY <1>2, <1>3

\* The card takes state st without a change of the queue.
LEMMA KeptQueueCaused ==
  ASSUME OInv, NEW st, NEW ds, NEW cl, Caused(st, ds, cl),
         card' = [card EXCEPT !.state = st], dismissals' = ds, call' = cl
  PROVE  WaitingHasCause'
<1>1. card'.state = st
  BY DEF OInv, OffersTypeOK, Card
<1> QED BY <1>1 DEF WaitingHasCause, Caused, Sending

LEMMA RemoveCaused ==
  ASSUME OInv, NEW o, NEW st, NEW ds, NEW cl, Caused(st, ds, cl),
         removeByOfferId(o, st, ds, cl)
  PROVE  WaitingHasCause'
BY NotifyCaused, KeptQueueCaused DEF removeByOfferId

LEMMA ClearCaused ==
  ASSUME OInv, NEW cl, clearIncomingRequest(cl)
  PROVE  WaitingHasCause'
<1>1. Caused("CLOSED", {}, cl)
  BY DEF Caused
<1> QED BY <1>1, NotifyCaused DEF clearIncomingRequest

\* Freeing a response the card does not hear takes no cause from it.
LEMMA FreedCaused ==
  ASSUME OInv, WaitingHasCause, NEW c \in Calls, ~Live(c)
  PROVE  Caused(card.state, dismissals, Freed(c))
<1>1. \A d \in Calls : Sending(call, d) => Freed(c)[d] = call[d]
  BY DEF OInv, OffersTypeOK, Freed, Sending, Live
<1> QED BY <1>1 DEF WaitingHasCause, Caused, Sending

\* The state and timers an answer leaves on the card that hears it.
LEMMA AnswerCaused ==
  ASSUME OInv, WaitingHasCause, NEW c \in Calls,
         NEW st, NEW ds, Live(c) => Caused(st, ds, Freed(c)),
         NEW s, s = (IF Live(c) THEN st ELSE card.state),
         NEW t, t = (IF Live(c) THEN ds ELSE dismissals)
  PROVE  Caused(s, t, Freed(c))
BY FreedCaused

LEMMA AnswerKeepsCause ==
  ASSUME OInv, WaitingHasCause, NEW c \in Calls, Answer(c)
  PROVE  WaitingHasCause'
<1>1. CASE AnswerLost(c)
  <2>1. Caused("ALREADY_ASSIGNED", dismissals \cup {NoOffer}, Freed(c))
    BY DEF Caused
  <2>2. PICK s, t : /\ s = IF Live(c) THEN "ALREADY_ASSIGNED" ELSE card.state
                    /\ t = IF Live(c) THEN dismissals \cup {NoOffer}
                                      ELSE dismissals
    OBVIOUS
  <2>3. removeByOfferId(call[c].offer, s, t, Freed(c))
    BY <1>1, <2>2 DEF AnswerLost
  <2> QED BY <2>1, <2>2, <2>3, AnswerCaused, RemoveCaused
<1>2. CASE AnswerRetry(c)
  <2>1. CASE Live(c)
    <3>1. card'.state = "NEW_OFFER"
      BY <1>2, <2>1 DEF AnswerRetry, OInv, OffersTypeOK, Card
    <3> QED BY <3>1 DEF WaitingHasCause, Caused
  <2>2. CASE ~Live(c)
    <3>1. card' = card /\ dismissals' = dismissals /\ call' = Freed(c)
      BY <1>2, <2>2 DEF AnswerRetry
    <3> QED BY <2>2, <3>1, FreedCaused DEF WaitingHasCause, Caused, Sending
  <2> QED BY <2>1, <2>2
<1>3. CASE AnswerExpired(c)
  <2>1. Caused("EXPIRED", dismissals \cup {NoOffer}, Freed(c))
    BY DEF Caused
  <2>2. PICK s, t : /\ s = IF Live(c) THEN "EXPIRED" ELSE card.state
                    /\ t = IF Live(c) THEN dismissals \cup {NoOffer}
                                      ELSE dismissals
    OBVIOUS
  <2>3. removeByOfferId(call[c].offer, s, t, Freed(c))
    BY <1>3, <2>2 DEF AnswerExpired
  <2> QED BY <2>1, <2>2, <2>3, AnswerCaused, RemoveCaused
<1>4. CASE AnswerWon(c)
  <2>1. call[c].offer # NoOffer
    BY <1>4, OffersAssumption DEF AnswerWon, Back, OInv, ResponsesName
  <2>2. Caused("ACCEPTED", dismissals \cup {call[c].offer}, Freed(c))
    BY <2>1 DEF Caused
  <2>3. PICK s, t : /\ s = IF Live(c) THEN "ACCEPTED" ELSE card.state
                    /\ t = IF Live(c) THEN dismissals \cup {call[c].offer}
                                      ELSE dismissals
    OBVIOUS
  <2>4. removeByOfferId(call[c].offer, s, t, Freed(c))
    BY <1>4, <2>3 DEF AnswerWon
  <2> QED BY <2>2, <2>3, <2>4, AnswerCaused, RemoveCaused
<1>5. CASE AnswerUnknown(c)
  <2>1. CASE Live(c)
    <3>1. card'.state = "ALREADY_ASSIGNED" /\ NoOffer \in dismissals'
      BY <1>5, <2>1 DEF AnswerUnknown, OInv, OffersTypeOK, Card
    <3> QED BY <3>1 DEF WaitingHasCause, Caused
  <2>2. CASE ~Live(c)
    <3>1. card' = card /\ dismissals' = dismissals /\ call' = Freed(c)
      BY <1>5, <2>2 DEF AnswerUnknown
    <3> QED BY <2>2, <3>1, FreedCaused DEF WaitingHasCause, Caused, Sending
  <2> QED BY <2>1, <2>2
<1>6. CASE RejectDone(c)
  <2>1. CASE Live(c)
    BY <1>6, <2>1, ClearCaused DEF RejectDone
  <2>2. CASE ~Live(c)
    <3>1. card' = card /\ dismissals' = dismissals /\ call' = Freed(c)
      BY <1>6, <2>2 DEF RejectDone, cardVars
    <3> QED BY <2>2, <3>1, FreedCaused DEF WaitingHasCause, Caused, Sending
  <2> QED BY <2>1, <2>2
<1>7. CASE NoteWon(c) \/ NoteFailed(c) \/ \E f \in Fetches : NoteLost(c, f)
  <2>1. /\ card' = card /\ dismissals' = dismissals /\ call' = Freed(c)
        /\ ~Live(c)
    BY <1>7 DEF NoteWon, NoteFailed, NoteLost, Back, Live, cardVars
  <2> QED BY <2>1, FreedCaused DEF WaitingHasCause, Caused, Sending
<1>8. CASE NoteDropped(c)
  <2>1. ~Live(c)
    BY <1>8 DEF NoteDropped, Back, Live
  <2> QED BY <1>8, <2>1, FreedCaused, RemoveCaused DEF NoteDropped
<1> QED BY <1>1, <1>2, <1>3, <1>4, <1>5, <1>6, <1>7, <1>8 DEF Answer

LEMMA NextKeepsCause == OInv /\ WaitingHasCause /\ [Next]_vars => WaitingHasCause'
<1> SUFFICES ASSUME OInv, WaitingHasCause, [Next]_vars
             PROVE  WaitingHasCause'
  OBVIOUS
<1>1. CASE UNCHANGED <<card, dismissals, call>>
  BY <1>1 DEF WaitingHasCause, Caused, Sending
<1>2. CASE Server
  BY <1>1, <1>2 DEF Server, Publish, Withdraw, Expire, cardVars
<1>3. ASSUME NEW c \in Calls, NEW accept \in BOOLEAN, Tap(c, accept)
      PROVE  WaitingHasCause'
  <2>1. /\ card'.state \in {"ACCEPTING", "REJECTING"}
        /\ call'[c].by = "card" /\ call'[c].step = "first"
    BY <1>3 DEF Tap, OInv, OffersTypeOK, Card
  <2>2. Sending(call', c)
    BY <2>1 DEF Sending
  <2> QED BY <2>1, <2>2 DEF WaitingHasCause, Caused, Sending
<1>4. ASSUME NEW c \in Calls,
             Respond(c) \/ \E o \in Offers, accept \in BOOLEAN :
                              NoteRespond(c, o, accept)
      PROVE  WaitingHasCause'
  <2>1. card' = card /\ dismissals' = dismissals
    BY <1>4 DEF Respond, NoteRespond, cardVars
  <2>2. \A d \in Calls : Sending(call, d) => Sending(call', d)
    <3>1. call \in [Calls -> Response]
      BY DEF OInv, OffersTypeOK
    <3>2. CASE Respond(c)
      <4>1. PICK r : /\ call' = [call EXCEPT ![c] = r]
                     /\ r.by = call[c].by /\ r.step \in {"second", "back"}
        <5>1. call[c] \in Response
          BY <3>1
        <5>2. PICK arrives \in BOOLEAN, answered \in BOOLEAN :
                call' = [call EXCEPT ![c] =
                  IF answered
                  THEN [call[c] EXCEPT !.step = "back",
                          !.result = Verdict(call[c].offer, call[c].accepted)]
                  ELSE IF call[c].step = "first"
                       THEN [call[c] EXCEPT !.step = "second"]
                       ELSE [call[c] EXCEPT !.step = "back", !.result = "error"]]
          BY <3>2 DEF Respond
        <5>3. PICK r :
                r = IF answered
                    THEN [call[c] EXCEPT !.step = "back",
                            !.result = Verdict(call[c].offer, call[c].accepted)]
                    ELSE IF call[c].step = "first"
                         THEN [call[c] EXCEPT !.step = "second"]
                         ELSE [call[c] EXCEPT !.step = "back", !.result = "error"]
          OBVIOUS
        <5>4. call' = [call EXCEPT ![c] = r]
          BY <5>2, <5>3
        <5>5. r.by = call[c].by /\ r.step \in {"second", "back"}
          BY <5>1, <5>3 DEF Response
        <5> QED BY <5>4, <5>5
      <4> QED BY <3>1, <4>1 DEF Sending
    <3>3. ASSUME NEW o \in Offers, NEW accept \in BOOLEAN,
                 NoteRespond(c, o, accept)
          PROVE  \A d \in Calls : Sending(call, d) => Sending(call', d)
      BY <3>1, <3>3 DEF NoteRespond, Sending
    <3> QED BY <1>4, <3>2, <3>3
  <2> QED BY <2>1, <2>2 DEF WaitingHasCause, Caused, Sending
<1>5. ASSUME NEW c \in Calls, Answer(c) PROVE WaitingHasCause'
  BY <1>5, AnswerKeepsCause
<1>6. CASE TapDismiss \/ \E d \in Offers \cup {NoOffer} : DismissFires(d)
  BY <1>6, ClearCaused DEF TapDismiss, DismissFires
<1>7. CASE CardTimeout
  <2>1. card'.state = "EXPIRED"
    BY <1>7 DEF CardTimeout
  <2> QED BY <2>1 DEF WaitingHasCause, Caused
<1>8. ASSUME NEW o, upsertRequest(o) PROVE WaitingHasCause'
  BY <1>1, <1>8, NotifyCaused DEF upsertRequest, cardVars, WaitingHasCause
<1>9. CASE handleIncomingOffer
  BY <1>8, <1>9 DEF handleIncomingOffer
<1>10. CASE RemovedEvent
  <2>1. PICK o, st, ds :
          /\ removeByOfferId(o, st, ds, call)
          /\ \/ st = "ALREADY_ASSIGNED" /\ ds = dismissals \cup {NoOffer}
             \/ st = card.state /\ ds = dismissals
    BY <1>10 DEF RemovedEvent
  <2>2. Caused(st, ds, call)
    BY <2>1 DEF WaitingHasCause, Caused
  <2> QED BY <2>1, <2>2, RemoveCaused
<1>11. ASSUME NEW f \in Fetches,
              Resume(f) \/ BackgroundTick(f) \/ NoteTap(f) \/ ApplyTap(f)
       PROVE  WaitingHasCause'
  BY <1>1, <1>11 DEF Resume, BackgroundTick, NoteTap, ApplyTap, cardVars
<1>12. ASSUME NEW f \in Fetches,
              ApplyOffers(f) \/ ApplyNewest(f) \/ ApplyEmpty(f)
       PROVE  WaitingHasCause'
  BY <1>1, <1>8, <1>12, NotifyCaused, ClearCaused
  DEF ApplyOffers, ApplyNewest, ApplyEmpty, reconcileWithBackend, cardVars,
      WaitingHasCause
<1>13. CASE UNCHANGED vars
  BY <1>1, <1>13 DEF vars
<1> QED BY <1>2, <1>3, <1>4, <1>5, <1>6, <1>7, <1>9, <1>10, <1>11, <1>12, <1>13
        DEF Next, Driver, Apply

(* A card with its buttons blocked, or that announces a result, always has *)
(* an answer under way or a timer running, and one that announces a won    *)
(* ride the timer that opens it, in whatever order answers, events and     *)
(* lists come: of CardNeverStuck, which adds that requests end and timers  *)
(* fire, this is what the code must get right (incoming-request.tsx).      *)
THEOREM CardsWaitForCause == Spec => []WaitingHasCause
<1>1. Init => WaitingHasCause
  BY DEF Init, Closed, WaitingHasCause, Caused
<1> QED BY <1>1, NextKeepsCause, OInvAlways, PTL DEF Spec
=============================================================================
