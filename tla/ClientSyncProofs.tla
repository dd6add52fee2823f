-------------------------- MODULE ClientSyncProofs --------------------------
(* ClientSync for any number of clients, edits, faults and retries: nothing *)
(* is forgotten on the way to the server and nothing is missed on the way   *)
(* back, and nothing pending is left without somebody to send it.  First    *)
(* what the hook's operators preserve, then one lemma for each part of the  *)
(* inductive invariant, with one step per action.                           *)
EXTENDS ClientSync, TLAPS

HookInv(h, box, covered) ==
  OneAwaited(h, box) /\ FlightMatches(h, box, covered) /\ TimersCounted(h)

\* n is h after a step that may send what is then pending.
Posts(h, n) ==
  /\ n.link = h.link
  /\ \/ n.out = h.out
     \/ n.joined /\ n.link # "down" /\ n.out = Append(h.out, Update(n.pending))

\* The same for a step that keeps what is pending.
Sent(h, n) ==
  n.pending = h.pending /\ n.version = h.version /\ n.joined = h.joined /\ Posts(h, n)

Silent(h, box) == ~Awaited(h.out) /\ ~Awaited(box)

-----------------------------------------------------------------------------
(* Sequences of messages.                                                  *)

LEMMA AppendAwaits ==
  ASSUME NEW S, NEW s \in Seq(S), NEW m \in S
  PROVE  /\ Append(s, m) \in Seq(S) /\ DOMAIN Append(s, m) = 1..(Len(s) + 1)
         /\ DOMAIN s = 1..Len(s) /\ Len(s) \in Nat
         /\ \A i \in 1..Len(s) : Append(s, m)[i] = s[i]
         /\ Append(s, m)[Len(s) + 1] = m
  OBVIOUS

LEMMA TailShifts ==
  ASSUME NEW S, NEW s \in Seq(S), s # << >>
  PROVE  /\ Tail(s) \in Seq(S) /\ Len(s) \in Nat \ {0} /\ DOMAIN s = 1..Len(s)
         /\ DOMAIN Tail(s) = 1..(Len(s) - 1)
         /\ \A i \in 1..(Len(s) - 1) : Tail(s)[i] = s[i + 1]
         /\ Head(s) = s[1] /\ Head(s) \in S
  OBVIOUS

LEMMA HookNumbers ==
  ASSUME NEW h \in Hooks
  PROVE  /\ h.version \in Nat /\ h.sent \in Nat /\ h.timers \in Nat /\ h.attempts \in Nat
         /\ h.pending \subseteq Edits /\ h.handle \in BOOLEAN
  BY DEF Hooks

LEMMA FlushKeeps ==
  ASSUME NEW h \in Hooks, NEW box \in Seq(Messages), NEW covered,
         HookInv(h, box, covered)
  PROVE  Flush(h) \in Hooks /\ HookInv(Flush(h), box, covered) /\ Sent(h, Flush(h))
<1>1. CASE ~Ready(h)
  BY <1>1 DEF Flush, Sent, Posts
<1>2. CASE Ready(h) /\ h.sent # 0
  BY <1>2 DEF Flush, Sent, Posts, HookInv, OneAwaited, FlightMatches, TimersCounted, Hooks
<1>3. CASE Ready(h) /\ h.sent = 0
  <2> DEFINE n == [h EXCEPT !.asked = FALSE, !.sent = h.version, !.halt = "none",
                            !.out = Append(h.out, Update(h.pending))]
  <2>0. Flush(h) = n
    BY <1>3 DEF Flush
  <2>1. Update(h.pending) \in Requests /\ h.out \in Seq(Requests)
    BY DEF Hooks, Update, Requests
  <2>2. n \in Hooks
    BY <2>1, AppendAwaits DEF Hooks
  <2>3. Silent(h, box) /\ h.version > 0 /\ h.version \in Nat
    BY <1>3 DEF HookInv, OneAwaited, FlightMatches, Silent, Ready, Hooks
  <2>4. /\ n.sent = h.version /\ n.version = h.version /\ n.pending = h.pending
        /\ n.handle = h.handle /\ n.timers = h.timers
        /\ n.link = h.link /\ n.joined = h.joined
        /\ n.out = Append(h.out, Update(h.pending))
    BY DEF Hooks
  <2>5. \A i \in DOMAIN n.out : n.out[i].awaited => i = Len(h.out) + 1 /\ n.out[i] = Update(h.pending)
    BY <2>1, <2>3, <2>4, AppendAwaits DEF Silent, Awaited
  <2>6. OneAwaited(n, box)
    BY <2>3, <2>4, <2>5 DEF OneAwaited, Silent, Awaited
  <2>7. FlightMatches(n, box, covered)
    BY <2>3, <2>4, <2>5 DEF FlightMatches, Silent, Awaited, Update
  <2>8. TimersCounted(n)
    BY <2>4 DEF TimersCounted, HookInv
  <2> QED
    BY <1>3, <2>0, <2>2, <2>4, <2>6, <2>7, <2>8 DEF HookInv, Sent, Posts, Ready
<1> QED
  BY <1>1, <1>2, <1>3

LEMMA SettleKeeps ==
  ASSUME NEW h \in Hooks, NEW box \in Seq(Messages), NEW covered,
         HookInv(h, box, covered), Silent(h, box)
  PROVE  Settle(h) \in Hooks /\ HookInv(Settle(h), box, covered) /\ Sent(h, Settle(h))
<1> DEFINE over == [h EXCEPT !.sent = 0]
<1>1. over \in Hooks
  BY DEF Hooks
<1>2. /\ over.sent = 0 /\ over.version = h.version /\ over.pending = h.pending
      /\ over.handle = h.handle /\ over.timers = h.timers
      /\ over.link = h.link /\ over.joined = h.joined /\ over.out = h.out
  BY DEF Hooks
<1>3. HookInv(over, box, covered)
  BY <1>2 DEF HookInv, OneAwaited, FlightMatches, TimersCounted, Silent, Awaited
<1>4. Flush(over) \in Hooks /\ HookInv(Flush(over), box, covered) /\ Sent(over, Flush(over))
  BY <1>1, <1>3, FlushKeeps
<1>5. Settle(h) = over \/ Settle(h) = Flush(over)
  BY DEF Settle
<1> QED
  BY <1>1, <1>2, <1>3, <1>4, <1>5 DEF Sent, Posts

-----------------------------------------------------------------------------
(* The hook's operators.                                                   *)

LEMMA AckedKeeps ==
  ASSUME NEW h \in Hooks, NEW box \in Seq(Messages), NEW covered,
         HookInv(h, box, covered), Silent(h, box)
  PROVE  /\ Acked(h) \in Hooks /\ HookInv(Acked(h), box, covered)
         /\ Posts(h, Acked(h)) /\ Acked(h).joined = h.joined
         /\ \/ Acked(h).pending = h.pending
            \/ h.version = h.sent /\ Acked(h).pending = {}
<1> DEFINE cleared == [h EXCEPT !.attempts = 0, !.pending = {}, !.version = 0]
           kept == [h EXCEPT !.attempts = 0]
           n == IF h.version = h.sent THEN cleared ELSE kept
<1>1. n \in Hooks
  BY DEF Hooks
<1>2. /\ n.sent = h.sent /\ n.handle = h.handle /\ n.timers = h.timers
      /\ n.link = h.link /\ n.joined = h.joined /\ n.out = h.out
      /\ \/ n.version = h.version /\ n.pending = h.pending
         \/ h.version = h.sent /\ n.pending = {}
  BY DEF Hooks
<1>3. HookInv(n, box, covered) /\ Silent(n, box)
  BY <1>2 DEF HookInv, OneAwaited, FlightMatches, TimersCounted, Silent, Awaited
<1>4. Settle(n) \in Hooks /\ HookInv(Settle(n), box, covered) /\ Sent(n, Settle(n))
  BY <1>1, <1>3, SettleKeeps
<1>5. Acked(h) = Settle(n)
  BY DEF Acked
<1> QED
  BY <1>2, <1>4, <1>5 DEF Sent, Posts

\* The three answers that refuse an update.
LEMMA RefusedKeeps ==
  ASSUME NEW h \in Hooks, NEW box \in Seq(Messages), NEW covered,
         HookInv(h, box, covered), Silent(h, box),
         NEW n \in {Limited(h), Locked(h), Rejected(h)}
  PROVE  n \in Hooks /\ HookInv(n, box, covered) /\ Sent(h, n)
<1> DEFINE a == Schedule(h)  b == [h EXCEPT !.halt = "locked"]  d == [h EXCEPT !.told = TRUE]
<1>0. h.timers + 1 \in Nat /\ h.timers + 1 > 0
  BY HookNumbers
<1>1. a \in Hooks /\ b \in Hooks /\ d \in Hooks
  BY <1>0 DEF Hooks, Schedule
<1>2. \A m \in {a, b, d} :
        /\ m.pending = h.pending /\ m.version = h.version /\ m.sent = h.sent
        /\ m.link = h.link /\ m.joined = h.joined /\ m.out = h.out
        /\ m.handle => m.timers > 0
  BY <1>0 DEF Hooks, Schedule, HookInv, TimersCounted
<1>3. \A m \in {a, b, d} : HookInv(m, box, covered) /\ Silent(m, box)
  BY <1>2 DEF HookInv, OneAwaited, FlightMatches, TimersCounted, Silent, Awaited
<1>4. \A m \in {a, b, d} :
        Settle(m) \in Hooks /\ HookInv(Settle(m), box, covered) /\ Sent(m, Settle(m))
  BY <1>1, <1>3, SettleKeeps
<1>5. PICK m \in {a, b, d} : n = Settle(m)
  BY DEF Limited, Locked, Rejected
<1>6. /\ m.pending = h.pending /\ m.version = h.version
      /\ m.link = h.link /\ m.joined = h.joined /\ m.out = h.out
  BY <1>2
<1>7. n \in Hooks /\ HookInv(n, box, covered) /\ Sent(m, n)
  BY <1>4, <1>5
<1> QED
  BY <1>6, <1>7 DEF Sent, Posts

LEMMA TimerKeeps ==
  ASSUME NEW h \in Hooks, NEW box \in Seq(Messages), NEW covered,
         HookInv(h, box, covered), h.timers > 0
  PROVE  /\ TimerFired(h) \in Hooks /\ HookInv(TimerFired(h), box, covered)
         /\ Sent(h, TimerFired(h))
<1> DEFINE n == [h EXCEPT !.timers = h.timers - 1, !.handle = FALSE]
<1>0. h.timers - 1 \in Nat
  BY HookNumbers
<1>1. n \in Hooks
  BY <1>0 DEF Hooks
<1>2. /\ n.pending = h.pending /\ n.version = h.version /\ n.sent = h.sent
      /\ n.link = h.link /\ n.joined = h.joined /\ n.out = h.out /\ ~n.handle
  BY DEF Hooks
<1>3. HookInv(n, box, covered)
  BY <1>2 DEF HookInv, OneAwaited, FlightMatches, TimersCounted, Awaited
<1>4. Flush(n) \in Hooks /\ HookInv(Flush(n), box, covered) /\ Sent(n, Flush(n))
  BY <1>1, <1>3, FlushKeeps
<1> QED
  BY <1>2, <1>4 DEF TimerFired, Sent, Posts

LEMMA JoinedKeeps ==
  ASSUME NEW h \in Hooks, NEW box \in Seq(Messages), NEW covered,
         HookInv(h, box, covered)
  PROVE  /\ Joined(h) \in Hooks /\ HookInv(Joined(h), box, covered)
         /\ Posts(h, Joined(h)) /\ Joined(h).pending = h.pending /\ Joined(h).joined
<1> DEFINE n == [h EXCEPT !.joined = TRUE, !.attempts = 0, !.told = FALSE, !.handle = FALSE,
                          !.timers = IF h.handle THEN h.timers - 1 ELSE h.timers]
<1>0. (IF h.handle THEN h.timers - 1 ELSE h.timers) \in Nat
  BY HookNumbers DEF HookInv, TimersCounted
<1>1. n \in Hooks
  BY <1>0 DEF Hooks
<1>2. /\ n.pending = h.pending /\ n.version = h.version /\ n.sent = h.sent
      /\ n.link = h.link /\ n.joined /\ n.out = h.out /\ ~n.handle
  BY DEF Hooks
<1>3. HookInv(n, box, covered)
  BY <1>2 DEF HookInv, OneAwaited, FlightMatches, TimersCounted, Awaited
<1>4. Flush(n) \in Hooks /\ HookInv(Flush(n), box, covered) /\ Sent(n, Flush(n))
  BY <1>1, <1>3, FlushKeeps
<1> QED
  BY <1>2, <1>4 DEF Joined, Sent, Posts

LEMMA QueuedKeeps ==
  ASSUME NEW h \in Hooks, NEW box \in Seq(Messages), NEW covered,
         HookInv(h, box, covered), NEW edits \in SUBSET Edits
  PROVE  /\ Queued(h, edits) \in Hooks /\ HookInv(Queued(h, edits), box, covered)
         /\ Posts(h, Queued(h, edits)) /\ Queued(h, edits).joined = h.joined
         /\ Queued(h, edits).pending = h.pending \cup edits
<1> DEFINE n == [h EXCEPT !.pending = h.pending \cup edits, !.version = h.version + 1]
<1>0. h.version + 1 \in Nat /\ h.pending \cup edits \subseteq Edits
  BY HookNumbers
<1>1. n \in Hooks
  BY <1>0 DEF Hooks
<1>2. /\ n.pending = h.pending \cup edits /\ n.version = h.version + 1 /\ n.sent = h.sent
      /\ n.link = h.link /\ n.joined = h.joined /\ n.out = h.out
      /\ n.handle = h.handle /\ n.timers = h.timers
      /\ h.version \in Nat /\ h.sent \in Nat
  BY DEF Hooks
<1>3. FlightMatches(n, box, covered)
  BY <1>2 DEF HookInv, FlightMatches
<1>4. HookInv(n, box, covered)
  BY <1>2, <1>3 DEF HookInv, OneAwaited, TimersCounted, Awaited
<1>5. Flush(n) \in Hooks /\ HookInv(Flush(n), box, covered) /\ Sent(n, Flush(n))
  BY <1>1, <1>4, FlushKeeps
<1> QED
  BY <1>2, <1>5 DEF Queued, Sent, Posts

LEMMA AbandonedIsSilent ==
  ASSUME NEW S, NEW s \in Seq([kind : S, edits : SUBSET Edits, awaited : BOOLEAN])
  PROVE  /\ Abandoned(s) \in Seq([kind : S, edits : SUBSET Edits, awaited : BOOLEAN])
         /\ DOMAIN Abandoned(s) = DOMAIN s /\ ~Awaited(Abandoned(s))
         /\ \A i \in DOMAIN s :
              Abandoned(s)[i].kind = s[i].kind /\ Abandoned(s)[i].edits = s[i].edits
<1> DEFINE M == [kind : S, edits : SUBSET Edits, awaited : BOOLEAN]
<1>1. \A m \in M : /\ [m EXCEPT !.awaited = FALSE] \in M
                    /\ [m EXCEPT !.awaited = FALSE].kind = m.kind
                    /\ [m EXCEPT !.awaited = FALSE].edits = m.edits
                    /\ [m EXCEPT !.awaited = FALSE].awaited = FALSE
  OBVIOUS
<1>2. s \in Seq(M) => DOMAIN s = 1..Len(s) /\ Len(s) \in Nat /\ \A i \in DOMAIN s : s[i] \in M
  <2> HIDE DEF M
  <2> QED OBVIOUS
<1>3. \A i \in DOMAIN s : Abandoned(s)[i] = [s[i] EXCEPT !.awaited = FALSE]
  BY DEF Abandoned
<1>4. Abandoned(s) \in [1..Len(s) -> M]
  BY <1>1, <1>2, <1>3 DEF Abandoned
<1>5. Abandoned(s) \in Seq(M)
  BY <1>2, <1>4
<1> QED
  BY <1>1, <1>2, <1>3, <1>4, <1>5 DEF Awaited

LEMMA TimedOutKeeps ==
  ASSUME NEW h \in Hooks, NEW box \in Seq(Messages), NEW covered,
         TimersCounted(h), (h.pending # {} => h.version > 0), ~Awaited(box)
  PROVE  /\ TimedOut(h) \in Hooks /\ HookInv(TimedOut(h), box, covered)
         /\ Sent([h EXCEPT !.out = Abandoned(h.out)], TimedOut(h))
<1> DEFINE quiet == [h EXCEPT !.out = Abandoned(h.out)]
           again == [quiet EXCEPT !.attempts = h.attempts + 1]
           over == [quiet EXCEPT !.halt = "exhausted"]
<1>1. Abandoned(h.out) \in Seq(Requests) /\ ~Awaited(Abandoned(h.out))
  BY AbandonedIsSilent DEF Hooks, Requests
<1>2. h.attempts + 1 \in Nat /\ h.timers + 1 \in Nat /\ h.timers + 1 > 0
  BY HookNumbers
<1>3. quiet \in Hooks /\ again \in Hooks /\ over \in Hooks
  BY <1>1, <1>2 DEF Hooks
<1>4. Schedule(again) \in Hooks
  BY <1>1, <1>2 DEF Hooks, Schedule
<1> DEFINE Like(m) ==
        /\ m.pending = h.pending /\ m.version = h.version /\ m.sent = h.sent
        /\ m.link = h.link /\ m.joined = h.joined /\ m.out = Abandoned(h.out)
<1>a. Like(again) /\ Like(over) /\ (again.handle => again.timers > 0)
      /\ (over.handle => over.timers > 0) /\ again.timers = h.timers
  BY DEF Hooks, TimersCounted
<1>b. Like(Schedule(again)) /\ Schedule(again).timers = h.timers + 1
  BY <1>3, <1>a DEF Hooks, Schedule
<1>5. \A m \in {again, over, Schedule(again)} :
        m \in Hooks /\ Like(m) /\ (m.handle => m.timers > 0)
  <2> HIDE DEF again, over, Like
  <2> QED BY <1>2, <1>3, <1>4, <1>a, <1>b
<1>6. \A m \in {again, over, Schedule(again)} : HookInv(m, box, covered) /\ Silent(m, box)
  BY <1>1, <1>5 DEF HookInv, OneAwaited, FlightMatches, TimersCounted, Silent, Awaited
<1>7. \A m \in {again, over, Schedule(again)} :
        Settle(m) \in Hooks /\ HookInv(Settle(m), box, covered) /\ Sent(m, Settle(m))
  BY <1>5, <1>6, SettleKeeps
<1>8. \E m \in {again, over, Schedule(again)} : TimedOut(h) = Settle(m)
  BY DEF TimedOut
<1>9. /\ quiet.pending = h.pending /\ quiet.version = h.version /\ quiet.link = h.link
      /\ quiet.joined = h.joined /\ quiet.out = Abandoned(h.out)
  BY DEF Hooks
<1> QED
  BY <1>5, <1>7, <1>8, <1>9 DEF Sent, Posts

-----------------------------------------------------------------------------
(* The two streams of a connection.                                        *)

LEMMA CoveredGrows ==
  ASSUME NEW h, NEW box, NEW covered, NEW more, covered \subseteq more,
         HookInv(h, box, covered)
  PROVE  HookInv(h, box, more)
  BY DEF HookInv, FlightMatches

\* A message read.
LEMMA ReadKeeps ==
  ASSUME NEW h \in Hooks, NEW box \in Seq(Messages), NEW covered,
         HookInv(h, box, covered), box # << >>
  PROVE  /\ HookInv(h, Tail(box), covered)
         /\ Head(box).awaited => Silent(h, Tail(box))
<1>1. /\ Len(box) \in Nat \ {0} /\ DOMAIN box = 1..Len(box)
      /\ DOMAIN Tail(box) = 1..(Len(box) - 1) /\ Head(box) = box[1]
      /\ \A i \in 1..(Len(box) - 1) : Tail(box)[i] = box[i + 1]
  BY TailShifts
<1>2. \A i \in DOMAIN Tail(box) : /\ i + 1 \in DOMAIN box /\ Tail(box)[i] = box[i + 1]
                                /\ i \in Nat /\ i + 1 # 1
  BY <1>1
<1>3. 1 \in DOMAIN box
  BY <1>1
<1>4. Awaited(Tail(box)) => Awaited(box)
  BY <1>2 DEF Awaited
<1>5. \A i, j \in DOMAIN Tail(box) : Tail(box)[i].awaited /\ Tail(box)[j].awaited => i = j
  <2>1. TAKE i, j \in DOMAIN Tail(box)
  <2>2. Tail(box)[i].awaited /\ Tail(box)[j].awaited => i + 1 = j + 1
    BY <1>2 DEF HookInv, OneAwaited
  <2> QED
    BY <1>2, <2>2
<1>6. OneAwaited(h, Tail(box)) /\ FlightMatches(h, Tail(box), covered)
  BY <1>2, <1>4, <1>5 DEF HookInv, OneAwaited, FlightMatches
<1>7. ASSUME Head(box).awaited PROVE Silent(h, Tail(box))
  <2>1. Awaited(box) /\ \A i \in DOMAIN box : box[i].awaited => i = 1
    BY <1>1, <1>3, <1>7 DEF HookInv, OneAwaited, Awaited
  <2> QED
    BY <1>2, <2>1 DEF Silent, Awaited, HookInv, OneAwaited
<1> QED
  BY <1>6, <1>7 DEF HookInv

\* A message nobody waits for.
LEMMA NoticeKeeps ==
  ASSUME NEW h \in Hooks, NEW box \in Seq(Messages), NEW covered,
         HookInv(h, box, covered), NEW m \in Messages, ~m.awaited
  PROVE  HookInv(h, Append(box, m), covered)
<1>1. \A i \in DOMAIN Append(box, m) :
        Append(box, m)[i].awaited => i \in DOMAIN box /\ Append(box, m)[i] = box[i]
  BY AppendAwaits
<1>2. Awaited(Append(box, m)) => Awaited(box)
  BY <1>1 DEF Awaited
<1> QED
  BY <1>1, <1>2 DEF HookInv, OneAwaited, FlightMatches

\* A request handled and answered.
LEMMA AnswerKeeps ==
  ASSUME NEW h \in Hooks, NEW box \in Seq(Messages), NEW covered, h.out # << >>,
         HookInv(h, box, covered),
         NEW m \in Messages, m.awaited = Head(h.out).awaited,
         (m.kind = "ok" => Head(h.out).edits \subseteq covered),
         NEW n, n = [h EXCEPT !.out = Tail(h.out)]
  PROVE  n \in Hooks /\ HookInv(n, Append(box, m), covered)
<1>1. /\ h.out \in Seq(Requests) /\ Len(h.out) \in Nat \ {0} /\ DOMAIN h.out = 1..Len(h.out)
      /\ Tail(h.out) \in Seq(Requests)
      /\ DOMAIN Tail(h.out) = 1..(Len(h.out) - 1) /\ Head(h.out) = h.out[1]
      /\ \A i \in 1..(Len(h.out) - 1) : Tail(h.out)[i] = h.out[i + 1]
  BY TailShifts DEF Hooks
<1>2. /\ n.pending = h.pending /\ n.version = h.version /\ n.sent = h.sent
      /\ n.handle = h.handle /\ n.timers = h.timers /\ n.out = Tail(h.out)
  BY DEF Hooks
<1>3. n \in Hooks
  BY <1>1 DEF Hooks
<1>4. \A i \in DOMAIN n.out : /\ i + 1 \in DOMAIN h.out /\ n.out[i] = h.out[i + 1]
                            /\ i \in Nat /\ i + 1 # 1
  BY <1>1, <1>2
<1>5. 1 \in DOMAIN h.out
  BY <1>1
<1>6. /\ DOMAIN Append(box, m) = 1..(Len(box) + 1) /\ DOMAIN box = 1..Len(box)
      /\ \A i \in DOMAIN box : Append(box, m)[i] = box[i]
      /\ Append(box, m)[Len(box) + 1] = m
      /\ \A i \in DOMAIN Append(box, m) : i \in DOMAIN box \/ i = Len(box) + 1
  BY AppendAwaits
<1>7. CASE m.awaited
  <2>1. ~Awaited(box) /\ h.sent # 0 /\ \A i \in DOMAIN h.out : h.out[i].awaited => i = 1
    BY <1>1, <1>5, <1>7 DEF HookInv, OneAwaited, Awaited
  <2>2. ~Awaited(n.out)
    BY <1>4, <2>1 DEF Awaited
  <2>3. \A i \in DOMAIN Append(box, m) : Append(box, m)[i].awaited =>
          i = Len(box) + 1 /\ Append(box, m)[i] = m
    BY <1>6, <2>1 DEF Awaited
  <2>4. OneAwaited(n, Append(box, m))
    BY <1>2, <2>1, <2>2, <2>3 DEF OneAwaited, Awaited
  <2>5. h.sent <= h.version /\ (h.version = h.sent => h.pending \subseteq Head(h.out).edits)
    BY <1>1, <1>5, <1>7 DEF HookInv, FlightMatches
  <2>6. FlightMatches(n, Append(box, m), covered)
    BY <1>2, <2>2, <2>3, <2>5 DEF FlightMatches, HookInv, Awaited
  <2> QED
    BY <1>2, <1>3, <2>4, <2>6 DEF HookInv, TimersCounted
<1>8. CASE ~m.awaited
  <2>1. Awaited(n.out) => Awaited(h.out)
    BY <1>4 DEF Awaited
  <2>2. \A i, j \in DOMAIN n.out : n.out[i].awaited /\ n.out[j].awaited => i = j
    <3>1. TAKE i, j \in DOMAIN n.out
    <3>2. n.out[i].awaited /\ n.out[j].awaited => i + 1 = j + 1
      BY <1>4 DEF HookInv, OneAwaited
    <3> QED
      BY <1>4, <3>2
  <2>3. HookInv(n, box, covered)
    BY <1>2, <1>4, <2>1, <2>2 DEF HookInv, OneAwaited, FlightMatches, TimersCounted
  <2> QED
    BY <1>3, <1>8, <2>3, NoticeKeeps
<1> QED
  BY <1>7, <1>8

\* The connection is cut or starts: nothing is awaited on it.
LEMMA CutKeeps ==
  ASSUME NEW h \in Hooks, NEW box \in Seq(Messages), NEW covered, HookInv(h, box, covered),
         NEW n \in Hooks, n.pending = h.pending, n.version = h.version,
         (n.handle => h.handle /\ n.timers = h.timers),
         ~Awaited(n.out)
  PROVE  HookInv(n, << >>, covered)
  BY DEF HookInv, OneAwaited, FlightMatches, TimersCounted, Awaited

-----------------------------------------------------------------------------
(* Flights: every step keeps the hooks and the streams well formed.        *)

Streams == hook \in [Clients -> Hooks] /\ inbox \in [Clients -> Seq(Messages)]

Flights ==
  /\ Streams
  /\ \A c \in Clients : HookInv(hook[c], inbox[c], Covered)

LEMMA FlightsOf == IInv => Flights
  BY DEF IInv, TypeOK, FlightsAreSafe, Flights, Streams, HookInv

\* The other clients keep their hooks and get at most news nobody waits for.
Elsewhere(c) == \A d \in Clients \ {c} :
  /\ hook'[d] = hook[d]
  /\ \/ inbox'[d] = inbox[d]
     \/ \E m \in Messages : ~m.awaited /\ inbox'[d] = Append(inbox[d], m)

LEMMA FlightsOneClient ==
  ASSUME Flights, Covered \subseteq Covered', NEW c \in Clients, Elsewhere(c),
         DOMAIN hook' = Clients, DOMAIN inbox' = Clients,
         hook' = [d \in Clients |-> hook'[d]], inbox' = [d \in Clients |-> inbox'[d]],
         hook'[c] \in Hooks, inbox'[c] \in Seq(Messages),
         HookInv(hook'[c], inbox'[c], Covered')
  PROVE  Flights'
<1>1. ASSUME NEW d \in Clients, d # c
      PROVE  /\ hook'[d] \in Hooks /\ inbox'[d] \in Seq(Messages)
             /\ HookInv(hook'[d], inbox'[d], Covered')
  <2>1. hook[d] \in Hooks /\ inbox[d] \in Seq(Messages) /\ HookInv(hook[d], inbox[d], Covered')
    BY CoveredGrows DEF Flights, Streams
  <2>2. hook'[d] = hook[d]
    BY <1>1 DEF Elsewhere
  <2>3. CASE inbox'[d] = inbox[d]
    BY <2>1, <2>2, <2>3
  <2>4. ASSUME NEW m \in Messages, ~m.awaited, inbox'[d] = Append(inbox[d], m)
        PROVE  inbox'[d] \in Seq(Messages) /\ HookInv(hook'[d], inbox'[d], Covered')
    BY <2>1, <2>2, <2>4, NoticeKeeps, AppendAwaits
  <2> QED
    BY <1>1, <2>1, <2>2, <2>3, <2>4 DEF Elsewhere
<1> QED
  BY <1>1 DEF Flights, Streams

LEMMA FlightsIdle ==
  ASSUME Flights, UNCHANGED <<hook, inbox>>, Covered \subseteq Covered'
  PROVE  Flights'
  BY CoveredGrows DEF Flights, Streams

\* A step of client c's hook alone.
LEMMA FlightsHook ==
  ASSUME Flights, NEW c \in Clients, NEW n \in Hooks, Covered' = Covered,
         hook' = [hook EXCEPT ![c] = n], inbox' = inbox,
         HookInv(n, inbox[c], Covered)
  PROVE  Flights'
<1>1. Elsewhere(c) /\ hook'[c] = n /\ inbox'[c] = inbox[c]
  BY DEF Flights, Streams, Elsewhere
<1> QED
  BY <1>1, FlightsOneClient DEF Flights, Streams

\* A step of client c's hook that reads a message.
LEMMA FlightsRead ==
  ASSUME Flights, NEW c \in Clients, NEW n \in Hooks, Covered' = Covered,
         hook' = [hook EXCEPT ![c] = n], inbox[c] # << >>, Received(c),
         HookInv(n, Tail(inbox[c]), Covered)
  PROVE  Flights'
<1>1. Elsewhere(c) /\ hook'[c] = n /\ inbox'[c] = Tail(inbox[c])
  BY DEF Flights, Streams, Elsewhere, Received
<1>2. inbox'[c] \in Seq(Messages)
  BY <1>1, TailShifts DEF Flights, Streams
<1> QED
  BY <1>1, <1>2, FlightsOneClient DEF Flights, Streams, Received

LEMMA FlightsEditor ==
  ASSUME Flights, NEW c \in Clients, buffer \in [Clients -> SUBSET Edits],
         Edit(c) \/ SendYjsUpdate(c) \/ Displays(c)
  PROVE  Flights'
<1>1. CASE Edit(c) \/ Displays(c)
  BY <1>1, FlightsIdle DEF Edit, Displays, EditorReady, Render, RenderEarly, serverVars, countVars,
     Covered
<1>2. CASE SendYjsUpdate(c)
  <2>1. /\ Queued(hook[c], buffer[c]) \in Hooks
        /\ HookInv(Queued(hook[c], buffer[c]), inbox[c], Covered)
    BY QueuedKeeps DEF Flights, Streams
  <2> QED
    BY <1>2, <2>1, FlightsHook DEF SendYjsUpdate, serverVars, countVars, Covered
<1> QED
  BY <1>1, <1>2

\* The connection of client c starts, breaks or is given up.
LEMMA FlightsLink ==
  ASSUME Flights, NEW c \in Clients, NEW n \in Hooks, Covered \subseteq Covered',
         hook' = [hook EXCEPT ![c] = n],
         inbox' = [inbox EXCEPT ![c] = << >>],
         \/ n.pending = hook[c].pending /\ n.version = hook[c].version
         \/ n.pending = {},
         ~n.handle \/ n.timers = hook[c].timers,
         ~n.handle \/ hook[c].handle,
         ~Awaited(n.out)
  PROVE  Flights'
<1>1. Elsewhere(c) /\ hook'[c] = n /\ inbox'[c] = << >> /\ inbox'[c] \in Seq(Messages)
  BY DEF Flights, Streams, Elsewhere
<1>2. HookInv(n, << >>, Covered')
  BY DEF Flights, HookInv, OneAwaited, FlightMatches, TimersCounted, Awaited
<1> QED
  BY <1>1, <1>2, FlightsOneClient DEF Flights, Streams

LEMMA FlightsConnection ==
  ASSUME Flights, StreamsFit, NEW c \in Clients,
         Connect(c) \/ Break(c) \/ Disconnect(c) \/ Remount(c) \/ Reload(c)
  PROVE  Flights'
<1>1. hook[c] \in Hooks /\ hook \in [Clients -> Hooks] /\ inbox \in [Clients -> Seq(Messages)]
  BY DEF Flights, Streams
<1>2. /\ << >> \in Seq(Requests) /\ <<Join>> \in Seq(Requests)
      /\ ~Awaited(<< >>) /\ ~Awaited(<<Join>>)
  BY DEF Join, Requests, Awaited
<1>3. hook[c].link # "up" => inbox = [inbox EXCEPT ![c] = << >>]
  BY <1>1 DEF StreamsFit, Fits
<1>4. CASE Connect(c)
  <2> DEFINE n == [hook[c] EXCEPT !.link = "up", !.out = <<Join>>]
  <2>1. n \in Hooks /\ hook' = [hook EXCEPT ![c] = n]
    BY <1>1, <1>2, <1>4 DEF Connect, Hooks
  <2>2. /\ n.pending = hook[c].pending /\ n.version = hook[c].version /\ n.out = <<Join>>
        /\ n.handle = hook[c].handle /\ n.timers = hook[c].timers
    BY <1>1 DEF Hooks
  <2> QED
    BY <1>2, <1>3, <1>4, <2>1, <2>2, FlightsLink DEF Connect, serverVars, countVars, Covered
<1>5. CASE Break(c)
  <2> DEFINE n == [hook[c] EXCEPT !.link = "dead", !.out = << >>]
  <2>1. n \in Hooks /\ hook' = [hook EXCEPT ![c] = n]
    BY <1>1, <1>2, <1>5 DEF Break, Hooks
  <2>2. /\ n.pending = hook[c].pending /\ n.version = hook[c].version /\ n.out = << >>
        /\ n.handle = hook[c].handle /\ n.timers = hook[c].timers
    BY <1>1 DEF Hooks
  <2> HIDE DEF n
  <2>3. inbox' = [inbox EXCEPT ![c] = << >>] /\ UNCHANGED <<server, lost>>
    BY <1>5 DEF Break
  <2> QED
    BY <1>2, <2>1, <2>2, <2>3, FlightsLink DEF Covered
<1>6. CASE Disconnect(c)
  <2> DEFINE n == [hook[c] EXCEPT !.link = "down", !.joined = FALSE, !.out = << >>]
  <2>1. n \in Hooks /\ hook' = [hook EXCEPT ![c] = n]
    BY <1>1, <1>2, <1>6 DEF Disconnect, Hooks
  <2>2. /\ n.pending = hook[c].pending /\ n.version = hook[c].version /\ n.out = << >>
        /\ n.handle = hook[c].handle /\ n.timers = hook[c].timers
    BY <1>1 DEF Hooks
  <2> HIDE DEF n
  <2>3. inbox' = [inbox EXCEPT ![c] = << >>] /\ UNCHANGED <<server, lost>>
    BY <1>3, <1>6 DEF Disconnect, serverVars, countVars
  <2> QED
    BY <1>2, <2>1, <2>2, <2>3, FlightsLink DEF Covered
<1>7. CASE Remount(c)
  <2> DEFINE n == [Unmounted EXCEPT !.pending = hook[c].pending,
                                    !.version = hook[c].version, !.told = hook[c].told]
  <2>1. n \in Hooks
    BY <1>1, <1>2 DEF Unmounted, Hooks
  <2>2. /\ n.pending = hook[c].pending /\ n.version = hook[c].version /\ n.out = << >> /\ ~n.handle
    BY DEF Unmounted
  <2> QED
    BY <1>2, <1>7, <2>1, <2>2, FlightsLink DEF Remount, Covered
<1>8. CASE Reload(c)
  <2>1. Unmounted \in Hooks /\ Unmounted.pending = {} /\ Unmounted.out = << >> /\ ~Unmounted.handle
    BY <1>2 DEF Unmounted, Hooks
  <2> QED
    BY <1>2, <1>8, <2>1, FlightsLink DEF Reload, Covered
<1> QED
  BY <1>4, <1>5, <1>6, <1>7, <1>8

\* The server answers a request of client c and may tell the others.
LEMMA FlightsAnswer ==
  ASSUME Flights, NEW c \in Clients, hook[c].out # << >>, Handled(c), Elsewhere(c),
         Covered \subseteq Covered', NEW kind, NEW edits \in SUBSET Edits,
         kind \in {"joined", "refused", "ok", "limited", "locked", "rejected"},
         (kind = "ok" => Head(hook[c].out).edits \subseteq Covered'),
         DOMAIN inbox' = Clients, inbox' = [d \in Clients |-> inbox'[d]],
         inbox'[c] = Append(inbox[c], Answer(kind, edits, Head(hook[c].out)))
  PROVE  Flights'
<1> DEFINE m == Answer(kind, edits, Head(hook[c].out))
           n == [hook[c] EXCEPT !.out = Tail(hook[c].out)]
<1>1. hook[c] \in Hooks /\ inbox[c] \in Seq(Messages) /\ HookInv(hook[c], inbox[c], Covered')
  BY CoveredGrows DEF Flights, Streams
<1>2. Head(hook[c].out) \in Requests
  BY <1>1, TailShifts DEF Hooks
<1>3. m \in Messages /\ m.awaited = Head(hook[c].out).awaited /\ m.kind = kind
  BY <1>2 DEF Answer, Messages, Requests
<1>4. n \in Hooks /\ HookInv(n, Append(inbox[c], m), Covered')
  BY <1>1, <1>3, AnswerKeeps
<1>5. hook'[c] = n /\ DOMAIN hook' = Clients /\ hook' = [d \in Clients |-> hook'[d]]
  BY DEF Handled, Flights, Streams
<1>6. inbox'[c] \in Seq(Messages)
  BY <1>1, <1>3, AppendAwaits
<1> QED
  BY <1>4, <1>5, <1>6, FlightsOneClient

LEMMA FlightsServer ==
  ASSUME Flights, server \subseteq Edits, NEW c \in Clients,
         \/ ServerJoins(c) \/ ServerRefuses(c) \/ ServerUpdates(c) \/ ServerStops(c)
         \/ ServerLimits(c) \/ ServerRejects(c)
  PROVE  Flights'
<1>1. hook[c].out # << >> /\ Handled(c) /\ Covered \subseteq Covered'
  BY DEF ServerJoins, ServerRefuses, ServerUpdates, ServerStops, ServerLimits, ServerRejects,
         Handles, Covered, serverVars, countVars
<1>2. \A d \in Clients \ {c} : hook'[d] = hook[d]
  BY <1>1 DEF Handled, Flights, Streams
<1>3. Head(hook[c].out) \in Requests
  BY <1>1, TailShifts DEF Flights, Streams, Hooks
<1>4. CASE ServerUpdates(c)
  <2>1. server' = server \cup Head(hook[c].out).edits /\ server' \in SUBSET Edits
        /\ Head(hook[c].out).edits \subseteq Covered'
    BY <1>3, <1>4 DEF ServerUpdates, Requests, Covered
  <2>2. Message("news", Head(hook[c].out).edits) \in Messages
        /\ ~Message("news", Head(hook[c].out).edits).awaited
    BY <1>3 DEF Message, Messages, Requests
  <2>3. Elsewhere(c)
    BY <1>2, <1>4, <2>2 DEF Elsewhere, ServerUpdates, Flights, Streams
  <2>4. inbox'[c] = Append(inbox[c], Answer("ok", server', Head(hook[c].out)))
        /\ DOMAIN inbox' = Clients /\ inbox' = [d \in Clients |-> inbox'[d]]
    BY <1>4 DEF ServerUpdates
  <2> QED
    BY <1>1, <2>1, <2>3, <2>4, FlightsAnswer
<1>5. ASSUME NEW kind \in {"joined", "refused", "limited", "locked", "rejected"},
             NEW edits \in SUBSET Edits, Answers(c, kind, edits)
      PROVE  Flights'
  <2>1. inbox'[c] = Append(inbox[c], Answer(kind, edits, Head(hook[c].out)))
        /\ DOMAIN inbox' = Clients /\ inbox' = [d \in Clients |-> inbox'[d]]
        /\ \A d \in Clients \ {c} : inbox'[d] = inbox[d]
    BY <1>5 DEF Answers, Flights, Streams
  <2>2. Elsewhere(c) /\ kind # "ok"
    BY <1>2, <2>1 DEF Elsewhere
  <2> QED
    BY <1>1, <2>1, <2>2, FlightsAnswer
<1> QED
  BY <1>4, <1>5 DEF ServerJoins, ServerRefuses, ServerStops, ServerLimits, ServerRejects

LEMMA FlightsReads ==
  ASSUME Flights, NEW c \in Clients, Reads(c)
  PROVE  Flights'
<1> DEFINE h == hook[c]  box == Tail(inbox[c])
<1>1. inbox[c] # << >> /\ Received(c) /\ Covered' = Covered
  BY DEF Reads, JoinAnswer, JoinRefusal, Acknowledgement, Refusal, News, StateUpdate,
         Receives, Covered, serverVars, countVars
<1>2. h \in Hooks /\ inbox[c] \in Seq(Messages) /\ box \in Seq(Messages)
  BY <1>1, TailShifts DEF Flights, Streams
<1>3. HookInv(h, box, Covered) /\ (Head(inbox[c]).awaited => Silent(h, box))
  BY <1>1, <1>2, ReadKeeps DEF Flights
<1>4. ASSUME NEW n \in Hooks, HookInv(n, box, Covered), hook' = [hook EXCEPT ![c] = n]
      PROVE  Flights'
  BY <1>1, <1>4, FlightsRead
<1>5. ASSUME UNCHANGED hook PROVE Flights'
  BY <1>2, <1>3, <1>4, <1>5 DEF Flights, Streams
<1>6. CASE JoinAnswer(c)
  BY <1>2, <1>3, <1>4, <1>6, JoinedKeeps DEF JoinAnswer, Shows
<1>7. CASE JoinRefusal(c)
  <2> DEFINE n == [hook[c] EXCEPT !.told = TRUE]
  <2>1. n \in Hooks /\ n.pending = h.pending /\ n.version = h.version /\ n.sent = h.sent
        /\ n.out = h.out /\ n.handle = h.handle /\ n.timers = h.timers
    BY <1>2 DEF Hooks
  <2>2. HookInv(n, box, Covered)
    BY <1>3, <2>1 DEF HookInv, OneAwaited, FlightMatches, TimersCounted
  <2> QED
    BY <1>4, <1>7, <2>1, <2>2 DEF JoinRefusal, Shows
<1>8. CASE Acknowledgement(c)
  BY <1>2, <1>3, <1>4, <1>5, <1>8, AckedKeeps DEF Acknowledgement, Shows
<1>9. CASE Refusal(c)
  <2>1. CASE Head(inbox[c]).awaited
    BY <1>2, <1>3, <1>4, <1>9, <2>1, RefusedKeeps DEF Refusal, Shows
  <2>2. CASE ~Head(inbox[c]).awaited
    <3>1. hook' = [hook EXCEPT ![c] = h]
      BY <1>9, <2>2 DEF Refusal, Shows
    <3> QED
      BY <1>2, <1>3, <1>4, <3>1
  <2> QED
    BY <2>1, <2>2
<1>10. CASE News(c) \/ StateUpdate(c)
  BY <1>5, <1>10 DEF News, StateUpdate
<1> QED
  BY <1>6, <1>7, <1>8, <1>9, <1>10 DEF Reads

LEMMA FlightsTimers ==
  ASSUME Flights, NEW c \in Clients, FlightLost(c) \/ FlightLate(c) \/ RetryTimer(c)
  PROVE  Flights'
<1>1. hook[c] \in Hooks /\ inbox[c] \in Seq(Messages) /\ HookInv(hook[c], inbox[c], Covered)
      /\ Covered' = Covered
  BY DEF Flights, Streams, FlightLost, FlightLate, RetryTimer, Covered, serverVars, countVars
<1>2. TimersCounted(hook[c]) /\ (hook[c].pending # {} => hook[c].version > 0)
  BY <1>1 DEF HookInv, FlightMatches
<1>3. CASE RetryTimer(c)
  BY <1>1, <1>3, TimerKeeps, FlightsHook DEF RetryTimer, Shows
<1>4. CASE FlightLost(c)
  <2>1. TimedOut(hook[c]) \in Hooks /\ HookInv(TimedOut(hook[c]), inbox[c], Covered)
    BY <1>1, <1>2, <1>4, TimedOutKeeps DEF FlightLost
  <2> QED
    BY <1>1, <1>4, <2>1, FlightsHook DEF FlightLost, Shows
<1>5. CASE FlightLate(c)
  <2> DEFINE box == Abandoned(inbox[c])
  <2>1. box \in Seq(Messages) /\ ~Awaited(box)
    BY <1>1, AbandonedIsSilent DEF Messages
  <2>2. TimedOut(hook[c]) \in Hooks /\ HookInv(TimedOut(hook[c]), box, Covered)
    BY <1>1, <1>2, <2>1, TimedOutKeeps
  <2>3. /\ Elsewhere(c) /\ hook'[c] = TimedOut(hook[c]) /\ inbox'[c] = box
        /\ DOMAIN hook' = Clients /\ DOMAIN inbox' = Clients
        /\ hook' = [d \in Clients |-> hook'[d]] /\ inbox' = [d \in Clients |-> inbox'[d]]
    BY <1>5 DEF FlightLate, Shows, Elsewhere, Flights, Streams
  <2> QED
    BY <1>1, <2>1, <2>2, <2>3, FlightsOneClient
<1> QED
  BY <1>3, <1>4, <1>5

\* A checkpoint, the lock and a crash.
LEMMA FlightsRoom ==
  ASSUME Flights, server \subseteq Edits, ToggleLock \/ Crash \/ \E c \in Clients : Checkpoint(c)
  PROVE  Flights'
<1>1. CASE ToggleLock
  BY <1>1, FlightsIdle DEF ToggleLock, Covered
<1>2. ASSUME NEW c \in Clients, Checkpoint(c) PROVE Flights'
  <2>1. Message("state", server) \in Messages /\ ~Message("state", server).awaited
    BY DEF Message, Messages
  <2>2. /\ Elsewhere(c) /\ hook' = hook /\ inbox'[c] = inbox[c] /\ Covered' = Covered
        /\ DOMAIN inbox' = Clients /\ inbox' = [d \in Clients |-> inbox'[d]]
    BY <1>2, <2>1 DEF Checkpoint, Elsewhere, serverVars, Covered, Flights, Streams
  <2> QED
    BY <2>2, FlightsOneClient DEF Flights, Streams
<1>3. CASE Crash
  <2>0. PICK stored \in SUBSET server : server' = stored /\ lost' = lost \cup (server \ stored)
    BY <1>3 DEF Crash
  <2>1. Covered \subseteq Covered' /\ << >> \in Seq(Requests) /\ ~Awaited(<< >>)
    <3>1. Covered \subseteq Covered'
      BY <2>0 DEF Covered
    <3>2. ~Awaited(<< >>)
      BY DEF Awaited
    <3> QED
      BY <3>1, <3>2
  <2>2. ASSUME NEW c \in Clients
        PROVE  hook'[c] \in Hooks /\ HookInv(hook'[c], << >>, Covered')
    <3>1. hook[c] \in Hooks /\ inbox[c] \in Seq(Messages) /\ HookInv(hook[c], inbox[c], Covered')
      BY <2>1, CoveredGrows DEF Flights, Streams
    <3>2. HookInv(hook[c], << >>, Covered')
      BY <3>1 DEF HookInv, OneAwaited, FlightMatches, Awaited
    <3> DEFINE n == [hook[c] EXCEPT !.link = "dead", !.out = << >>]
    <3>3. n \in Hooks /\ n.pending = hook[c].pending /\ n.version = hook[c].version /\ n.out = << >>
          /\ n.handle = hook[c].handle /\ n.timers = hook[c].timers
      BY <2>1, <3>1 DEF Hooks
    <3>4. HookInv(n, << >>, Covered')
      BY <2>1, <3>1, <3>3, CutKeeps
    <3>5. hook'[c] = n \/ hook'[c] = hook[c]
      BY <1>3 DEF Crash
    <3> QED
      BY <3>1, <3>2, <3>3, <3>4, <3>5
  <2>3. inbox' = [c \in Clients |-> << >>] /\ DOMAIN hook' = Clients
        /\ hook' = [c \in Clients |-> hook'[c]]
    BY <1>3 DEF Crash
  <2> QED
    BY <2>2, <2>3 DEF Flights, Streams
<1> QED
  BY <1>1, <1>2, <1>3

LEMMA FlightsStep ==
  ASSUME TypeOK, Flights, StreamsFit, [Next]_vars
  PROVE  Flights'
<1>1. server \subseteq Edits /\ buffer \in [Clients -> SUBSET Edits]
  BY DEF TypeOK
<1>2. CASE UNCHANGED vars
  BY <1>1, <1>2, FlightsIdle DEF vars, serverVars, countVars, Covered
<1>3. CASE Next
  BY <1>1, <1>3, FlightsEditor, FlightsConnection, FlightsServer, FlightsReads,
     FlightsTimers, FlightsRoom DEF Next, Serves, Tick, Links, Disturbs
<1> QED
  BY <1>2, <1>3

-----------------------------------------------------------------------------
(* Types and what is not forgotten.                                        *)

\* Edits a client made are edits.
LEMMA EditIsNew ==
  ASSUME SyncAssumption, TypeOK, NEW c \in Clients, made[c] < Drawn[c]
  PROVE  /\ made[c] \in Nat /\ made[c] + 1 \in Nat /\ <<c, made[c] + 1>> \in Edits
         /\ \A e \in Edits : e[1] = c /\ e[2] <= made[c] + 1 =>
              e[2] <= made[c] \/ e = <<c, made[c] + 1>>
<1>1. made[c] \in Nat /\ Drawn[c] \in Nat
  BY DEF SyncAssumption, TypeOK
<1>2. made[c] + 1 \in 1..Drawn[c]
  BY <1>1
<1>3. <<c, made[c] + 1>> \in Edits
  BY <1>2 DEF Edits
<1>4. ASSUME NEW e \in Edits, e[1] = c, e[2] <= made[c] + 1
      PROVE  e[2] <= made[c] \/ e = <<c, made[c] + 1>>
  <2>1. PICK d \in Clients : e \in {d} \X (1..Drawn[d])
    BY DEF Edits
  <2>2. e = <<e[1], e[2]>> /\ e[2] \in 1..Drawn[d] /\ Drawn[d] \in Nat
    BY <2>1 DEF SyncAssumption
  <2>3. e[2] \in Nat
    BY <2>2
  <2> QED
    BY <1>1, <1>4, <2>2, <2>3
<1> QED
  BY <1>1, <1>3, <1>4

\* What is read from a typed stream is typed.
LEMMA HeadsAreTyped ==
  ASSUME Streams, NEW c \in Clients
  PROVE  /\ inbox[c] # << >> => Head(inbox[c]).edits \subseteq Edits
         /\ hook[c].out # << >> => Head(hook[c].out).edits \subseteq Edits
<1>1. inbox[c] \in Seq(Messages) /\ hook[c].out \in Seq(Requests)
  BY DEF Streams, Hooks
<1>2. \A m \in Messages : m.edits \subseteq Edits
  BY DEF Messages
<1>3. \A m \in Requests : m.edits \subseteq Edits
  BY DEF Requests
<1> QED
  BY <1>1, <1>2, <1>3, TailShifts

\* What the effects and the start of Excalidraw do: what a client holds moves
\* into its document or stays where it is.
LEMMA DisplaysKeep ==
  ASSUME TypeOK, NEW c \in Clients, Displays(c)
  PROVE  /\ UNCHANGED <<server, room, locked, buffer, made, hook, inbox, lost, faults>>
         /\ ready' \subseteq Clients /\ skipped' \subseteq Clients
         /\ doc' \in [Clients -> SUBSET Edits] /\ base' \in [Clients -> SUBSET Edits]
         /\ remote' \in [Clients -> SUBSET Edits]
         /\ \A d \in Clients :
              /\ doc[d] \subseteq doc'[d] /\ base'[d] \in {base[d], {}}
              /\ doc[d] \cup base[d] \cup remote[d] \subseteq doc'[d] \cup base'[d] \cup remote'[d]
<1>1. /\ ready \subseteq Clients /\ skipped \subseteq Clients /\ doc \in [Clients -> SUBSET Edits]
      /\ base \in [Clients -> SUBSET Edits] /\ remote \in [Clients -> SUBSET Edits]
  BY DEF TypeOK
<1>2. CASE EditorReady(c)
  BY <1>1, <1>2 DEF EditorReady, serverVars, countVars
<1>3. CASE Render(c)
  <2> DEFINE fresh == Fresh(c)
  <2>1. fresh \subseteq remote[c] /\ fresh \in SUBSET Edits
    BY <1>1 DEF Fresh
  <2>2. /\ doc' = [doc EXCEPT ![c] = doc[c] \cup base[c] \cup fresh]
        /\ base' = [base EXCEPT ![c] = {}] /\ remote' = [remote EXCEPT ![c] = remote[c] \ fresh]
        /\ UNCHANGED <<server, room, locked, buffer, made, hook, inbox, lost, faults, ready, skipped>>
    BY <1>3 DEF Render, serverVars, countVars
  <2> HIDE DEF fresh
  <2> QED
    BY <1>1, <2>1, <2>2
<1>4. CASE RenderEarly(c)
  BY <1>1, <1>4 DEF RenderEarly, serverVars, editorVars, countVars
<1> QED
  BY <1>2, <1>3, <1>4 DEF Displays

LEMMA TypeStep ==
  ASSUME SyncAssumption, TypeOK, Streams', [Next]_vars
  PROVE  TypeOK'
<1>1. Streams
  BY DEF TypeOK, Streams
<1> SUFFICES /\ server' \subseteq Edits /\ room' \subseteq Clients /\ locked' \in BOOLEAN
             /\ made' \in [Clients -> Nat] /\ lost' \subseteq Edits /\ faults' \in Nat
             /\ doc' \in [Clients -> SUBSET Edits] /\ buffer' \in [Clients -> SUBSET Edits]
             /\ base' \in [Clients -> SUBSET Edits] /\ remote' \in [Clients -> SUBSET Edits]
             /\ ready' \subseteq Clients /\ skipped' \subseteq Clients
  BY DEF TypeOK, Streams
<1>2. ASSUME NEW kind, Fault(kind) PROVE faults' \in Nat
  <2>1. faults \in Nat /\ Weight[kind] \in Nat
    BY <1>2 DEF Fault, SyncAssumption, TypeOK
  <2> QED
    BY <1>2, <2>1 DEF Fault
<1>3. CASE UNCHANGED vars
  BY <1>3 DEF TypeOK, vars, serverVars, editorVars, viewVars, countVars
<1>4. ASSUME NEW c \in Clients, Edit(c) \/ Displays(c) \/ Tick(c) \/ Links(c)
      PROVE  TypeOK'
  <2>1. CASE Edit(c)
    BY <1>1, <2>1, EditIsNew DEF Edit, TypeOK, Streams, serverVars, viewVars, countVars
  <2>2. CASE Displays(c)
    BY <2>2, DisplaysKeep DEF TypeOK
  <2>3. CASE Tick(c) \/ Links(c)
    <3>1. CASE SendYjsUpdate(c)
      BY <1>1, <3>1 DEF SendYjsUpdate, TypeOK, Streams, serverVars, viewVars, countVars
    <3>2. CASE FlightLost(c) \/ RetryTimer(c) \/ Links(c)
      BY <1>1, <3>2 DEF FlightLost, RetryTimer, Links, Connect, Disconnect, TypeOK, Streams,
         serverVars, editorVars, viewVars, countVars
    <3> QED
      BY <2>3, <3>1, <3>2 DEF Tick
  <2> QED
    BY <1>4, <2>1, <2>2, <2>3
<1>5. ASSUME NEW c \in Clients, Serves(c) \/ Reads(c)
      PROVE  TypeOK'
  <2>1. CASE Serves(c)
    BY <1>1, <2>1, HeadsAreTyped DEF Serves, ServerJoins, ServerUpdates, ServerStops, Handles,
       TypeOK, Streams, serverVars, editorVars, viewVars, countVars
  <2>2. CASE Reads(c)
    BY <1>1, <2>2, HeadsAreTyped DEF Reads, JoinAnswer, NoUpdate, JoinRefusal, Acknowledgement, Refusal,
       News, StateUpdate, Receives, TypeOK, Streams, serverVars, editorVars, viewVars, countVars
  <2> QED
    BY <1>5, <2>1, <2>2
<1>6. ASSUME NEW c \in Clients, Disturbs(c)
      PROVE  TypeOK'
  <2>1. faults' \in Nat
    BY <1>2, <1>6 DEF Disturbs, Break, Remount, Reload, ServerRefuses, ServerLimits,
       ServerRejects, Checkpoint, FlightLate
  <2>2. MadeBy(c) \subseteq Edits
    BY DEF MadeBy
  <2> QED
    BY <1>1, <1>6, <2>1, <2>2 DEF Disturbs, Break, Remount, Reload, NoUpdate, ServerRefuses, ServerLimits,
       ServerRejects, Checkpoint, FlightLate, TypeOK, Streams, serverVars, editorVars, viewVars
<1>7. CASE ToggleLock \/ Crash
  BY <1>1, <1>2, <1>7 DEF ToggleLock, Crash, TypeOK, Streams, editorVars, viewVars
<1> QED
  BY <1>3, <1>4, <1>5, <1>6, <1>7 DEF Next, TypeOK

-----------------------------------------------------------------------------
(* Nothing is forgotten, and what a client sends it shows.                 *)

\* h is safe for a document: what it may send is in there.
Own(h, edits) ==
  /\ h.pending \subseteq edits
  /\ \A i \in DOMAIN h.out : h.out[i].edits \subseteq edits

LEMMA PostsOwn ==
  ASSUME NEW h \in Hooks, NEW n \in Hooks, NEW edits, Own(h, edits), Posts(h, n),
         n.pending \subseteq edits
  PROVE  Own(n, edits)
<1>1. CASE n.out = h.out
  BY <1>1 DEF Own
<1>2. CASE n.out = Append(h.out, Update(n.pending))
  <2>1. h.out \in Seq(Requests) /\ Update(n.pending) \in Requests
    BY DEF Hooks, Update, Requests
  <2>2. \A i \in DOMAIN n.out : n.out[i] = Update(n.pending) \/ (i \in DOMAIN h.out /\ n.out[i] = h.out[i])
    BY <1>2, <2>1, AppendAwaits
  <2> QED
    BY <2>2 DEF Own, Update
<1> QED
  BY <1>1, <1>2 DEF Posts

\* What a timer, an answer or a timeout does with the pending update.
LEMMA TimersPost ==
  ASSUME Flights, NEW c \in Clients, FlightLost(c) \/ FlightLate(c) \/ RetryTimer(c)
  PROVE  /\ hook'[c].pending = hook[c].pending /\ hook'[c].link = hook[c].link
         /\ hook'[c].joined = hook[c].joined
         /\ \/ Posts(hook[c], hook'[c])
            \/ Posts([hook[c] EXCEPT !.out = Abandoned(hook[c].out)], hook'[c])
         /\ \A d \in Clients \ {c} : hook'[d] = hook[d]
         /\ \A edits : Own(hook[c], edits) => Own(hook'[c], edits)
<1> DEFINE h == hook[c]
<1>1. h \in Hooks /\ inbox[c] \in Seq(Messages) /\ HookInv(h, inbox[c], Covered)
      /\ hook \in [Clients -> Hooks]
  BY DEF Flights, Streams
<1>2. \A d \in Clients \ {c} : hook'[d] = hook[d]
  BY <1>1 DEF FlightLost, FlightLate, RetryTimer, Shows
<1>3. CASE RetryTimer(c)
  <2>1. hook'[c] = TimerFired(h) /\ hook'[c] \in Hooks /\ Sent(h, hook'[c])
    BY <1>1, <1>3, TimerKeeps DEF RetryTimer, Shows
  <2>2. \A edits : Own(h, edits) => Own(hook'[c], edits)
    BY <1>1, <2>1, PostsOwn DEF Sent, Own
  <2> QED
    BY <1>2, <2>1, <2>2 DEF Sent, Posts
<1>4. CASE FlightLost(c) \/ FlightLate(c)
  <2> DEFINE quiet == [h EXCEPT !.out = Abandoned(h.out)]
             box == Abandoned(inbox[c])
  <2>1. /\ Abandoned(h.out) \in Seq(Requests) /\ DOMAIN Abandoned(h.out) = DOMAIN h.out
        /\ \A i \in DOMAIN h.out : Abandoned(h.out)[i].edits = h.out[i].edits
    <3>1. h.out \in Seq(Requests)
      BY <1>1 DEF Hooks
    <3>2. ASSUME NEW s \in Seq(Requests)
          PROVE  /\ Abandoned(s) \in Seq(Requests) /\ DOMAIN Abandoned(s) = DOMAIN s
                 /\ \A i \in DOMAIN s : Abandoned(s)[i].edits = s[i].edits
      BY AbandonedIsSilent DEF Requests
    <3> QED
      BY <3>1, <3>2
  <2>2. box \in Seq(Messages) /\ ~Awaited(box)
    BY <1>1, AbandonedIsSilent DEF Messages
  <2>3. TimedOut(h) \in Hooks /\ Sent(quiet, TimedOut(h))
    BY <1>1, <2>2, TimedOutKeeps DEF HookInv, FlightMatches
  <2>4. quiet \in Hooks /\ quiet.pending = h.pending /\ quiet.link = h.link
        /\ quiet.joined = h.joined /\ quiet.out = Abandoned(h.out)
    BY <1>1, <2>1 DEF Hooks
  <2>5. \A edits : Own(h, edits) => Own(quiet, edits)
    BY <2>1, <2>4 DEF Own
  <2>6. \A edits : Own(quiet, edits) => Own(TimedOut(h), edits)
    BY <2>3, <2>4, PostsOwn DEF Sent, Own
  <2>7. hook'[c] = TimedOut(h)
    BY <1>1, <1>4 DEF FlightLost, FlightLate, Shows
  <2> QED
    BY <1>2, <2>3, <2>4, <2>5, <2>6, <2>7 DEF Sent, Posts
<1> QED
  BY <1>3, <1>4

LEMMA ReadsPost ==
  ASSUME Flights, NEW c \in Clients, Reads(c)
  PROVE  /\ \/ hook'[c].pending = hook[c].pending
            \/ hook'[c].pending = {} /\ hook[c].pending \subseteq Covered
         /\ hook'[c].link = hook[c].link /\ Posts(hook[c], hook'[c])
         /\ hook'[c].joined => hook[c].joined \/ Receives(c, "joined")
         /\ \A d \in Clients \ {c} : hook'[d] = hook[d]
         /\ \A edits : Own(hook[c], edits) => Own(hook'[c], edits)
<1> DEFINE h == hook[c]  n == hook'[c]
<1>1. h \in Hooks /\ inbox[c] \in Seq(Messages) /\ HookInv(h, inbox[c], Covered)
      /\ hook \in [Clients -> Hooks]
  BY DEF Flights, Streams
<1>2. inbox[c] # << >> /\ Tail(inbox[c]) \in Seq(Messages)
  BY <1>1, TailShifts DEF Reads, JoinAnswer, JoinRefusal, Acknowledgement, Refusal, News,
     StateUpdate, Receives
<1>3. HookInv(h, Tail(inbox[c]), Covered) /\ (Head(inbox[c]).awaited => Silent(h, Tail(inbox[c])))
  BY <1>1, <1>2, ReadKeeps
<1>4. \A d \in Clients \ {c} : hook'[d] = hook[d]
  BY <1>1 DEF Reads, JoinAnswer, JoinRefusal, Acknowledgement, Refusal, News, StateUpdate, Shows
<1>5. ASSUME n \in Hooks, Posts(h, n),
             n.pending = h.pending \/ n.pending = {}
      PROVE  \A edits : Own(h, edits) => Own(n, edits)
  BY <1>1, <1>5, PostsOwn DEF Own
<1>6. ASSUME n = h
      PROVE  /\ n.pending = h.pending /\ n.link = h.link /\ n.joined = h.joined
             /\ \A edits : Own(h, edits) => Own(n, edits)
             /\ Posts(h, n)
  BY <1>6 DEF Posts
<1>7. CASE JoinAnswer(c)
  <2>1. n = Joined(h) /\ Receives(c, "joined")
    BY <1>1, <1>7 DEF JoinAnswer, Shows
  <2> QED
    BY <1>1, <1>3, <1>2, <1>4, <1>5, <2>1, JoinedKeeps DEF Posts
<1>8. CASE JoinRefusal(c)
  <2>1. n = [h EXCEPT !.told = TRUE]
    BY <1>1, <1>8 DEF JoinRefusal, Shows
  <2>2. n.pending = h.pending /\ n.link = h.link /\ n.joined = h.joined /\ n.out = h.out
    BY <1>1, <2>1 DEF Hooks
  <2> QED
    BY <1>4, <2>2 DEF Own, Posts
<1>9. CASE Acknowledgement(c)
  <2>1. CASE Head(inbox[c]).awaited
    <3>1. n = Acked(h)
      BY <1>1, <1>9, <2>1 DEF Acknowledgement, Shows
    <3>2. n \in Hooks /\ Posts(h, n) /\ n.joined = h.joined
          /\ (n.pending = h.pending \/ (h.version = h.sent /\ n.pending = {}))
      BY <1>1, <1>2, <1>3, <2>1, <3>1, AckedKeeps
    <3>3. inbox[c][1].awaited /\ inbox[c][1].kind = "ok" /\ 1 \in DOMAIN inbox[c]
      BY <1>1, <1>2, <1>9, <2>1, TailShifts DEF Acknowledgement, Receives
    <3>4. h.version = h.sent => h.pending \subseteq Covered
      BY <1>1, <3>3 DEF HookInv, FlightMatches
    <3> QED
      BY <1>4, <1>5, <3>2, <3>4 DEF Posts
  <2>2. CASE ~Head(inbox[c]).awaited
    BY <1>4, <1>6, <1>9, <2>2 DEF Acknowledgement
  <2> QED
    BY <2>1, <2>2
<1>10. CASE Refusal(c)
  <2>1. CASE Head(inbox[c]).awaited
    <3>1. n \in {Limited(h), Locked(h), Rejected(h)}
      BY <1>1, <1>10, <2>1 DEF Refusal, Shows
    <3>2. n \in Hooks /\ Sent(h, n)
      BY <1>1, <1>2, <1>3, <2>1, <3>1, RefusedKeeps
    <3> QED
      BY <1>4, <1>5, <3>2 DEF Sent, Posts
  <2>2. CASE ~Head(inbox[c]).awaited
    <3>1. n = h
      BY <1>1, <1>10, <2>2 DEF Refusal, Shows
    <3> QED
      BY <1>4, <1>6, <3>1
  <2> QED
    BY <2>1, <2>2
<1>11. CASE News(c) \/ StateUpdate(c)
  BY <1>4, <1>6, <1>11 DEF News, StateUpdate
<1> QED
  BY <1>7, <1>8, <1>9, <1>10, <1>11 DEF Reads

\* What the connection, the server and a crash do to a client's hook.
LEMMA LinksPost ==
  ASSUME Streams, NEW c \in Clients,
         Connect(c) \/ Break(c) \/ Disconnect(c) \/ Remount(c)
  PROVE  /\ hook'[c].pending = hook[c].pending
         /\ \A d \in Clients \ {c} : hook'[d] = hook[d]
         /\ \A edits : Own(hook[c], edits) => Own(hook'[c], edits)
<1>1. hook[c] \in Hooks /\ hook \in [Clients -> Hooks]
  BY DEF Streams
<1>2. \A d \in Clients \ {c} : hook'[d] = hook[d]
  BY <1>1 DEF Connect, Break, Disconnect, Remount
<1>3. hook'[c].pending = hook[c].pending /\ (hook'[c].out = << >> \/ hook'[c].out = <<Join>>)
  <2>1. CASE Connect(c)
    <3>1. hook'[c] = [hook[c] EXCEPT !.link = "up", !.out = <<Join>>]
      BY <1>1, <2>1 DEF Connect
    <3> QED
      BY <1>1, <3>1 DEF Hooks
  <2>2. CASE Break(c)
    <3>1. hook'[c] = [hook[c] EXCEPT !.link = "dead", !.out = << >>]
      BY <1>1, <2>2 DEF Break
    <3> QED
      BY <1>1, <3>1 DEF Hooks
  <2>3. CASE Disconnect(c)
    <3>1. hook'[c] = [hook[c] EXCEPT !.link = "down", !.joined = FALSE, !.out = << >>]
      BY <1>1, <2>3 DEF Disconnect
    <3> QED
      BY <1>1, <3>1 DEF Hooks
  <2>4. CASE Remount(c)
    <3>1. hook'[c] = [Unmounted EXCEPT !.pending = hook[c].pending,
                                       !.version = hook[c].version, !.told = hook[c].told]
      BY <1>1, <2>4 DEF Remount
    <3> QED
      BY <3>1 DEF Unmounted
  <2> QED
    BY <2>1, <2>2, <2>3, <2>4
<1>4. \A edits : \A i \in DOMAIN hook'[c].out : hook'[c].out[i].edits \subseteq edits
  BY <1>3 DEF Join
<1> QED
  BY <1>2, <1>3, <1>4 DEF Own

ServerActs(c) ==
  \/ ServerJoins(c) \/ ServerRefuses(c) \/ ServerUpdates(c) \/ ServerStops(c)
  \/ ServerLimits(c) \/ ServerRejects(c)

LEMMA ServerPosts ==
  ASSUME Streams, NEW c \in Clients, ServerActs(c)
  PROVE  /\ hook'[c].pending = hook[c].pending /\ hook'[c].link = hook[c].link
         /\ hook'[c].joined = hook[c].joined /\ hook'[c].out = Tail(hook[c].out)
         /\ hook[c].out # << >> /\ hook[c].link = "up"
         /\ \A d \in Clients \ {c} : hook'[d] = hook[d]
         /\ \A edits : Own(hook[c], edits) =>
              Own(hook'[c], edits) /\ Head(hook[c].out).edits \subseteq edits
<1>1. Handled(c) /\ hook[c].out # << >> /\ hook[c].link = "up"
  BY DEF ServerActs, ServerJoins, ServerRefuses, ServerUpdates, ServerStops, ServerLimits,
     ServerRejects, Handles
<1>2. hook[c] \in Hooks /\ hook \in [Clients -> Hooks] /\ hook[c].out \in Seq(Requests)
  BY DEF Streams, Hooks
<1>3. /\ hook'[c].pending = hook[c].pending /\ hook'[c].link = hook[c].link
      /\ hook'[c].joined = hook[c].joined /\ hook'[c].out = Tail(hook[c].out)
      /\ \A d \in Clients \ {c} : hook'[d] = hook[d]
  BY <1>1, <1>2 DEF Handled, Hooks
<1>4. /\ \A i \in DOMAIN Tail(hook[c].out) :
           i + 1 \in DOMAIN hook[c].out /\ Tail(hook[c].out)[i] = hook[c].out[i + 1]
      /\ 1 \in DOMAIN hook[c].out /\ Head(hook[c].out) = hook[c].out[1]
  BY <1>1, <1>2, TailShifts
<1> QED
  BY <1>1, <1>3, <1>4 DEF Own

LEMMA CrashPosts ==
  ASSUME Streams, Crash, NEW c \in Clients
  PROVE  /\ hook'[c].pending = hook[c].pending
         /\ \A edits : Own(hook[c], edits) => Own(hook'[c], edits)
<1>1. hook[c] \in Hooks
  BY DEF Streams
<1>2. hook'[c] = hook[c] \/ (hook'[c].pending = hook[c].pending /\ hook'[c].out = << >>)
  BY <1>1 DEF Crash, Hooks
<1> QED
  BY <1>2 DEF Own

LEMMA QueuedPosts ==
  ASSUME Flights, NEW c \in Clients, buffer \in [Clients -> SUBSET Edits], SendYjsUpdate(c)
  PROVE  /\ hook'[c].pending = hook[c].pending \cup buffer[c] /\ hook'[c].link = hook[c].link
         /\ hook'[c].joined = hook[c].joined /\ Posts(hook[c], hook'[c])
         /\ \A d \in Clients \ {c} : hook'[d] = hook[d]
         /\ \A edits : Own(hook[c], edits) /\ buffer[c] \subseteq edits => Own(hook'[c], edits)
<1>1. hook[c] \in Hooks /\ inbox[c] \in Seq(Messages) /\ HookInv(hook[c], inbox[c], Covered)
      /\ hook \in [Clients -> Hooks]
  BY DEF Flights, Streams
<1>2. hook'[c] = Queued(hook[c], buffer[c]) /\ \A d \in Clients \ {c} : hook'[d] = hook[d]
  BY <1>1 DEF SendYjsUpdate
<1>3. /\ hook'[c] \in Hooks /\ Posts(hook[c], hook'[c]) /\ hook'[c].joined = hook[c].joined
      /\ hook'[c].pending = hook[c].pending \cup buffer[c]
  BY <1>1, <1>2, QueuedKeeps
<1>4. \A edits : Own(hook[c], edits) /\ buffer[c] \subseteq edits => Own(hook'[c], edits)
  BY <1>1, <1>3, PostsOwn DEF Own
<1> QED
  BY <1>2, <1>3, <1>4 DEF Posts

LEMMA ForgottenStep ==
  ASSUME SyncAssumption, TypeOK, Flights, NothingForgotten, [Next]_vars
  PROVE  NothingForgotten'
<1>1. Flights /\ Streams /\ TypeOK /\ NothingForgotten
  BY DEF Flights
<1>2. \A d \in Clients : MadeBy(d) \subseteq Covered \cup hook[d].pending \cup buffer[d]
  BY <1>1 DEF NothingForgotten, Covered
<1> SUFFICES ASSUME NEW d \in Clients
             PROVE  MadeBy(d)' \subseteq Covered' \cup hook'[d].pending \cup buffer'[d]
  BY DEF NothingForgotten, Covered
<1>3. ASSUME Covered \subseteq Covered', UNCHANGED <<made, buffer>>,
             \/ hook[d].pending \subseteq hook'[d].pending
             \/ hook[d].pending \subseteq Covered
      PROVE  MadeBy(d)' \subseteq Covered' \cup hook'[d].pending \cup buffer'[d]
  BY <1>2, <1>3 DEF MadeBy
<1>4. CASE UNCHANGED vars
  BY <1>3, <1>4 DEF vars, serverVars, editorVars, countVars, Covered
<1>5. ASSUME NEW c \in Clients, Edit(c)
      PROVE  MadeBy(d)' \subseteq Covered' \cup hook'[d].pending \cup buffer'[d]
  <2>1. Covered' = Covered /\ hook' = hook /\ made' = [made EXCEPT ![c] = made[c] + 1]
        /\ buffer' = [buffer EXCEPT ![c] = buffer[c] \cup {<<c, made[c] + 1>>}]
        /\ made[c] < Drawn[c]
    BY <1>5 DEF Edit, serverVars, countVars, Covered
  <2>2. CASE d = c
    <3>1. made'[d] = made[c] + 1 /\ buffer'[d] = buffer[c] \cup {<<c, made[c] + 1>>}
      BY <1>1, <2>1, <2>2 DEF TypeOK
    <3>2. MadeBy(d)' \subseteq MadeBy(d) \cup {<<c, made[c] + 1>>}
      BY <1>1, <2>1, <2>2, <3>1, EditIsNew DEF MadeBy
    <3> QED
      BY <1>2, <2>1, <2>2, <3>1, <3>2
  <2>3. CASE d # c
    <3>1. made'[d] = made[d] /\ buffer'[d] = buffer[d]
      BY <1>1, <2>1, <2>3 DEF TypeOK
    <3> QED
      BY <1>2, <2>1, <3>1 DEF MadeBy
  <2> QED
    BY <2>2, <2>3
<1>6. ASSUME NEW c \in Clients, SendYjsUpdate(c)
      PROVE  MadeBy(d)' \subseteq Covered' \cup hook'[d].pending \cup buffer'[d]
  <2>1. /\ hook'[c].pending = hook[c].pending \cup buffer[c]
        /\ \A e \in Clients \ {c} : hook'[e] = hook[e] /\ buffer'[e] = buffer[e]
        /\ made' = made /\ Covered' = Covered
    BY <1>1, <1>6, QueuedPosts DEF TypeOK, SendYjsUpdate, serverVars, countVars, Covered
  <2> QED
    BY <1>2, <2>1 DEF MadeBy
<1>7. ASSUME NEW c \in Clients, Reload(c)
      PROVE  MadeBy(d)' \subseteq Covered' \cup hook'[d].pending \cup buffer'[d]
  <2>1. /\ \A e \in Clients \ {c} : hook'[e] = hook[e] /\ buffer'[e] = buffer[e]
        /\ made' = made /\ Covered' = Covered \cup MadeBy(c)
    BY <1>1, <1>7 DEF TypeOK, Reload, Covered
  <2> QED
    BY <1>2, <2>1 DEF MadeBy
<1>8. ASSUME NEW c \in Clients,
             \/ Displays(c) \/ Checkpoint(c) \/ ToggleLock
      PROVE  MadeBy(d)' \subseteq Covered' \cup hook'[d].pending \cup buffer'[d]
  BY <1>3, <1>8, DisplaysKeep DEF Checkpoint, ToggleLock, serverVars, editorVars, countVars, Covered
<1>9. ASSUME NEW c \in Clients, Connect(c) \/ Break(c) \/ Disconnect(c) \/ Remount(c)
      PROVE  MadeBy(d)' \subseteq Covered' \cup hook'[d].pending \cup buffer'[d]
  <2>1. hook'[d].pending = hook[d].pending
    BY <1>1, <1>9, LinksPost
  <2>2. Covered' = Covered /\ UNCHANGED <<made, buffer>>
    BY <1>9 DEF Connect, Break, Disconnect, Remount, serverVars, editorVars, countVars, Covered
  <2> QED
    BY <1>3, <2>1, <2>2
<1>10. ASSUME NEW c \in Clients, ServerActs(c)
      PROVE  MadeBy(d)' \subseteq Covered' \cup hook'[d].pending \cup buffer'[d]
  <2>1. hook'[d].pending = hook[d].pending
    BY <1>1, <1>10, ServerPosts
  <2>2. Covered \subseteq Covered' /\ UNCHANGED <<made, buffer>>
    BY <1>10 DEF ServerActs, ServerJoins, ServerRefuses, ServerUpdates, ServerStops, ServerLimits,
       ServerRejects, serverVars, editorVars, countVars, Covered
  <2> QED
    BY <1>3, <2>1, <2>2
<1>11. ASSUME NEW c \in Clients, Reads(c)
      PROVE  MadeBy(d)' \subseteq Covered' \cup hook'[d].pending \cup buffer'[d]
  <2>1. hook'[d].pending = hook[d].pending \/ hook[d].pending \subseteq Covered
    BY <1>1, <1>11, ReadsPost
  <2>2. Covered \subseteq Covered' /\ UNCHANGED <<made, buffer>>
    BY <1>11 DEF Reads, JoinAnswer, JoinRefusal, Acknowledgement, Refusal, News, StateUpdate,
       serverVars, editorVars, countVars, Covered
  <2> QED
    BY <1>3, <2>1, <2>2
<1>12. ASSUME NEW c \in Clients, FlightLost(c) \/ FlightLate(c) \/ RetryTimer(c)
      PROVE  MadeBy(d)' \subseteq Covered' \cup hook'[d].pending \cup buffer'[d]
  <2>1. hook'[d].pending = hook[d].pending
    BY <1>1, <1>12, TimersPost
  <2>2. Covered \subseteq Covered' /\ UNCHANGED <<made, buffer>>
    BY <1>12 DEF FlightLost, FlightLate, RetryTimer, serverVars, editorVars, countVars, Covered
  <2> QED
    BY <1>3, <2>1, <2>2
<1>13. ASSUME Crash
      PROVE  MadeBy(d)' \subseteq Covered' \cup hook'[d].pending \cup buffer'[d]
  <2>1. hook'[d].pending = hook[d].pending
    BY <1>1, <1>13, CrashPosts
  <2>2. PICK stored \in SUBSET server : server' = stored /\ lost' = lost \cup (server \ stored)
    BY <1>13 DEF Crash
  <2>3. Covered \subseteq Covered' /\ UNCHANGED <<made, buffer>>
    BY <1>13, <2>2 DEF Crash, editorVars, Covered
  <2> QED
    BY <1>3, <2>1, <2>3
<1> QED
  BY <1>4, <1>5, <1>6, <1>7, <1>8, <1>9, <1>10, <1>11, <1>12, <1>13
     DEF Next, Serves, Tick, Links, Disturbs, ServerActs

-----------------------------------------------------------------------------
(* The two streams and the room fit together.                              *)

LEMMA FitsPosts ==
  ASSUME NEW h \in Hooks, NEW n \in Hooks, NEW box, NEW present \in BOOLEAN,
         Fits(h, box, present), Posts(h, n),
         n.joined => (h.joined \/ (h.link = "up" /\ present))
  PROVE  Fits(n, box, present)
<1>1. CASE n.out = h.out
  BY <1>1 DEF Fits, Posts
<1>2. CASE n.joined /\ n.link # "down" /\ n.out = Append(h.out, Update(n.pending))
  <2>1. h.out \in Seq(Requests) /\ Update(n.pending) \in Requests
    BY DEF Hooks, Update, Requests
  <2>2. \A i \in DOMAIN n.out : n.out[i] = Update(n.pending) \/ (i \in DOMAIN h.out /\ n.out[i] = h.out[i])
    BY <1>2, <2>1, AppendAwaits
  <2>3. Has(n.out, "join") => Has(h.out, "join")
    BY <2>2 DEF Has, Update
  <2> QED
    BY <1>2, <2>3 DEF Fits, Posts
<1> QED
  BY <1>1, <1>2 DEF Posts

LEMMA FitsRead ==
  ASSUME NEW h \in Hooks, NEW box \in Seq(Messages), NEW present \in BOOLEAN,
         Fits(h, box, present), box # << >>
  PROVE  /\ Fits(h, Tail(box), present) /\ h.link = "up" /\ ~Has(h.out, "join")
         /\ Head(box).kind = "joined" => present
<1>1. /\ 1 \in DOMAIN box /\ Head(box) = box[1]
      /\ \A i \in DOMAIN Tail(box) : i + 1 \in DOMAIN box /\ Tail(box)[i] = box[i + 1]
  BY TailShifts
<1>2. \A kind : Has(Tail(box), kind) => Has(box, kind)
  BY <1>1 DEF Has
<1>3. Head(box).kind = "joined" => Has(box, "joined")
  BY <1>1 DEF Has
<1>4. h.link = "up" /\ ~Has(h.out, "join")
  BY DEF Fits
<1> QED
  BY <1>2, <1>3, <1>4 DEF Fits

LEMMA FitsNotice ==
  ASSUME NEW h \in Hooks, NEW box \in Seq(Messages), Fits(h, box, TRUE),
         NEW m \in Messages, m.kind \notin {"joined", "refused"}
  PROVE  Fits(h, Append(box, m), TRUE)
<1>1. \A i \in DOMAIN Append(box, m) :
        Append(box, m)[i] = m \/ (i \in DOMAIN box /\ Append(box, m)[i] = box[i])
  BY AppendAwaits
<1>2. ~Has(Append(box, m), "refused")
  BY <1>1 DEF Has, Fits
<1> QED
  BY <1>2 DEF Fits

\* A request handled and answered: a join decides about the room.
LEMMA FitsAnswer ==
  ASSUME NEW h \in Hooks, NEW box \in Seq(Messages), NEW present \in BOOLEAN,
         Fits(h, box, present), h.link = "up", h.out # << >>,
         NEW m \in Messages, NEW n \in Hooks, n.link = "up", n.joined = h.joined,
         n.out = Tail(h.out), NEW after \in BOOLEAN,
         \/ Head(h.out).kind = "join" /\ m.kind = "joined" /\ after
         \/ Head(h.out).kind = "join" /\ m.kind = "refused" /\ after = present
         \/ Head(h.out).kind = "update" /\ m.kind \notin {"joined", "refused"} /\ after = present
  PROVE  Fits(n, Append(box, m), after)
<1>1. /\ h.out \in Seq(Requests) /\ 1 \in DOMAIN h.out /\ Head(h.out) = h.out[1]
      /\ \A i \in DOMAIN n.out : i + 1 \in DOMAIN h.out /\ n.out[i] = h.out[i + 1]
  BY TailShifts DEF Hooks
<1>2. \A i \in DOMAIN Append(box, m) :
        Append(box, m)[i] = m \/ (i \in DOMAIN box /\ Append(box, m)[i] = box[i])
  BY AppendAwaits
<1>3. CASE Head(h.out).kind = "join"
  <2>1. Len(h.out) = 1 /\ box = << >> /\ ~h.joined /\ ~present
    BY <1>1, <1>3 DEF Has, Fits
  <2>2. n.out = << >>
    BY <1>1, <2>1
  <2>3. DOMAIN n.out = {} /\ DOMAIN box = {}
    <3>1. ASSUME NEW S, NEW s \in Seq(S), s = << >> PROVE DOMAIN s = {}
      BY <3>1
    <3> QED
      BY <2>1, <2>2, <3>1
  <2>4. \A kind : ~Has(n.out, kind) /\ (Has(Append(box, m), kind) => kind = m.kind)
    BY <1>2, <2>3 DEF Has
  <2> QED
    BY <1>3, <2>1, <2>2, <2>4 DEF Fits
<1>4. CASE Head(h.out).kind = "update"
  <2>1. Has(h.out, "update")
    BY <1>1, <1>4 DEF Has
  <2>2. present /\ ~Has(h.out, "join")
    BY <2>1 DEF Fits
  <2>3. ~Has(n.out, "join")
    BY <1>1, <2>2 DEF Has
  <2>4. ~Has(Append(box, m), "refused")
    BY <1>2, <1>4, <2>2 DEF Has, Fits
  <2> QED
    BY <1>4, <2>2, <2>3, <2>4 DEF Fits
<1> QED
  BY <1>3, <1>4

\* A flight that timed out leaves the streams as they are but for who waits.
LEMMA FitsTimedOut ==
  ASSUME NEW h \in Hooks, NEW box \in Seq(Messages), NEW present \in BOOLEAN,
         Fits(h, box, present)
  PROVE  /\ Fits([h EXCEPT !.out = Abandoned(h.out)], box, present)
         /\ Fits([h EXCEPT !.out = Abandoned(h.out)], Abandoned(box), present)
         /\ [h EXCEPT !.out = Abandoned(h.out)] \in Hooks
<1> DEFINE quiet == [h EXCEPT !.out = Abandoned(h.out)]
<1>0. h.out \in Seq(Requests)
  BY DEF Hooks
<1>1. ASSUME NEW s \in Seq(Requests)
      PROVE  /\ Abandoned(s) \in Seq(Requests) /\ DOMAIN Abandoned(s) = DOMAIN s
             /\ \A i \in DOMAIN s : Abandoned(s)[i].kind = s[i].kind
  BY AbandonedIsSilent DEF Requests
<1>2. /\ DOMAIN Abandoned(box) = DOMAIN box
      /\ \A i \in DOMAIN box : Abandoned(box)[i].kind = box[i].kind
  BY AbandonedIsSilent DEF Messages
<1>3. \A kind : (Has(Abandoned(h.out), kind) <=> Has(h.out, kind))
             /\ (Has(Abandoned(box), kind) <=> Has(box, kind))
  BY <1>0, <1>1, <1>2 DEF Has
<1>4. quiet \in Hooks /\ quiet.link = h.link /\ quiet.joined = h.joined
      /\ quiet.out = Abandoned(h.out)
  BY <1>0, <1>1 DEF Hooks
<1>5. Len(Abandoned(h.out)) = Len(h.out)
  BY <1>0, <1>1
<1>6. Abandoned(<< >>) = << >>
  BY DEF Abandoned
<1> QED
  BY <1>3, <1>4, <1>5, <1>6 DEF Fits

LEMMA FitsStep ==
  ASSUME TypeOK, Flights, Flights', StreamsFit, [Next]_vars
  PROVE  StreamsFit'
<1>1. /\ hook \in [Clients -> Hooks] /\ inbox \in [Clients -> Seq(Messages)]
      /\ hook' \in [Clients -> Hooks] /\ room \subseteq Clients /\ Streams
  BY DEF Flights, Streams, TypeOK
<1> SUFFICES ASSUME NEW d \in Clients
             PROVE  Fits(hook'[d], inbox'[d], d \in room')
  BY DEF StreamsFit
<1>2. /\ Fits(hook[d], inbox[d], d \in room) /\ hook[d] \in Hooks /\ hook'[d] \in Hooks
      /\ inbox[d] \in Seq(Messages) /\ (d \in room) \in BOOLEAN
  BY <1>1 DEF StreamsFit
<1>3. CASE hook'[d] = hook[d] /\ inbox'[d] = inbox[d] /\ (d \in room' <=> d \in room)
  BY <1>2, <1>3
<1>4. CASE UNCHANGED vars \/ ToggleLock
  BY <1>3, <1>4 DEF vars, serverVars, ToggleLock
<1>5. ASSUME NEW c \in Clients, Edit(c) \/ Displays(c)
      PROVE  Fits(hook'[d], inbox'[d], d \in room')
  BY <1>3, <1>5, DisplaysKeep DEF Edit, serverVars
<1>6. ASSUME NEW c \in Clients, SendYjsUpdate(c) \/ FlightLost(c) \/ FlightLate(c) \/ RetryTimer(c)
      PROVE  Fits(hook'[d], inbox'[d], d \in room')
  <2>1. /\ hook'[c].joined = hook[c].joined
        /\ \/ Posts(hook[c], hook'[c])
           \/ Posts([hook[c] EXCEPT !.out = Abandoned(hook[c].out)], hook'[c])
        /\ \A e \in Clients \ {c} : hook'[e] = hook[e]
    BY <1>6, QueuedPosts, TimersPost DEF TypeOK
  <2>2. /\ room' = room /\ \A e \in Clients \ {c} : inbox'[e] = inbox[e]
        /\ inbox'[c] = inbox[c] \/ inbox'[c] = Abandoned(inbox[c])
    BY <1>1, <1>6 DEF SendYjsUpdate, FlightLost, FlightLate, RetryTimer, serverVars
  <2>3. CASE d # c
    BY <1>3, <2>1, <2>2, <2>3
  <2>4. CASE d = c
    <3>1. [hook[d] EXCEPT !.out = Abandoned(hook[d].out)].joined = hook[d].joined
      BY <1>2 DEF Hooks
    <3> DEFINE p == d \in room
               quiet == [hook[d] EXCEPT !.out = Abandoned(hook[d].out)]
    <3>2. p \in BOOLEAN /\ Fits(hook[d], inbox[d], p) /\ (p <=> d \in room')
      BY <1>2, <2>2
    <3>3. ASSUME NEW box \in Seq(Messages), Fits(hook[d], box, p), Fits(quiet, box, p), quiet \in Hooks
          PROVE  Fits(hook'[d], box, p)
      <4> HIDE DEF p, quiet
      <4>1. quiet.joined = hook[d].joined
        BY <3>1 DEF quiet
      <4>2. CASE Posts(hook[d], hook'[d])
        BY <1>2, <2>1, <2>4, <3>2, <3>3, <4>2, FitsPosts
      <4>3. CASE Posts(quiet, hook'[d])
        BY <1>2, <2>1, <2>4, <3>2, <3>3, <4>1, <4>3, FitsPosts
      <4> QED
        BY <2>1, <2>4, <4>2, <4>3 DEF quiet
    <3>4. /\ Fits(quiet, inbox[d], p) /\ Fits(quiet, Abandoned(inbox[d]), p) /\ quiet \in Hooks
          /\ Abandoned(inbox[d]) \in Seq(Messages)
      <4> HIDE DEF p
      <4> QED
        BY <1>2, <3>2, FitsTimedOut, AbandonedIsSilent DEF Messages
    <3>5. Fits(hook[d], Abandoned(inbox[d]), p)
      <4> HIDE DEF p
      <4>1. quiet.link = hook[d].link /\ quiet.joined = hook[d].joined
        BY <1>2 DEF Hooks
      <4>2. /\ DOMAIN Abandoned(inbox[d]) = DOMAIN inbox[d]
            /\ \A i \in DOMAIN inbox[d] : Abandoned(inbox[d])[i].kind = inbox[d][i].kind
        BY <1>2, AbandonedIsSilent DEF Messages
      <4>3. \A kind : Has(Abandoned(inbox[d]), kind) <=> Has(inbox[d], kind)
        BY <4>2 DEF Has
      <4>4. inbox[d] = << >> => Abandoned(inbox[d]) = << >>
        BY DEF Abandoned
      <4> QED
        BY <3>2, <4>3, <4>4 DEF Fits
    <3>6. Fits(hook'[d], inbox'[d], p)
      <4> HIDE DEF p, quiet
      <4> QED
        BY <1>2, <2>2, <2>4, <3>2, <3>3, <3>4, <3>5
    <3> QED
      BY <3>2, <3>6
  <2> QED
    BY <2>3, <2>4
<1>7. ASSUME NEW c \in Clients, Reads(c)
      PROVE  Fits(hook'[d], inbox'[d], d \in room')
  <2>1. /\ inbox[c] # << >> /\ room' = room /\ inbox'[c] = Tail(inbox[c])
        /\ \A e \in Clients \ {c} : inbox'[e] = inbox[e]
    BY <1>1, <1>7 DEF Reads, JoinAnswer, JoinRefusal, Acknowledgement, Refusal, News,
       StateUpdate, Receives, Received, serverVars
  <2>2. /\ hook'[c].joined => hook[c].joined \/ Receives(c, "joined")
        /\ Posts(hook[c], hook'[c]) /\ \A e \in Clients \ {c} : hook'[e] = hook[e]
    BY <1>7, ReadsPost
  <2>3. CASE d # c
    BY <1>3, <2>1, <2>2, <2>3
  <2>4. CASE d = c
    <3>1. /\ Fits(hook[d], Tail(inbox[d]), d \in room) /\ hook[d].link = "up"
          /\ Head(inbox[d]).kind = "joined" => d \in room
      BY <1>2, <2>1, <2>4, FitsRead
    <3>2. hook'[d].joined => (hook[d].joined \/ (hook[d].link = "up" /\ d \in room))
      BY <2>2, <2>4, <3>1 DEF Receives
    <3> DEFINE p == d \in room
    <3>3. p \in BOOLEAN /\ Fits(hook[d], Tail(inbox[d]), p) /\ (p <=> d \in room')
          /\ (hook'[d].joined => (hook[d].joined \/ (hook[d].link = "up" /\ p)))
      BY <2>1, <3>1, <3>2
    <3>4. Fits(hook'[d], inbox'[d], p)
      <4> HIDE DEF p
      <4> QED
        BY <1>2, <2>1, <2>2, <2>4, <3>3, FitsPosts
    <3> QED
      BY <3>3, <3>4
  <2> QED
    BY <2>3, <2>4
<1>8. ASSUME NEW c \in Clients, Connect(c) \/ Break(c) \/ Disconnect(c) \/ Remount(c) \/ Reload(c)
      PROVE  Fits(hook'[d], inbox'[d], d \in room')
  <2>1. CASE d # c
    BY <1>1, <1>3, <1>8, <2>1 DEF Connect, Break, Disconnect, Remount, Reload, serverVars
  <2>2. ASSUME NEW n, hook'[d] = n, inbox'[d] = << >>, d \notin room', ~n.joined \/ n.link = "dead",
               \/ n.out = << >>
               \/ n.out = <<Join>> /\ n.link = "up"
        PROVE  Fits(hook'[d], inbox'[d], d \in room')
    <3>1. ~Has(<< >>, "joined") /\ ~Has(<< >>, "update") /\ ~Has(<< >>, "join")
          /\ ~Has(<< >>, "refused")
      BY DEF Has
    <3>2. ~Has(<<Join>>, "update") /\ Len(<<Join>>) = 1
      BY DEF Has, Join
    <3> QED
      BY <2>2, <3>1, <3>2 DEF Fits
  <2>3. CASE d = c /\ Connect(c)
    <3> DEFINE n == [hook[d] EXCEPT !.link = "up", !.out = <<Join>>]
    <3>1. hook'[d] = n /\ inbox'[d] = << >> /\ d \notin room' /\ ~hook[d].joined
      BY <1>1, <1>2, <2>3 DEF Connect, Fits, serverVars
    <3>2. n.out = <<Join>> /\ n.link = "up" /\ n.joined = hook[d].joined
      BY <1>2 DEF Hooks
    <3> QED
      BY <2>2, <3>1, <3>2
  <2>4. CASE d = c /\ Break(c)
    <3> DEFINE n == [hook[d] EXCEPT !.link = "dead", !.out = << >>]
    <3>1. hook'[d] = n /\ inbox'[d] = << >> /\ d \notin room'
      BY <1>1, <2>4 DEF Break
    <3>2. n.out = << >> /\ n.link = "dead"
      BY <1>2 DEF Hooks
    <3> QED
      BY <2>2, <3>1, <3>2
  <2>5. CASE d = c /\ Disconnect(c)
    <3> DEFINE n == [hook[d] EXCEPT !.link = "down", !.joined = FALSE, !.out = << >>]
    <3>1. hook'[d] = n /\ inbox'[d] = << >> /\ d \notin room'
      BY <1>1, <1>2, <2>5 DEF Disconnect, Fits, serverVars
    <3>2. n.out = << >> /\ ~n.joined
      BY <1>2 DEF Hooks
    <3> QED
      BY <2>2, <3>1, <3>2
  <2>6. CASE d = c /\ Remount(c)
    <3> DEFINE n == [Unmounted EXCEPT !.pending = hook[d].pending,
                                      !.version = hook[d].version, !.told = hook[d].told]
    <3>1. hook'[d] = n /\ inbox'[d] = << >> /\ d \notin room'
      BY <1>1, <2>6 DEF Remount
    <3>2. n.out = << >> /\ ~n.joined
      BY DEF Unmounted
    <3> QED
      BY <2>2, <3>1, <3>2
  <2>7. CASE d = c /\ Reload(c)
    <3>1. hook'[d] = Unmounted /\ inbox'[d] = << >> /\ d \notin room'
      BY <1>1, <2>7 DEF Reload
    <3>2. Unmounted.out = << >> /\ ~Unmounted.joined
      BY DEF Unmounted
    <3> QED
      BY <2>2, <3>1, <3>2
  <2> QED
    BY <1>8, <2>1, <2>3, <2>4, <2>5, <2>6, <2>7
<1>9. ASSUME NEW c \in Clients, ServerActs(c)
      PROVE  Fits(hook'[d], inbox'[d], d \in room')
  <2>1. /\ hook'[c].link = "up" /\ hook[c].link = "up" /\ hook'[c].joined = hook[c].joined
        /\ hook'[c].out = Tail(hook[c].out) /\ hook[c].out # << >>
        /\ \A e \in Clients \ {c} : hook'[e] = hook[e]
    BY <1>1, <1>9, ServerPosts
  <2>2. Head(hook[c].out) \in Requests /\ server \subseteq Edits
        /\ hook[c] \in Hooks /\ inbox[c] \in Seq(Messages)
    BY <1>1, <2>1, TailShifts DEF Hooks, TypeOK
  <2>3. \A kind \in {"joined", "refused", "ok", "limited", "locked", "rejected"}, edits \in SUBSET Edits :
          LET m == Answer(kind, edits, Head(hook[c].out)) IN m \in Messages /\ m.kind = kind
    BY <2>2 DEF Answer, Messages, Requests
  <2>4. CASE d = c
    <3>1. ASSUME NEW m \in Messages, inbox'[d] = Append(inbox[d], m),
                 \/ Head(hook[d].out).kind = "join" /\ m.kind = "joined" /\ d \in room'
                 \/ Head(hook[d].out).kind = "join" /\ m.kind = "refused" /\ room' = room
                 \/ Head(hook[d].out).kind = "update" /\ m.kind \notin {"joined", "refused"} /\ room' = room
          PROVE  Fits(hook'[d], inbox'[d], d \in room')
      <4> DEFINE p == d \in room  q == d \in room'
      <4>1. /\ p \in BOOLEAN /\ q \in BOOLEAN /\ Fits(hook[d], inbox[d], p)
            /\ \/ Head(hook[d].out).kind = "join" /\ m.kind = "joined" /\ q
               \/ Head(hook[d].out).kind = "join" /\ m.kind = "refused" /\ q = p
               \/ Head(hook[d].out).kind = "update" /\ m.kind \notin {"joined", "refused"} /\ q = p
        BY <1>2, <3>1
      <4>2. Fits(hook'[d], inbox'[d], q)
        <5> HIDE DEF p, q
        <5> QED
          BY <1>2, <2>1, <2>4, <3>1, <4>1, FitsAnswer
      <4> QED
        BY <4>2
    <3>2. CASE ServerJoins(c)
      <4>1. inbox'[d] = Append(inbox[d], Answer("joined", server, Head(hook[d].out))) /\ d \in room'
            /\ Head(hook[d].out).kind = "join"
        BY <1>1, <2>4, <3>2 DEF ServerJoins, Answers, Handles
      <4> QED
        BY <2>2, <2>3, <2>4, <3>1, <4>1
    <3>3. CASE ServerRefuses(c)
      <4>1. inbox'[d] = Append(inbox[d], Answer("refused", {}, Head(hook[d].out))) /\ room' = room
            /\ Head(hook[d].out).kind = "join"
        BY <1>1, <2>4, <3>3 DEF ServerRefuses, Answers, Handles, serverVars
      <4> QED
        BY <2>2, <2>3, <2>4, <3>1, <4>1
    <3>4. CASE ServerUpdates(c)
      <4>1. inbox'[d] = Append(inbox[d], Answer("ok", server', Head(hook[d].out))) /\ room' = room
            /\ Head(hook[d].out).kind = "update" /\ server' \subseteq Edits
        BY <2>2, <2>4, <3>4 DEF ServerUpdates, Handles, Requests
      <4> QED
        BY <2>2, <2>3, <2>4, <3>1, <4>1
    <3>5. CASE ServerStops(c) \/ ServerLimits(c) \/ ServerRejects(c)
      <4>1. PICK kind \in {"limited", "locked", "rejected"} :
              inbox'[d] = Append(inbox[d], Answer(kind, {}, Head(hook[d].out)))
        BY <1>1, <2>4, <3>5 DEF ServerStops, ServerLimits, ServerRejects, Answers
      <4>2. room' = room /\ Head(hook[d].out).kind = "update"
        BY <2>4, <3>5 DEF ServerStops, ServerLimits, ServerRejects, Handles, serverVars
      <4>3. Answer(kind, {}, Head(hook[d].out)) \in Messages
            /\ Answer(kind, {}, Head(hook[d].out)).kind = kind
        BY <2>3, <2>4
      <4> QED
        BY <3>1, <4>1, <4>2, <4>3
    <3> QED
      BY <1>9, <3>2, <3>3, <3>4, <3>5 DEF ServerActs
  <2>5. CASE d # c
    <3>1. CASE d \in room /\ ServerUpdates(c)
      <4> DEFINE m == Message("news", Head(hook[c].out).edits)
      <4>1. m \in Messages /\ m.kind = "news"
        BY <2>2 DEF Message, Messages, Requests
      <4>2. inbox'[d] = Append(inbox[d], m) /\ room' = room
        BY <2>5, <3>1 DEF ServerUpdates
      <4> QED
        BY <1>2, <2>1, <2>5, <3>1, <4>1, <4>2, FitsNotice
    <3>2. CASE ~(d \in room /\ ServerUpdates(c))
      <4>1. inbox'[d] = inbox[d] /\ (d \in room' <=> d \in room)
        BY <1>1, <1>9, <2>5, <3>2 DEF ServerActs, ServerJoins, ServerRefuses, ServerUpdates,
           ServerStops, ServerLimits, ServerRejects, Answers, serverVars
      <4> QED
        BY <1>3, <2>1, <2>5, <4>1
    <3> QED
      BY <3>1, <3>2
  <2> QED
    BY <2>4, <2>5
<1>10. ASSUME NEW c \in Clients, Checkpoint(c)
      PROVE  Fits(hook'[d], inbox'[d], d \in room')
  <2>1. Message("state", server) \in Messages /\ Message("state", server).kind = "state"
    BY DEF Message, Messages, TypeOK
  <2>2. hook' = hook /\ room' = room
    BY <1>10 DEF Checkpoint, serverVars
  <2>3. CASE d \in room \ {c}
    BY <1>2, <1>10, <2>1, <2>2, <2>3, FitsNotice DEF Checkpoint
  <2>4. CASE d \notin room \ {c}
    BY <1>3, <1>10, <2>2, <2>4 DEF Checkpoint
  <2> QED
    BY <2>3, <2>4
<1>11. CASE Crash
  <2> DEFINE n == [hook[d] EXCEPT !.link = "dead", !.out = << >>]
  <2>1. inbox'[d] = << >> /\ d \notin room' /\ hook'[d] = IF hook[d].link = "up" THEN n ELSE hook[d]
    BY <1>11 DEF Crash
  <2>2. n.link = "dead" /\ n.out = << >>
    BY <1>2 DEF Hooks
  <2>3. ~Has(<< >>, "joined") /\ ~Has(<< >>, "update") /\ ~Has(<< >>, "join")
        /\ ~Has(<< >>, "refused")
    BY DEF Has
  <2> QED
    BY <1>2, <2>1, <2>2, <2>3 DEF Fits
<1> QED
  BY <1>4, <1>5, <1>6, <1>7, <1>8, <1>9, <1>10, <1>11
     DEF Next, Serves, Tick, Links, Disturbs, ServerActs

\* A client shows what it sends: nothing but a reload takes edits off a document.
LEMMA OwnStep ==
  ASSUME SyncAssumption, TypeOK, Flights, OwnAreShown, [Next]_vars
  PROVE  OwnAreShown'
<1>1. Streams /\ doc \in [Clients -> SUBSET Edits] /\ buffer \in [Clients -> SUBSET Edits]
  BY DEF Flights, TypeOK
<1> SUFFICES ASSUME NEW d \in Clients
             PROVE  Own(hook'[d], doc'[d]) /\ buffer'[d] \subseteq doc'[d]
  BY DEF OwnAreShown, Own
<1>2. /\ Own(hook[d], doc[d]) /\ buffer[d] \subseteq doc[d]
      /\ \A more : doc[d] \subseteq more => Own(hook[d], more)
  BY DEF OwnAreShown, Own
<1>3. ASSUME doc[d] \subseteq doc'[d], buffer'[d] \subseteq doc'[d],
             \A edits : (Own(hook[d], edits) /\ buffer[d] \subseteq edits) => Own(hook'[d], edits)
      PROVE  Own(hook'[d], doc'[d]) /\ buffer'[d] \subseteq doc'[d]
  BY <1>2, <1>3
<1>4. ASSUME doc' = doc, buffer' = buffer, NEW c \in Clients,
             \A e \in Clients \ {c} : hook'[e] = hook[e],
             \A edits : Own(hook[c], edits) => Own(hook'[c], edits)
      PROVE  Own(hook'[d], doc'[d]) /\ buffer'[d] \subseteq doc'[d]
  BY <1>2, <1>4
<1>5. CASE UNCHANGED vars \/ ToggleLock
  BY <1>2, <1>5 DEF vars, editorVars, ToggleLock
<1>6. ASSUME NEW c \in Clients, Edit(c) \/ Displays(c)
      PROVE  Own(hook'[d], doc'[d]) /\ buffer'[d] \subseteq doc'[d]
  <2>1. hook' = hook /\ doc[d] \subseteq doc'[d] /\ buffer'[d] \subseteq doc'[d]
    BY <1>1, <1>2, <1>6, DisplaysKeep DEF Edit
  <2> QED
    BY <1>3, <2>1
<1>7. ASSUME NEW c \in Clients, SendYjsUpdate(c)
      PROVE  Own(hook'[d], doc'[d]) /\ buffer'[d] \subseteq doc'[d]
  <2>1. /\ \A e \in Clients \ {c} : hook'[e] = hook[e]
        /\ \A edits : Own(hook[c], edits) /\ buffer[c] \subseteq edits => Own(hook'[c], edits)
    BY <1>1, <1>7, QueuedPosts
  <2>2. doc' = doc /\ buffer'[d] \subseteq buffer[d]
    BY <1>1, <1>7 DEF SendYjsUpdate
  <2>3. doc[d] \subseteq doc'[d] /\ buffer'[d] \subseteq doc'[d]
    BY <1>2, <2>2
  <2> QED
    BY <1>3, <2>1, <2>3
<1>8. ASSUME NEW c \in Clients, Reload(c)
      PROVE  Own(hook'[d], doc'[d]) /\ buffer'[d] \subseteq doc'[d]
  <2>1. CASE d = c
    <3>1. hook'[d] = Unmounted /\ buffer'[d] = {}
      BY <1>1, <1>8, <2>1 DEF Reload, Streams
    <3>2. Unmounted.pending = {} /\ Unmounted.out = << >>
      BY DEF Unmounted
    <3> QED
      BY <3>1, <3>2 DEF Own
  <2>2. CASE d # c
    BY <1>1, <1>2, <1>8, <2>2 DEF Reload, Streams
  <2> QED
    BY <2>1, <2>2
<1>9. ASSUME NEW c \in Clients,
             Connect(c) \/ Break(c) \/ Disconnect(c) \/ Remount(c)
      PROVE  Own(hook'[d], doc'[d]) /\ buffer'[d] \subseteq doc'[d]
  BY <1>1, <1>4, <1>9, LinksPost DEF Connect, Break, Disconnect, Remount, editorVars
<1>10. ASSUME NEW c \in Clients, ServerActs(c)
      PROVE  Own(hook'[d], doc'[d]) /\ buffer'[d] \subseteq doc'[d]
  <2>1. /\ \A e \in Clients \ {c} : hook'[e] = hook[e]
        /\ \A edits : Own(hook[c], edits) => Own(hook'[c], edits)
    BY <1>1, <1>10, ServerPosts
  <2>2. doc' = doc /\ buffer' = buffer
    BY <1>10 DEF ServerActs, ServerJoins, ServerRefuses, ServerUpdates, ServerStops,
       ServerLimits, ServerRejects, editorVars
  <2> QED
    BY <1>4, <2>1, <2>2
<1>11. ASSUME NEW c \in Clients, Reads(c)
      PROVE  Own(hook'[d], doc'[d]) /\ buffer'[d] \subseteq doc'[d]
  <2>1. doc' = doc /\ buffer' = buffer
    BY <1>11 DEF Reads, JoinAnswer, JoinRefusal, Acknowledgement, Refusal, News, StateUpdate,
       editorVars
  <2> QED
    BY <1>4, <1>11, <2>1, ReadsPost
<1>12. ASSUME NEW c \in Clients, FlightLost(c) \/ FlightLate(c) \/ RetryTimer(c)
      PROVE  Own(hook'[d], doc'[d]) /\ buffer'[d] \subseteq doc'[d]
  <2>1. doc' = doc /\ buffer' = buffer
    BY <1>12 DEF FlightLost, FlightLate, RetryTimer, editorVars
  <2> QED
    BY <1>4, <1>12, <2>1, TimersPost
<1>13. ASSUME NEW c \in Clients, Checkpoint(c)
      PROVE  Own(hook'[d], doc'[d]) /\ buffer'[d] \subseteq doc'[d]
  BY <1>2, <1>13 DEF Checkpoint, editorVars
<1>14. CASE Crash
  <2>1. \A edits : Own(hook[d], edits) => Own(hook'[d], edits)
    BY <1>1, <1>14, CrashPosts
  <2> QED
    BY <1>2, <1>14, <2>1 DEF Crash, editorVars
<1> QED
  BY <1>5, <1>6, <1>7, <1>8, <1>9, <1>10, <1>11, <1>12, <1>13, <1>14
     DEF Next, Serves, Tick, Links, Disturbs, ServerActs

-----------------------------------------------------------------------------
(* What a client in the room holds, and what is on its way to it.          *)

Whole(box, shown, held, merged, state) ==
  Grows(box, held, state) /\ Complete(box, shown, held \cup merged, state)

\* A message is appended; the server's document may grow by news or by what
\* the client shows.
LEMMA WholeAppend ==
  ASSUME NEW box \in Seq(Messages), NEW shown, NEW held, NEW merged, NEW state,
         Whole(box, shown, held, merged, state), NEW m \in Messages, NEW after,
         state \subseteq after, m.kind # "joined", IsFull(m) => m.edits = after,
         \A e \in after : e \in state \/ e \in shown \/ (m.kind = "news" /\ e \in m.edits)
  PROVE  Whole(Append(box, m), shown, held, merged, after)
<1>1. /\ DOMAIN box = 1..Len(box) /\ Len(box) \in Nat
      /\ DOMAIN Append(box, m) = 1..(Len(box) + 1) /\ Append(box, m)[Len(box) + 1] = m
      /\ \A i \in DOMAIN box : Append(box, m)[i] = box[i]
  BY AppendAwaits
<1>2. /\ \A i \in DOMAIN Append(box, m) :
           \/ i \in DOMAIN box /\ Append(box, m)[i] = box[i]
           \/ i = Len(box) + 1 /\ Append(box, m)[i] = m
      /\ Len(box) + 1 \in DOMAIN Append(box, m)
      /\ \A i \in DOMAIN box : i \in DOMAIN Append(box, m) /\ ~(Len(box) + 1 < i)
  BY <1>1
<1>3. Has(Append(box, m), "joined") <=> Has(box, "joined")
  BY <1>1, <1>2 DEF Has
<1>4. \A i, j \in DOMAIN Append(box, m) :
        IsFull(Append(box, m)[i]) /\ IsFull(Append(box, m)[j]) /\ i < j =>
          Append(box, m)[i].edits \subseteq Append(box, m)[j].edits
  <2>1. ASSUME NEW i \in DOMAIN Append(box, m), NEW j \in DOMAIN Append(box, m),
               IsFull(Append(box, m)[i]), IsFull(Append(box, m)[j]), i < j
        PROVE  Append(box, m)[i].edits \subseteq Append(box, m)[j].edits
    <3>1. i \in DOMAIN box /\ Append(box, m)[i] = box[i]
      BY <1>1, <2>1
    <3>2. box[i].edits \subseteq state
      BY <2>1, <3>1 DEF Whole, Grows
    <3>3. CASE j \in DOMAIN box
      BY <1>1, <2>1, <3>1, <3>3 DEF Whole, Grows
    <3>4. CASE j = Len(box) + 1
      BY <1>1, <2>1, <3>1, <3>2, <3>4
    <3> QED
      BY <1>2, <3>3, <3>4
  <2> QED
    BY <2>1
<1>5. \A i \in DOMAIN Append(box, m) :
        /\ Append(box, m)[i].kind = "joined" => i = 1
        /\ IsFull(Append(box, m)[i]) => Append(box, m)[i].edits \subseteq after
  BY <1>2 DEF Whole, Grows
<1>6. ~Has(box, "joined") => /\ held \subseteq after
                             /\ \A i \in DOMAIN Append(box, m) :
                                  IsFull(Append(box, m)[i]) => held \subseteq Append(box, m)[i].edits
  BY <1>2 DEF Whole, Grows
<1>7. Grows(Append(box, m), held, after)
  BY <1>3, <1>4, <1>5, <1>6 DEF Grows
<1>8. \A e : /\ Coming(box, e) => Coming(Append(box, m), e)
             /\ (m.kind = "news" /\ e \in m.edits) => Coming(Append(box, m), e)
  BY <1>1, <1>2 DEF Coming
<1>9. Complete(Append(box, m), shown, held \cup merged, after)
  <2> SUFFICES ASSUME NEW e \in after
               PROVE  /\ e \in shown \cup (held \cup merged) \/ Coming(Append(box, m), e)
                      /\ Has(box, "joined") => e \in shown \/ Coming(Append(box, m), e)
    BY <1>3 DEF Complete
  <2> DEFINE before == Coming(box, e)  now == Coming(Append(box, m), e)  first == Has(box, "joined")
  <2>1. before => now
    BY <1>8
  <2>2. e \in m.edits => (m.kind = "news" => now)
    BY <1>8
  <2>3. e \in state => /\ e \in shown \/ e \in (held \cup merged) \/ before
                       /\ first => (e \in shown \/ before)
    BY DEF Whole, Complete
  <2>4. (e \in shown \/ e \in (held \cup merged) \/ now) /\ (first => (e \in shown \/ now))
    <3> HIDE DEF before, now, first
    <3> QED
      BY <2>1, <2>2, <2>3
  <2> QED
    BY <2>4
<1> QED
  BY <1>7, <1>9 DEF Whole

\* The join's answer starts the stream.
LEMMA WholeJoin ==
  ASSUME NEW m \in Messages, m.kind = "joined", NEW shown, NEW held, NEW merged,
         NEW box \in Seq(Messages), box = << >>
  PROVE  Whole(Append(box, m), shown, held, merged, m.edits)
<1>1. DOMAIN Append(box, m) = {1} /\ Append(box, m)[1] = m
  BY AppendAwaits
<1>2. Has(Append(box, m), "joined") /\ \A e \in m.edits : Coming(Append(box, m), e)
  BY <1>1 DEF Has, Coming
<1>3. ~(1 < 1)
  OBVIOUS
<1> QED
  BY <1>1, <1>2, <1>3 DEF Whole, Grows, Complete

\* A message is read: a full one is held instead, a new one merged.
LEMMA WholeRead ==
  ASSUME NEW box \in Seq(Messages), NEW shown, NEW held, NEW merged, NEW state,
         Whole(box, shown, held, merged, state), box # << >>,
         NEW kept, NEW more,
         \/ Head(box).kind = "joined" /\ kept = Head(box).edits
         \/ Head(box).kind \in {"ok", "state"} /\ kept = Head(box).edits /\ more = merged
         \/ Head(box).kind = "news" /\ kept = held /\ more = merged \cup Head(box).edits
         \/ Head(box).kind \notin {"joined", "news"} /\ kept = held /\ more = merged
  PROVE  Whole(Tail(box), shown, kept, more, state)
<1>1. /\ 1 \in DOMAIN box /\ Head(box) = box[1]
      /\ \A i \in DOMAIN Tail(box) :
           i + 1 \in DOMAIN box /\ Tail(box)[i] = box[i + 1] /\ 1 < i + 1 /\ i \in Nat
      /\ \A i \in DOMAIN box : i = 1 \/ \E j \in DOMAIN Tail(box) : i = j + 1
  <2>1. /\ Len(box) \in Nat \ {0} /\ DOMAIN box = 1..Len(box)
        /\ DOMAIN Tail(box) = 1..(Len(box) - 1) /\ Head(box) = box[1]
        /\ \A i \in 1..(Len(box) - 1) : Tail(box)[i] = box[i + 1]
    BY TailShifts
  <2>2. ASSUME NEW i \in DOMAIN box, i # 1
        PROVE  \E j \in DOMAIN Tail(box) : i = j + 1
    <3>1. i - 1 \in DOMAIN Tail(box) /\ i = (i - 1) + 1
      BY <2>1, <2>2
    <3> QED
      BY <3>1
  <2> QED
    BY <2>1, <2>2
<1>2. /\ \A i \in DOMAIN Tail(box) : Tail(box)[i].kind # "joined"
      /\ ~Has(Tail(box), "joined")
  BY <1>1 DEF Whole, Grows, Has
<1>3. \A i \in DOMAIN Tail(box) : IsFull(Tail(box)[i]) => Tail(box)[i].edits \subseteq state
  BY <1>1 DEF Whole, Grows
<1>4. \A i, j \in DOMAIN Tail(box) :
        IsFull(Tail(box)[i]) /\ IsFull(Tail(box)[j]) /\ i < j =>
          Tail(box)[i].edits \subseteq Tail(box)[j].edits
  <2>1. \A i, j \in DOMAIN Tail(box) : i < j => i + 1 < j + 1
    BY <1>1
  <2> QED
    BY <1>1, <2>1 DEF Whole, Grows
<1>5. Head(box).kind # "joined" => ~Has(box, "joined")
  BY <1>1 DEF Whole, Grows, Has
<1>6. kept \subseteq state /\ \A i \in DOMAIN Tail(box) :
        IsFull(Tail(box)[i]) => kept \subseteq Tail(box)[i].edits
  <2>1. CASE IsFull(Head(box)) /\ kept = Head(box).edits
    BY <1>1, <2>1 DEF Whole, Grows
  <2>2. CASE Head(box).kind # "joined" /\ kept = held
    BY <1>1, <1>5, <2>2 DEF Whole, Grows
  <2> QED
    BY <2>1, <2>2 DEF IsFull
<1>7. Grows(Tail(box), kept, state)
  BY <1>2, <1>3, <1>4, <1>6 DEF Grows
<1>8. \A e : Coming(box, e) =>
        Coming(Tail(box), e) \/ (Head(box).kind \in {"joined", "news"} /\ e \in Head(box).edits)
  BY <1>1 DEF Coming
<1>9. Complete(Tail(box), shown, kept \cup more, state)
  <2> SUFFICES ASSUME NEW e \in state
               PROVE  e \in shown \cup (kept \cup more) \/ Coming(Tail(box), e)
    BY <1>2 DEF Complete
  <2>1. /\ e \in shown \cup (held \cup merged) \/ Coming(box, e)
        /\ Has(box, "joined") => e \in shown \/ Coming(box, e)
    BY DEF Whole, Complete
  <2>2. CASE Head(box).kind = "joined"
    <3>1. Has(box, "joined")
      BY <1>1, <2>2 DEF Has
    <3> QED
      BY <1>8, <2>1, <2>2, <3>1
  <2>3. CASE Head(box).kind = "news"
    BY <1>8, <2>1, <2>3
  <2>4. CASE Head(box).kind \notin {"joined", "news"}
    <3>1. held \subseteq kept
      BY <1>1, <1>5, <2>4 DEF Whole, Grows, IsFull
    <3> QED
      BY <1>8, <2>1, <2>4, <3>1
  <2> QED
    BY <2>2, <2>3, <2>4
<1> QED
  BY <1>7, <1>9 DEF Whole

\* Who waits for a message does not matter.
LEMMA WholeAbandoned ==
  ASSUME NEW box \in Seq(Messages), NEW shown, NEW held, NEW merged, NEW state,
         Whole(box, shown, held, merged, state)
  PROVE  Whole(Abandoned(box), shown, held, merged, state)
<1>1. /\ DOMAIN Abandoned(box) = DOMAIN box
      /\ \A i \in DOMAIN box :
           Abandoned(box)[i].kind = box[i].kind /\ Abandoned(box)[i].edits = box[i].edits
  BY AbandonedIsSilent DEF Messages
<1>2. \A kind : Has(Abandoned(box), kind) <=> Has(box, kind)
  BY <1>1 DEF Has
<1>3. \A e : Coming(Abandoned(box), e) <=> Coming(box, e)
  BY <1>1 DEF Coming
<1>4. \A i \in DOMAIN box : IsFull(Abandoned(box)[i]) <=> IsFull(box[i])
  BY <1>1 DEF IsFull
<1>5. Grows(Abandoned(box), held, state)
  BY <1>1, <1>2, <1>4 DEF Whole, Grows
<1> QED
  BY <1>2, <1>3, <1>5 DEF Whole, Complete

Served == \A c \in room : Whole(inbox[c], doc[c], base[c], remote[c], server)

LEMMA ServedIs == Served <=> StatesGrow /\ NothingSkipped
  BY DEF Served, Whole, StatesGrow, NothingSkipped

LEMMA ServedStep ==
  ASSUME TypeOK, Flights, StreamsFit, OwnAreShown, Served, [Next]_vars
  PROVE  Served'
<1>1. /\ Streams /\ inbox \in [Clients -> Seq(Messages)] /\ hook \in [Clients -> Hooks]
      /\ doc \in [Clients -> SUBSET Edits] /\ base \in [Clients -> SUBSET Edits]
      /\ remote \in [Clients -> SUBSET Edits] /\ room \subseteq Clients /\ server \subseteq Edits
  BY DEF Flights, Streams, TypeOK
<1> SUFFICES ASSUME NEW d \in Clients, d \in room'
             PROVE  Whole(inbox'[d], doc'[d], base'[d], remote'[d], server')
  <2>1. room' \subseteq Clients
    BY <1>1, DisplaysKeep DEF Next, Edit, Serves, Reads, Tick, Links, Disturbs, ServerJoins, ServerUpdates,
       ServerStops, JoinAnswer, NoUpdate, JoinRefusal, Acknowledgement, Refusal, News, StateUpdate,
       SendYjsUpdate, FlightLost, RetryTimer, Connect, Disconnect, Break, Remount, Reload,
       ServerRefuses, ServerLimits, ServerRejects, Checkpoint, FlightLate, ToggleLock,
       Crash, vars, serverVars
  <2> QED
    BY <2>1 DEF Served
<1>2. d \in room => Whole(inbox[d], doc[d], base[d], remote[d], server)
  BY DEF Served
<1>3. CASE UNCHANGED <<server, room, inbox, doc, base, remote>>
  BY <1>2, <1>3
<1>4. CASE UNCHANGED vars \/ ToggleLock
  BY <1>3, <1>4 DEF vars, serverVars, editorVars, viewVars, ToggleLock
<1>5. ASSUME NEW c \in Clients,
             SendYjsUpdate(c) \/ FlightLost(c) \/ RetryTimer(c) \/ Connect(c) \/ Disconnect(c)
      PROVE  Whole(inbox'[d], doc'[d], base'[d], remote'[d], server')
  BY <1>3, <1>5 DEF SendYjsUpdate, FlightLost, RetryTimer, Connect, Disconnect,
     serverVars, editorVars, viewVars
<1>6. ASSUME NEW c \in Clients, Break(c) \/ Remount(c) \/ Reload(c)
      PROVE  Whole(inbox'[d], doc'[d], base'[d], remote'[d], server')
  BY <1>1, <1>2, <1>6 DEF Break, Remount, Reload, NoUpdate, editorVars, viewVars
<1>7. ASSUME NEW c \in Clients, Edit(c) \/ Displays(c)
      PROVE  Whole(inbox'[d], doc'[d], base'[d], remote'[d], server')
  <2>1. /\ server' = server /\ d \in room /\ inbox' = inbox /\ doc[d] \subseteq doc'[d]
        /\ base'[d] \in {base[d], {}}
        /\ doc[d] \cup base[d] \cup remote[d] \subseteq doc'[d] \cup base'[d] \cup remote'[d]
    BY <1>1, <1>7, DisplaysKeep DEF Edit, serverVars, viewVars
  <2>2. Grows(inbox[d], base'[d], server)
    BY <1>2, <2>1 DEF Whole, Grows
  <2>3. Complete(inbox[d], doc'[d], base'[d] \cup remote'[d], server)
    BY <1>2, <2>1 DEF Whole, Complete
  <2> QED
    BY <2>1, <2>2, <2>3 DEF Whole
<1>8. ASSUME NEW c \in Clients, FlightLate(c)
      PROVE  Whole(inbox'[d], doc'[d], base'[d], remote'[d], server')
  <2>1. UNCHANGED <<server, room, doc, base, remote>>
        /\ inbox'[d] \in {inbox[d], Abandoned(inbox[d])}
    BY <1>1, <1>8 DEF FlightLate, serverVars, editorVars, viewVars
  <2> QED
    BY <1>1, <1>2, <2>1, WholeAbandoned
<1>9. ASSUME NEW c \in Clients, Reads(c)
      PROVE  Whole(inbox'[d], doc'[d], base'[d], remote'[d], server')
  <2>1. UNCHANGED <<server, room, doc>> /\ inbox[c] # << >> /\ inbox'[c] = Tail(inbox[c])
    BY <1>1, <1>9 DEF Reads, JoinAnswer, NoUpdate, JoinRefusal, Acknowledgement, Refusal, News,
       StateUpdate, Receives, Received, serverVars, editorVars
  <2>2. CASE d # c
    <3>1. inbox'[d] = inbox[d] /\ base'[d] = base[d] /\ remote'[d] = remote[d]
      BY <1>1, <1>9, <2>2 DEF Reads, JoinAnswer, NoUpdate, JoinRefusal, Acknowledgement, Refusal, News,
         StateUpdate, Received, viewVars
    <3> QED
      BY <1>2, <2>1, <3>1
  <2>3. CASE d = c
    <3>1. Head(inbox[d]).kind # "refused"
      <4>1. 1 \in DOMAIN inbox[d] /\ Head(inbox[d]) = inbox[d][1]
        BY <1>1, <2>1, <2>3, TailShifts
      <4> QED
        BY <2>1, <4>1 DEF StreamsFit, Fits, Has
    <3>2. \/ Head(inbox[d]).kind = "joined" /\ base'[d] = Head(inbox[d]).edits
          \/ /\ Head(inbox[d]).kind \in {"ok", "state"} /\ base'[d] = Head(inbox[d]).edits
             /\ remote'[d] = remote[d]
          \/ /\ Head(inbox[d]).kind = "news" /\ base'[d] = base[d]
             /\ remote'[d] = remote[d] \cup Head(inbox[d]).edits
          \/ /\ Head(inbox[d]).kind \notin {"joined", "news"} /\ base'[d] = base[d]
             /\ remote'[d] = remote[d]
      BY <1>1, <1>9, <2>3, <3>1 DEF Reads, JoinAnswer, NoUpdate, JoinRefusal, Acknowledgement, Refusal,
         News, StateUpdate, Receives, viewVars
    <3>3. Whole(Tail(inbox[d]), doc[d], base'[d], remote'[d], server)
      <4> DEFINE kept == base'[d]  more == remote'[d]
      <4>1. /\ Whole(inbox[d], doc[d], base[d], remote[d], server)
            /\ inbox[d] \in Seq(Messages) /\ inbox[d] # << >>
        BY <1>1, <1>2, <2>1, <2>3
      <4>2. \/ Head(inbox[d]).kind = "joined" /\ kept = Head(inbox[d]).edits
            \/ Head(inbox[d]).kind \in {"ok", "state"} /\ kept = Head(inbox[d]).edits /\ more = remote[d]
            \/ Head(inbox[d]).kind = "news" /\ kept = base[d] /\ more = remote[d] \cup Head(inbox[d]).edits
            \/ Head(inbox[d]).kind \notin {"joined", "news"} /\ kept = base[d] /\ more = remote[d]
        BY <3>2
      <4> HIDE DEF kept, more
      <4>3. Whole(Tail(inbox[d]), doc[d], kept, more, server)
        BY <4>1, <4>2, WholeRead
      <4> QED
        BY <4>3 DEF kept, more
    <3> QED
      BY <2>1, <2>3, <3>3
  <2> QED
    BY <2>2, <2>3
<1>10. CASE Crash
  BY <1>10 DEF Crash
<1>11. ASSUME NEW c \in Clients, Checkpoint(c)
      PROVE  Whole(inbox'[d], doc'[d], base'[d], remote'[d], server')
  <2> DEFINE m == Message("state", server)
  <2>1. m \in Messages /\ m.kind = "state" /\ m.edits = server
    BY <1>1 DEF Message, Messages
  <2>2. UNCHANGED <<server, room, doc, base, remote>>
        /\ inbox'[d] \in {inbox[d], Append(inbox[d], m)}
    BY <1>1, <1>11 DEF Checkpoint, serverVars, editorVars, viewVars
  <2>3. Whole(Append(inbox[d], m), doc[d], base[d], remote[d], server)
    <3> HIDE DEF m
    <3> QED
      BY <1>1, <1>2, <2>1, <2>2, WholeAppend
  <2> QED
    BY <1>2, <2>2, <2>3
<1>12. ASSUME NEW c \in Clients, ServerActs(c)
      PROVE  Whole(inbox'[d], doc'[d], base'[d], remote'[d], server')
  <2>1. /\ hook[c].out # << >> /\ UNCHANGED <<doc, base, remote>>
        /\ 1 \in DOMAIN hook[c].out /\ Head(hook[c].out) = hook[c].out[1]
        /\ Head(hook[c].out) \in Requests /\ hook[c].out \in Seq(Requests)
    <3>1. hook[c].out # << >> /\ UNCHANGED <<doc, base, remote>>
      BY <1>12 DEF ServerActs, ServerJoins, ServerRefuses, ServerUpdates, ServerStops,
         ServerLimits, ServerRejects, Handles, editorVars, viewVars
    <3>2. hook[c].out \in Seq(Requests)
      BY <1>1 DEF Hooks
    <3> QED
      BY <3>1, <3>2, TailShifts
  <2>2. Head(hook[c].out).kind = "join" => inbox[c] = << >> /\ c \notin room
    BY <2>1 DEF StreamsFit, Fits, Has
  <2>3. Head(hook[c].out).edits \subseteq doc[c] /\ Head(hook[c].out).edits \subseteq Edits
    BY <2>1 DEF OwnAreShown, Requests
  <2>4. ASSUME NEW m \in Messages, inbox'[d] = Append(inbox[d], m), d \in room, m.kind # "joined",
               server \subseteq server', IsFull(m) => m.edits = server',
               \A e \in server' : e \in server \/ e \in doc[d] \/ (m.kind = "news" /\ e \in m.edits)
        PROVE  Whole(inbox'[d], doc'[d], base'[d], remote'[d], server')
    BY <1>1, <1>2, <2>1, <2>4, WholeAppend
  <2>5. CASE ServerJoins(c) /\ d = c
    <3> DEFINE m == Answer("joined", server, Head(hook[c].out))
    <3>1. m \in Messages /\ m.kind = "joined" /\ m.edits = server
      BY <1>1, <2>1 DEF Answer, Messages, Requests
    <3>2. inbox'[d] = Append(inbox[d], m) /\ server' = server /\ inbox[d] = << >>
      BY <1>1, <2>2, <2>5 DEF ServerJoins, Answers, Handles
    <3>3. Whole(Append(inbox[d], m), doc[d], base[d], remote[d], server)
      <4> HIDE DEF m
      <4> QED
        BY <1>1, <3>1, <3>2, WholeJoin
    <3> QED
      BY <2>1, <3>2, <3>3
  <2>6. CASE ServerRefuses(c) /\ d = c
    BY <2>2, <2>6 DEF ServerRefuses, Handles, serverVars
  <2>7. CASE ServerUpdates(c) /\ d = c
    <3> DEFINE m == Answer("ok", server', Head(hook[c].out))
    <3>1. server' = server \cup Head(hook[c].out).edits /\ server' \subseteq Edits /\ d \in room
          /\ inbox'[d] = Append(inbox[d], m)
      BY <1>1, <2>3, <2>7 DEF ServerUpdates
    <3>2. m \in Messages /\ m.kind = "ok" /\ m.edits = server'
      BY <2>1, <3>1 DEF Answer, Messages, Requests
    <3> QED
      BY <2>3, <2>4, <2>7, <3>1, <3>2
  <2>8. CASE (ServerStops(c) \/ ServerLimits(c) \/ ServerRejects(c)) /\ d = c
    <3>1. PICK kind \in {"limited", "locked", "rejected"} :
            inbox'[d] = Append(inbox[d], Answer(kind, {}, Head(hook[c].out)))
      BY <1>1, <2>8 DEF ServerStops, ServerLimits, ServerRejects, Answers
    <3> DEFINE m == Answer(kind, {}, Head(hook[c].out))
    <3>2. m \in Messages /\ m.kind = kind /\ ~IsFull(m) /\ m.kind # "joined"
      BY <2>1, <3>1 DEF Answer, Messages, Requests, IsFull
    <3>3. server' = server /\ d \in room
      BY <2>8 DEF ServerStops, ServerLimits, ServerRejects, serverVars
    <3> QED
      BY <2>4, <3>1, <3>2, <3>3
  <2>9. CASE ServerUpdates(c) /\ d # c /\ d \in room
    <3> DEFINE m == Message("news", Head(hook[c].out).edits)
    <3>1. m \in Messages /\ m.kind = "news" /\ m.edits = Head(hook[c].out).edits /\ ~IsFull(m)
      BY <2>1 DEF Message, Messages, Requests, IsFull
    <3>2. server' = server \cup m.edits /\ inbox'[d] = Append(inbox[d], m)
      BY <2>9 DEF ServerUpdates, Message
    <3> QED
      BY <2>4, <2>9, <3>1, <3>2
  <2>10. CASE d # c /\ ~(ServerUpdates(c) /\ d \in room)
    <3>1. d \in room /\ inbox'[d] = inbox[d] /\ server' = server
      BY <1>1, <1>12, <2>10 DEF ServerActs, ServerJoins, ServerRefuses, ServerUpdates,
         ServerStops, ServerLimits, ServerRejects, Answers, serverVars
    <3> QED
      BY <1>2, <2>1, <3>1
  <2> QED
    BY <1>12, <2>5, <2>6, <2>7, <2>8, <2>9, <2>10 DEF ServerActs
<1> QED
  BY <1>4, <1>5, <1>6, <1>7, <1>8, <1>9, <1>10, <1>11, <1>12
     DEF Next, Serves, Tick, Links, Disturbs, ServerActs

-----------------------------------------------------------------------------
(* The theorems.                                                           *)

Inductive == TypeOK /\ Flights /\ StreamsFit /\ NothingForgotten /\ OwnAreShown /\ Served

LEMMA InductiveIs == IInv <=> Inductive
  BY ServedIs DEF IInv, Inductive, TypeOK, FlightsAreSafe, Flights, Streams, HookInv

LEMMA Initially == SyncAssumption /\ Init => Inductive
<1> SUFFICES ASSUME SyncAssumption, Init PROVE Inductive
  OBVIOUS
<1>1. Unmounted \in Hooks /\ \A c \in Clients : inbox[c] = << >> /\ hook[c] = Unmounted
  BY DEF Init, Unmounted, Hooks
<1>2. TypeOK /\ Streams
  <2>1. hook \in [Clients -> Hooks] /\ inbox \in [Clients -> Seq(Messages)]
    BY <1>1 DEF Init
  <2>2. made \in [Clients -> Nat] /\ faults \in Nat /\ None \in [Clients -> SUBSET Edits]
    BY DEF Init, None
  <2> QED
    BY <2>1, <2>2 DEF Init, TypeOK, Streams
<1>3. /\ Unmounted.pending = {} /\ Unmounted.out = << >> /\ ~Unmounted.handle
      /\ ~Unmounted.joined /\ Unmounted.link = "down"
  BY DEF Unmounted
<1>4. HookInv(Unmounted, << >>, Covered) /\ Fits(Unmounted, << >>, FALSE) /\ Own(Unmounted, {})
  BY <1>3 DEF HookInv, OneAwaited, FlightMatches, TimersCounted, Awaited, Fits, Has, Own
<1>5. NothingForgotten
  <2>1. ASSUME NEW c \in Clients PROVE MadeBy(c) = {}
    <3>1. made[c] = 0
      BY DEF Init
    <3>2. ASSUME NEW e \in Edits PROVE ~(e[2] <= 0)
      <4>1. PICK d \in Clients : e \in {d} \X (1..Drawn[d])
        BY DEF Edits
      <4>2. e[2] \in 1..Drawn[d] /\ Drawn[d] \in Nat
        BY <4>1 DEF SyncAssumption
      <4> QED
        BY <4>2
    <3> QED
      BY <3>1, <3>2 DEF MadeBy
  <2> QED
    BY <2>1 DEF NothingForgotten
<1>6. OwnAreShown
  BY <1>1, <1>4 DEF OwnAreShown, Own, Init, None
<1>7. StreamsFit /\ Served
  BY <1>1, <1>3 DEF StreamsFit, Fits, Has, Served, Init
<1> QED
  BY <1>1, <1>2, <1>4, <1>5, <1>6, <1>7 DEF Inductive, Flights

LEMMA Preserved == SyncAssumption /\ Inductive /\ [Next]_vars => Inductive'
<1> SUFFICES ASSUME SyncAssumption, Inductive, [Next]_vars PROVE Inductive'
  OBVIOUS
<1>1. Flights'
  BY FlightsStep DEF Inductive
<1>2. TypeOK'
  BY <1>1, TypeStep DEF Inductive, Flights
<1> QED
  BY <1>1, <1>2, ForgottenStep, OwnStep, FitsStep, ServedStep DEF Inductive

LEMMA Invariant == Spec => []Inductive
<1>1. Init => Inductive
  BY SyncAssumption, Initially
<1>2. Inductive /\ [Next]_vars => Inductive'
  BY SyncAssumption, Preserved
<1> QED
  BY <1>1, <1>2, PTL DEF Spec

\* The variables of the browsers, the connections and the server keep the
\* types that the hook, the socket and the gateway give them.
THEOREM TypeCorrect == Spec => []TypeOK
<1>1. Inductive => TypeOK
  BY DEF Inductive
<1> QED
  BY <1>1, Invariant, PTL

\* An edit leaves its browser's pending update and buffer only once the
\* server's document has it or a crash or reload took it (useCollabPresence.ts:
\* the acknowledgement, the timeout, the retry and sendYjsUpdate).
THEOREM EditsAreKept == Spec => []NothingForgotten
<1>1. Inductive => NothingForgotten
  BY DEF Inductive
<1> QED
  BY <1>1, Invariant, PTL

\* A browser in the room has, holds or still receives all of the server's
\* document (session:join, yjs:update and the state updates of the gateway).
THEOREM NoGap == Spec => []NothingMissed
<1>1. Inductive => NothingMissed
  BY DEF Inductive, Served, Whole, Complete, Coming, NothingMissed
<1> QED
  BY <1>1, Invariant, PTL

\* The whole inductive invariant that the runs check.
THEOREM InvariantHolds == Spec => []IInv
<1>1. Inductive => IInv
  BY InductiveIs
<1> QED
  BY <1>1, Invariant, PTL

-----------------------------------------------------------------------------
(* Nothing is stranded: each of the hook's operators that does not send the *)
(* pending update leaves a flight, a timer or a notice behind.              *)

Sound(h) ==
  /\ h \in Hooks /\ (h.pending # {} => h.version > 0)
  /\ h.joined => h.link # "down"
  /\ h.handle => h.timers > 0

\* flushYjs on a joined client always leaves a flight behind; it tells nobody.
LEMMA FlushResends ==
  ASSUME NEW h, Sound(h)
  PROVE  Resent(Flush(h)) /\ Flush(h).told = h.told
<1>1. CASE ~Ready(h)
  BY <1>1 DEF Flush, Ready, Resent, Sound
<1>2. CASE Ready(h) /\ h.sent # 0
  BY <1>2 DEF Flush, Resent, Sound, Hooks
<1>3. CASE Ready(h) /\ h.sent = 0
  <2> DEFINE n == [h EXCEPT !.asked = FALSE, !.sent = h.version, !.halt = "none",
                            !.out = Append(h.out, Update(h.pending))]
  <2>1. Flush(h) = n
    BY <1>3 DEF Flush
  <2>2. n.sent = h.version /\ n.told = h.told /\ h.version \in Nat /\ h.version > 0
    BY <1>3 DEF Sound, Hooks, Ready
  <2> QED BY <2>1, <2>2 DEF Resent
<1> QED BY <1>1, <1>2, <1>3

\* The finally clause ends a flight only with a reason not to send again.
LEMMA SettleResends ==
  ASSUME NEW h, Sound(h),
         \/ h.pending = {} \/ h.told \/ h.halt # "none" \/ h.timers > 0
         \/ h.asked \/ h.version # h.sent
  PROVE  Resent(Settle(h)) /\ Settle(h).told = h.told
<1> DEFINE over == [h EXCEPT !.sent = 0]
<1>1. /\ over \in Hooks /\ over.version = h.version /\ over.pending = h.pending
      /\ over.handle = h.handle /\ over.timers = h.timers /\ over.told = h.told
      /\ over.halt = h.halt /\ over.link = h.link /\ over.joined = h.joined
  BY DEF Sound, Hooks
<1>2. Sound(over)
  BY <1>1 DEF Sound
<1> HIDE DEF over
<1>3. CASE ~h.handle /\ (h.asked \/ h.version # h.sent)
  <2>1. Settle(h) = Flush(over)
    BY <1>3 DEF Settle, over
  <2> QED BY <1>1, <1>2, <2>1, FlushResends
<1>4. CASE ~(~h.handle /\ (h.asked \/ h.version # h.sent))
  <2>1. Settle(h) = over
    BY <1>4 DEF Settle, over
  <2> QED BY <1>1, <1>4, <2>1 DEF Resent, Sound
<1> QED BY <1>3, <1>4

LEMMA AckedResends ==
  ASSUME NEW h, Sound(h)
  PROVE  Resent(Acked(h)) /\ Acked(h).told = h.told
<1> DEFINE cleared == [h EXCEPT !.attempts = 0, !.pending = {}, !.version = 0]
           kept == [h EXCEPT !.attempts = 0]
<1>1. CASE h.version = h.sent
  <2>1. Acked(h) = Settle(cleared)
    BY <1>1 DEF Acked
  <2>2. Sound(cleared) /\ cleared.pending = {} /\ cleared.told = h.told
    BY DEF Sound, Hooks
  <2> HIDE DEF cleared
  <2> QED BY <2>1, <2>2, SettleResends
<1>2. CASE h.version # h.sent
  <2>1. Acked(h) = Settle(kept)
    BY <1>2 DEF Acked
  <2>2. Sound(kept) /\ kept.version # kept.sent /\ kept.told = h.told
    BY <1>2 DEF Sound, Hooks
  <2> HIDE DEF kept
  <2> QED BY <2>1, <2>2, SettleResends
<1> QED BY <1>1, <1>2

LEMMA RefusedResends ==
  ASSUME NEW h, Sound(h), NEW n \in {Limited(h), Locked(h), Rejected(h)}
  PROVE  Resent(n) /\ (h.told => n.told)
<1> DEFINE a == Schedule(h)  b == [h EXCEPT !.halt = "locked"]  d == [h EXCEPT !.told = TRUE]
<1>0. h.timers + 1 \in Nat /\ h.timers + 1 > 0
  BY HookNumbers DEF Sound
<1>1. /\ a \in Hooks /\ a.timers = h.timers + 1 /\ a.told = h.told
      /\ a.pending = h.pending /\ a.version = h.version /\ a.link = h.link /\ a.joined = h.joined
  BY <1>0 DEF Sound, Hooks, Schedule
<1>2. Sound(a) /\ a.timers > 0
  BY <1>0, <1>1 DEF Sound
<1>3. Sound(b) /\ b.halt # "none" /\ b.told = h.told /\ Sound(d) /\ d.told
  BY DEF Sound, Hooks
<1>4. n \in {Settle(a), Settle(b), Settle(d)}
  BY DEF Limited, Locked, Rejected
<1> HIDE DEF a, b, d
<1> QED BY <1>1, <1>2, <1>3, <1>4, SettleResends

LEMMA TimedOutResends ==
  ASSUME NEW h, Sound(h)
  PROVE  Resent(TimedOut(h)) /\ TimedOut(h).told = h.told
<1> DEFINE quiet == [h EXCEPT !.out = Abandoned(h.out)]
           again == [quiet EXCEPT !.attempts = h.attempts + 1]
           over == [quiet EXCEPT !.halt = "exhausted"]
<1>0. h \in Hooks
  BY DEF Sound
<1>1. Abandoned(h.out) \in Seq(Requests)
  BY <1>0, AbandonedIsSilent DEF Hooks, Requests
<1>2. h.attempts + 1 \in Nat /\ h.timers + 1 \in Nat /\ h.timers + 1 > 0
  BY <1>0, HookNumbers
<1>3. Sound(over) /\ over.halt # "none" /\ over.told = h.told
  BY <1>1 DEF Sound, Hooks
<1>4. Sound(again) /\ again.asked = h.asked /\ again.told = h.told /\ again.timers = h.timers
  BY <1>1, <1>2 DEF Sound, Hooks
<1>5. Sound(Schedule(again)) /\ Schedule(again).timers > 0 /\ Schedule(again).told = h.told
  <2> HIDE DEF again
  <2>1. /\ Schedule(again) \in Hooks /\ Schedule(again).timers = h.timers + 1
        /\ Schedule(again).pending = again.pending /\ Schedule(again).version = again.version
        /\ Schedule(again).link = again.link /\ Schedule(again).joined = again.joined
        /\ Schedule(again).told = h.told
    BY <1>2, <1>4 DEF Sound, Hooks, Schedule
  <2> QED BY <1>2, <1>4, <2>1 DEF Sound
<1>6. \/ TimedOut(h) = Settle(over)
      \/ h.asked /\ TimedOut(h) = Settle(again)
      \/ TimedOut(h) = Settle(Schedule(again))
  BY DEF TimedOut
<1> HIDE DEF over, again
<1> QED BY <1>3, <1>4, <1>5, <1>6, SettleResends

\* The retry timer, the join's answer and a new edit flush.
LEMMA FlushesResend ==
  ASSUME NEW h, Sound(h), NEW edits \in SUBSET Edits
  PROVE  /\ h.timers > 0 => Resent(TimerFired(h)) /\ TimerFired(h).told = h.told
         /\ h.link # "down" => Resent(Joined(h))
         /\ Resent(Queued(h, edits)) /\ Queued(h, edits).told = h.told
<1>0. /\ h \in Hooks /\ h.timers \in Nat /\ h.version \in Nat
      /\ (h.timers > 0 => h.timers - 1 \in Nat)
  BY HookNumbers DEF Sound
<1>1. ASSUME h.timers > 0 PROVE Resent(TimerFired(h)) /\ TimerFired(h).told = h.told
  <2> DEFINE n == [h EXCEPT !.timers = h.timers - 1, !.handle = FALSE]
  <2>1. Sound(n) /\ n.told = h.told /\ TimerFired(h) = Flush(n)
    BY <1>0, <1>1 DEF Sound, Hooks, TimerFired
  <2> HIDE DEF n
  <2> QED BY <2>1, FlushResends
<1>2. ASSUME h.link # "down" PROVE Resent(Joined(h))
  <2> DEFINE n == [h EXCEPT !.joined = TRUE, !.attempts = 0, !.told = FALSE, !.handle = FALSE,
                            !.timers = IF h.handle THEN h.timers - 1 ELSE h.timers]
  <2>1. (IF h.handle THEN h.timers - 1 ELSE h.timers) \in Nat
    BY <1>0 DEF Sound
  <2>2. Sound(n) /\ Joined(h) = Flush(n)
    BY <1>2, <2>1 DEF Sound, Hooks, Joined
  <2> HIDE DEF n
  <2> QED BY <2>2, FlushResends
<1>3. Resent(Queued(h, edits)) /\ Queued(h, edits).told = h.told
  <2> DEFINE n == [h EXCEPT !.pending = h.pending \cup edits, !.version = h.version + 1]
  <2>1. h.pending \cup edits \in SUBSET Edits /\ h.version + 1 \in Nat /\ h.version + 1 > 0
    BY <1>0, HookNumbers
  <2>2. Sound(n) /\ n.told = h.told /\ Queued(h, edits) = Flush(n)
    BY <2>1 DEF Sound, Hooks, Queued
  <2> HIDE DEF n
  <2> QED BY <2>2, FlushResends
<1> QED BY <1>1, <1>2, <1>3

LEMMA HasIsKept ==
  ASSUME NEW S, NEW s \in Seq(S), NEW kind
  PROVE  /\ \A m \in S : Has(Append(s, m), kind) <=> Has(s, kind) \/ m.kind = kind
         /\ Has(s, kind) => s # << >> /\ (Head(s).kind = kind \/ Has(Tail(s), kind))
<1>1. ASSUME NEW m \in S PROVE Has(Append(s, m), kind) <=> Has(s, kind) \/ m.kind = kind
  <2>1. /\ DOMAIN Append(s, m) = 1..(Len(s) + 1) /\ DOMAIN s = 1..Len(s) /\ Len(s) \in Nat
        /\ \A i \in 1..Len(s) : Append(s, m)[i] = s[i]
        /\ Append(s, m)[Len(s) + 1] = m
    BY AppendAwaits
  <2>2. /\ Len(s) + 1 \in 1..(Len(s) + 1)
        /\ \A i \in 1..(Len(s) + 1) : i \in 1..Len(s) \/ i = Len(s) + 1
        /\ \A i \in 1..Len(s) : i \in 1..(Len(s) + 1)
    BY <2>1
  <2> QED BY <2>1, <2>2 DEF Has
<1>2. ASSUME Has(s, kind) PROVE s # << >> /\ (Head(s).kind = kind \/ Has(Tail(s), kind))
  <2>1. PICK i \in 1..Len(s) : s[i].kind = kind
    BY <1>2 DEF Has
  <2>2. s # << >>
    BY <2>1
  <2>3. /\ Len(s) \in Nat \ {0} /\ DOMAIN Tail(s) = 1..(Len(s) - 1)
        /\ \A j \in 1..(Len(s) - 1) : Tail(s)[j] = s[j + 1]
        /\ Head(s) = s[1]
    BY <2>2, TailShifts
  <2>4. CASE i = 1
    BY <2>1, <2>2, <2>3, <2>4
  <2>5. CASE i # 1
    <3>1. i - 1 \in 1..(Len(s) - 1) /\ (i - 1) + 1 = i
      BY <2>1, <2>3, <2>5
    <3>2. Tail(s)[i - 1] = s[i]
      BY <2>3, <3>1
    <3> QED BY <2>1, <2>2, <2>3, <3>1, <3>2 DEF Has
  <2> QED BY <2>4, <2>5
<1> QED BY <1>1, <1>2

\* A timeout takes no message off either stream.
LEMMA AbandonedKeepsKinds ==
  ASSUME NEW S, NEW s \in Seq([kind : S, edits : SUBSET Edits, awaited : BOOLEAN]), NEW kind
  PROVE  Has(Abandoned(s), kind) <=> Has(s, kind)
  BY AbandonedIsSilent DEF Has

\* What the hook sends comes behind what it has sent.
LEMMA PostsKeepJoin ==
  ASSUME NEW h \in Hooks, NEW n \in Hooks, Posts(h, n), Has(h.out, "join")
  PROVE  Has(n.out, "join")
<1>1. h.out \in Seq(Requests) /\ Update(n.pending) \in Requests
  BY DEF Hooks, Update, Requests
<1>2. Has(Append(h.out, Update(n.pending)), "join")
  BY <1>1, HasIsKept
<1> QED BY <1>2 DEF Posts

\* A client that stays told, or joins, has not lost its way to the room.
LEMMA JoinsKept ==
  ASSUME NEW h, NEW n, NEW box, NEW after, Joins(h, box),
         h.joined => n.joined, h.told => n.told \/ n.joined,
         Has(h.out, "join") => Has(n.out, "join"),
         Has(box, "joined") => n.joined \/ Has(after, "joined"),
         Has(box, "refused") => n.told \/ Has(after, "refused")
  PROVE  Joins(n, after)
  BY DEF Joins

Stands(h, box) == Resent(h) /\ (h.link = "up" => Joins(h, box))

\* The client's timers and the buffer.
LEMMA TimersStand ==
  ASSUME TypeOK, Flights, Flights', NothingStranded, NEW c \in Clients, Sound(hook[c]),
         SendYjsUpdate(c) \/ FlightLost(c) \/ FlightLate(c) \/ RetryTimer(c)
  PROVE  Stands(hook'[c], inbox'[c])
<1> DEFINE h == hook[c]  n == hook'[c]
<1>1. /\ h \in Hooks /\ n \in Hooks /\ inbox[c] \in Seq(Messages) /\ hook \in [Clients -> Hooks]
      /\ Joins(h, inbox[c]) \/ h.link # "up"
  BY DEF Flights, Streams, NothingStranded
<1>2. /\ n.joined = h.joined /\ n.link = h.link
      /\ \/ Posts(h, n)
         \/ Posts([h EXCEPT !.out = Abandoned(h.out)], n)
  BY QueuedPosts, TimersPost DEF TypeOK
<1>3. Resent(n) /\ n.told = h.told
  <2>1. CASE SendYjsUpdate(c)
    <3>1. n = Queued(h, buffer[c]) /\ buffer[c] \in SUBSET Edits
      BY <1>1, <2>1 DEF SendYjsUpdate, TypeOK
    <3> QED BY <3>1, FlushesResend
  <2>2. CASE FlightLost(c) \/ FlightLate(c)
    <3>1. n = TimedOut(h)
      BY <1>1, <2>2 DEF FlightLost, FlightLate, Shows
    <3> QED BY <3>1, TimedOutResends
  <2>3. CASE RetryTimer(c)
    <3>1. n = TimerFired(h) /\ h.timers > 0
      BY <1>1, <2>3 DEF RetryTimer, Shows
    <3> QED BY <3>1, FlushesResend
  <2> QED BY <2>1, <2>2, <2>3
<1>4. Has(h.out, "join") => Has(n.out, "join")
  <2> DEFINE quiet == [h EXCEPT !.out = Abandoned(h.out)]
  <2>1. h.out \in Seq(Requests)
    BY <1>1 DEF Hooks
  <2>2. Abandoned(h.out) \in Seq(Requests) /\ (Has(h.out, "join") => Has(Abandoned(h.out), "join"))
    BY <2>1, AbandonedIsSilent, AbandonedKeepsKinds DEF Requests
  <2>3. quiet \in Hooks /\ quiet.out = Abandoned(h.out)
    BY <1>1, <2>2 DEF Hooks
  <2>4. CASE Posts(h, n)
    BY <1>1, <2>4, PostsKeepJoin
  <2>5. CASE Posts(quiet, n)
    <3> HIDE DEF quiet
    <3> QED BY <1>1, <2>2, <2>3, <2>5, PostsKeepJoin
  <2> QED BY <1>2, <2>4, <2>5
<1>5. inbox'[c] = inbox[c] \/ inbox'[c] = Abandoned(inbox[c])
  BY <1>1 DEF SendYjsUpdate, FlightLost, FlightLate, RetryTimer, TypeOK
<1>6. \A kind \in {"joined", "refused"} : Has(inbox[c], kind) => Has(inbox'[c], kind)
  BY <1>1, <1>5, AbandonedKeepsKinds DEF Messages
<1>7. ASSUME Joins(h, inbox[c]) PROVE Joins(n, inbox'[c])
  <2> HIDE DEF h, n
  <2> QED BY <1>2, <1>3, <1>4, <1>6, <1>7, JoinsKept
<1> QED BY <1>1, <1>2, <1>3, <1>7 DEF Stands

\* The messages of the server.
LEMMA ReadsStand ==
  ASSUME TypeOK, Flights, Flights', StreamsFit, NothingStranded, NEW c \in Clients,
         Sound(hook[c]), Reads(c)
  PROVE  Stands(hook'[c], inbox'[c])
<1> DEFINE h == hook[c]  n == hook'[c]  box == inbox[c]
<1>1. /\ h \in Hooks /\ n \in Hooks /\ box \in Seq(Messages) /\ hook \in [Clients -> Hooks]
      /\ inbox \in [Clients -> Seq(Messages)]
  BY DEF Flights, Streams
<1>2. box # << >> /\ inbox'[c] = Tail(box) /\ h.link = "up"
  <2>1. box # << >> /\ Received(c)
    BY DEF Reads, JoinAnswer, JoinRefusal, Acknowledgement, Refusal, News, StateUpdate, Receives
  <2> QED BY <1>1, <2>1 DEF Received, StreamsFit, Fits
<1>3. Posts(h, n) /\ Joins(h, box) /\ Resent(h)
  BY <1>2, ReadsPost DEF NothingStranded
<1>4. Has(h.out, "join") => Has(n.out, "join")
  BY <1>1, <1>3, PostsKeepJoin
<1>5. \A kind : Has(box, kind) => Head(box).kind = kind \/ Has(Tail(box), kind)
  BY <1>1, HasIsKept
<1>6. CASE JoinAnswer(c)
  <2>1. n = Joined(h)
    BY <1>1, <1>6 DEF JoinAnswer, Shows
  <2>2. n.joined
    BY <1>1, <2>1, JoinedKeeps DEF Flights
  <2> QED BY <1>2, <2>1, <2>2, FlushesResend DEF Stands, Joins
<1>7. CASE JoinRefusal(c)
  <2>1. n = [h EXCEPT !.told = TRUE]
    BY <1>1, <1>7 DEF JoinRefusal, Shows
  <2>2. n.told
    BY <1>1, <2>1 DEF Hooks
  <2> QED BY <2>2 DEF Stands, Joins, Resent
<1>8. ASSUME Resent(n), h.joined => n.joined, h.told => n.told,
             Head(box).kind \notin {"joined", "refused"}
      PROVE  Stands(n, inbox'[c])
  <2>1. \A kind \in {"joined", "refused"} : Has(box, kind) => Has(inbox'[c], kind)
    BY <1>2, <1>5, <1>8
  <2>2. Joins(n, inbox'[c])
    <3> HIDE DEF h, n, box
    <3> QED BY <1>3, <1>4, <1>8, <2>1, JoinsKept
  <2> QED BY <1>8, <2>2 DEF Stands
<1>9. CASE Acknowledgement(c)
  <2>1. Head(box).kind = "ok"
    BY <1>9 DEF Acknowledgement, Receives
  <2>2. CASE Head(box).awaited
    <3>1. n = Acked(h)
      BY <1>1, <1>9, <2>2 DEF Acknowledgement, Shows
    <3>2. HookInv(h, Tail(box), Covered) /\ Silent(h, Tail(box)) /\ Tail(box) \in Seq(Messages)
      BY <1>1, <1>2, <2>2, ReadKeeps, TailShifts DEF Flights
    <3>3. Acked(h).joined = h.joined
      BY <1>1, <3>2, AckedKeeps
    <3> QED BY <1>8, <2>1, <3>1, <3>3, AckedResends
  <2>3. CASE ~Head(box).awaited
    BY <1>3, <1>8, <1>9, <2>1, <2>3 DEF Acknowledgement
  <2> QED BY <2>2, <2>3
<1>10. CASE Refusal(c)
  <2>1. Head(box).kind \in {"limited", "locked", "rejected"}
    BY <1>10 DEF Refusal, Receives
  <2>2. CASE Head(box).awaited
    <3>1. n \in {Limited(h), Locked(h), Rejected(h)}
      BY <1>1, <1>10, <2>2 DEF Refusal, Shows
    <3>2. HookInv(h, Tail(box), Covered) /\ Silent(h, Tail(box)) /\ Tail(box) \in Seq(Messages)
      BY <1>1, <1>2, <2>2, ReadKeeps, TailShifts DEF Flights
    <3>3. n.joined = h.joined
      BY <1>1, <3>1, <3>2, RefusedKeeps DEF Sent
    <3>4. Resent(n) /\ (h.told => n.told)
      BY <3>1, RefusedResends
    <3> QED BY <1>8, <2>1, <3>3, <3>4
  <2>3. CASE ~Head(box).awaited
    <3>1. n = h
      BY <1>1, <1>10, <2>3 DEF Refusal, Shows
    <3> QED BY <1>3, <1>8, <2>1, <3>1
  <2> QED BY <2>2, <2>3
<1>11. CASE News(c) \/ StateUpdate(c)
  <2>1. n = h /\ Head(box).kind \notin {"joined", "refused"}
    BY <1>11 DEF News, StateUpdate, Receives
  <2> QED BY <1>3, <1>8, <2>1
<1> QED BY <1>6, <1>7, <1>9, <1>10, <1>11 DEF Reads

\* The connection breaks, closes and is made again.
LEMMA LinksStand ==
  ASSUME Streams, NothingStranded, NEW c \in Clients,
         Connect(c) \/ Break(c) \/ Disconnect(c) \/ Remount(c) \/ Reload(c)
  PROVE  Stands(hook'[c], inbox'[c])
<1> DEFINE h == hook[c]  n == hook'[c]
<1>1. h \in Hooks /\ hook \in [Clients -> Hooks] /\ Resent(h)
  BY DEF Streams, NothingStranded
<1>2. CASE Connect(c)
  <2>1. n = [h EXCEPT !.link = "up", !.out = <<Join>>]
    BY <1>1, <1>2 DEF Connect
  <2>2. /\ n.out = <<Join>> /\ n.joined = h.joined /\ n.pending = h.pending /\ n.sent = h.sent
        /\ n.timers = h.timers /\ n.told = h.told /\ n.halt = h.halt
    BY <1>1, <2>1 DEF Hooks
  <2>3. Has(<<Join>>, "join")
    <3>1. 1 \in DOMAIN <<Join>> /\ <<Join>>[1].kind = "join"
      BY DEF Join
    <3> QED BY <3>1 DEF Has
  <2> QED BY <1>1, <2>2, <2>3 DEF Stands, Resent, Joins
<1>3. CASE Break(c)
  <2>1. n = [h EXCEPT !.link = "dead", !.out = << >>]
    BY <1>1, <1>3 DEF Break
  <2>2. /\ n.link = "dead" /\ n.joined = h.joined /\ n.pending = h.pending /\ n.sent = h.sent
        /\ n.timers = h.timers /\ n.told = h.told /\ n.halt = h.halt
    BY <1>1, <2>1 DEF Hooks
  <2> QED BY <1>1, <2>2 DEF Stands, Resent
<1>4. CASE Disconnect(c)
  <2>1. n = [h EXCEPT !.link = "down", !.joined = FALSE, !.out = << >>]
    BY <1>1, <1>4 DEF Disconnect
  <2>2. n.link = "down" /\ ~n.joined
    BY <1>1, <2>1 DEF Hooks
  <2> QED BY <2>2 DEF Stands, Resent
<1>5. CASE Remount(c)
  <2>1. n = [Unmounted EXCEPT !.pending = h.pending, !.version = h.version, !.told = h.told]
    BY <1>1, <1>5 DEF Remount
  <2>2. n.link = "down" /\ ~n.joined
    BY <2>1 DEF Unmounted
  <2> QED BY <2>2 DEF Stands, Resent
<1>6. CASE Reload(c)
  <2>1. n = Unmounted
    BY <1>1, <1>6 DEF Reload
  <2>2. n.link = "down" /\ ~n.joined
    BY <2>1 DEF Unmounted
  <2> QED BY <2>2 DEF Stands, Resent
<1> QED BY <1>2, <1>3, <1>4, <1>5, <1>6

\* The server answers a join; what else it handles leaves the join where it is.
LEMMA ServerStands ==
  ASSUME TypeOK, Streams, NothingStranded, NEW c \in Clients, ServerActs(c)
  PROVE  Stands(hook'[c], inbox'[c])
<1> DEFINE h == hook[c]  n == hook'[c]  box == inbox[c]
<1>1. /\ h \in Hooks /\ box \in Seq(Messages) /\ h.out \in Seq(Requests) /\ h.out # << >>
      /\ h.link = "up" /\ hook \in [Clients -> Hooks] /\ inbox \in [Clients -> Seq(Messages)]
  BY ServerPosts DEF Streams, Hooks
<1>2. Handled(c)
  BY DEF ServerActs, ServerJoins, ServerRefuses, ServerUpdates, ServerStops, ServerLimits,
     ServerRejects
<1>3. n = [h EXCEPT !.out = Tail(h.out)]
  BY <1>1, <1>2 DEF Handled
<1>4. /\ n.out = Tail(h.out) /\ n.joined = h.joined /\ n.pending = h.pending /\ n.sent = h.sent
      /\ n.timers = h.timers /\ n.told = h.told /\ n.halt = h.halt
  BY <1>1, <1>3 DEF Hooks
<1>5. Resent(n) /\ Joins(h, box)
  BY <1>1, <1>4 DEF NothingStranded, Resent
<1>6. Head(h.out) \in Requests /\ server \subseteq Edits /\ Head(h.out).awaited \in BOOLEAN
  <2>1. Head(h.out) \in Requests
    BY <1>1, TailShifts
  <2> QED BY <2>1 DEF TypeOK, Requests
<1>7. \A kind \in {"joined", "refused", "ok", "limited", "locked", "rejected"}, edits \in SUBSET Edits :
        LET m == Answer(kind, edits, Head(h.out)) IN m \in Messages /\ m.kind = kind
  BY <1>6 DEF Answer, Messages
<1>8. PICK kind \in {"joined", "refused", "ok", "limited", "locked", "rejected"},
           edits \in SUBSET Edits :
        /\ inbox'[c] = Append(box, Answer(kind, edits, Head(h.out)))
        /\ Head(h.out).kind = "join" => kind \in {"joined", "refused"}
  <2>1. CASE ServerJoins(c)
    BY <1>1, <1>6, <2>1 DEF ServerJoins, Answers, Handles
  <2>2. CASE ServerUpdates(c)
    <3>1. server' \in SUBSET Edits
      BY <1>6, <2>2 DEF ServerUpdates, Requests
    <3> QED BY <1>1, <2>2, <3>1 DEF ServerUpdates, Handles
  <2>3. CASE ServerRefuses(c)
    BY <1>1, <2>3 DEF ServerRefuses, Answers, Handles
  <2>4. CASE ServerStops(c) \/ ServerLimits(c) \/ ServerRejects(c)
    <3>1. {} \in SUBSET Edits /\ Head(h.out).kind = "update"
      BY <2>4 DEF ServerStops, ServerLimits, ServerRejects, Handles
    <3>2. \E k \in {"limited", "locked", "rejected"} :
            inbox'[c] = Append(box, Answer(k, {}, Head(h.out)))
      BY <1>1, <2>4 DEF ServerStops, ServerLimits, ServerRejects, Answers
    <3> QED BY <3>1, <3>2
  <2> QED BY <2>1, <2>2, <2>3, <2>4 DEF ServerActs
<1> DEFINE m == Answer(kind, edits, Head(h.out))
<1>9. m \in Messages /\ m.kind = kind /\ inbox'[c] = Append(box, m)
  BY <1>7, <1>8
<1> HIDE DEF m
<1>10. \A k : Has(inbox'[c], k) <=> Has(box, k) \/ m.kind = k
  <2>1. \A k : Has(Append(box, m), k) <=> Has(box, k) \/ m.kind = k
    <3> HIDE DEF box
    <3>1. ASSUME NEW k
          PROVE  \A x \in Messages : Has(Append(box, x), k) <=> Has(box, k) \/ x.kind = k
      BY <1>1, HasIsKept
    <3> QED BY <1>9, <3>1
  <2> QED BY <1>9, <2>1
<1>11. Has(h.out, "join") => Head(h.out).kind = "join" \/ Has(n.out, "join")
  BY <1>1, <1>4, HasIsKept
<1>12. Joins(n, inbox'[c])
  BY <1>4, <1>5, <1>8, <1>9, <1>10, <1>11 DEF Joins
<1> QED BY <1>5, <1>12 DEF Stands

\* Every step leaves nobody stranded.
LEMMA StrandedStep ==
  ASSUME TypeOK, Flights, Flights', StreamsFit, NothingStranded, [Next]_vars
  PROVE  NothingStranded'
<1>1. /\ hook \in [Clients -> Hooks] /\ inbox \in [Clients -> Seq(Messages)]
      /\ hook' \in [Clients -> Hooks] /\ room \subseteq Clients /\ Streams
      /\ server \subseteq Edits
  BY DEF Flights, Streams, TypeOK
<1> SUFFICES ASSUME NEW d \in Clients
             PROVE  Stands(hook'[d], inbox'[d])
  BY DEF NothingStranded, Stands
<1>2. Stands(hook[d], inbox[d]) /\ inbox[d] \in Seq(Messages)
  BY <1>1 DEF NothingStranded, Stands
<1>3. CASE hook'[d] = hook[d] /\ inbox'[d] = inbox[d]
  BY <1>2, <1>3
<1>4. ASSUME NEW m \in Messages, hook'[d] = hook[d], inbox'[d] = Append(inbox[d], m)
      PROVE  Stands(hook'[d], inbox'[d])
  <2>1. \A k : Has(inbox[d], k) => Has(inbox'[d], k)
    <3>1. \A k : Has(inbox[d], k) => Has(Append(inbox[d], m), k)
      BY <1>2, HasIsKept
    <3> QED BY <1>4, <3>1
  <2> QED BY <1>2, <1>4, <2>1 DEF Stands, Joins
<1>5. CASE UNCHANGED vars \/ ToggleLock \/ \E c \in Clients : Edit(c) \/ Displays(c)
  BY <1>3, <1>5 DEF vars, ToggleLock, Edit, Displays, EditorReady, Render, RenderEarly
<1>6. ASSUME NEW c \in Clients PROVE Sound(hook[c])
  <2>1. hook[c] \in Hooks /\ HookInv(hook[c], inbox[c], Covered)
    BY <1>1 DEF Flights
  <2>2. hook[c].joined => hook[c].link # "down"
    BY DEF StreamsFit, Fits
  <2> QED BY <2>1, <2>2 DEF Sound, HookInv, FlightMatches, TimersCounted
<1>7. ASSUME NEW c \in Clients,
             SendYjsUpdate(c) \/ FlightLost(c) \/ FlightLate(c) \/ RetryTimer(c)
      PROVE  Stands(hook'[d], inbox'[d])
  <2>1. CASE d = c
    BY <1>6, <1>7, <2>1, TimersStand
  <2>2. CASE d # c
    BY <1>1, <1>3, <1>7, <2>2 DEF SendYjsUpdate, FlightLost, FlightLate, RetryTimer, Shows
  <2> QED BY <2>1, <2>2
<1>8. ASSUME NEW c \in Clients, Reads(c)
      PROVE  Stands(hook'[d], inbox'[d])
  <2>1. CASE d = c
    BY <1>6, <1>8, <2>1, ReadsStand
  <2>2. CASE d # c
    BY <1>1, <1>3, <1>8, <2>2 DEF Reads, JoinAnswer, JoinRefusal, Acknowledgement, Refusal, News,
       StateUpdate, Received, Shows
  <2> QED BY <2>1, <2>2
<1>9. ASSUME NEW c \in Clients, Connect(c) \/ Break(c) \/ Disconnect(c) \/ Remount(c) \/ Reload(c)
      PROVE  Stands(hook'[d], inbox'[d])
  <2>1. CASE d = c
    BY <1>1, <1>9, <2>1, LinksStand
  <2>2. CASE d # c
    BY <1>1, <1>3, <1>9, <2>2 DEF Connect, Break, Disconnect, Remount, Reload
  <2> QED BY <2>1, <2>2
<1>10. ASSUME NEW c \in Clients, ServerActs(c)
       PROVE  Stands(hook'[d], inbox'[d])
  <2>1. CASE d = c
    BY <1>1, <1>10, <2>1, ServerStands
  <2>2. CASE d # c
    <3>1. hook'[d] = hook[d] /\ Head(hook[c].out) \in Requests
      <4>1. /\ hook[c].out # << >> /\ hook'[d] = hook[d]
        BY <1>1, <1>10, <2>2, ServerPosts
      <4>2. hook[c].out \in Seq(Requests)
        BY <1>1 DEF Hooks
      <4> QED BY <4>1, <4>2, TailShifts
    <3>2. Message("news", Head(hook[c].out).edits) \in Messages
      BY <3>1 DEF Message, Messages, Requests
    <3>3. inbox'[d] \in {inbox[d], Append(inbox[d], Message("news", Head(hook[c].out).edits))}
      BY <1>1, <1>10, <2>2 DEF ServerActs, ServerJoins, ServerRefuses, ServerUpdates,
         ServerStops, ServerLimits, ServerRejects, Answers
    <3> QED BY <1>3, <1>4, <3>1, <3>2, <3>3
  <2> QED BY <2>1, <2>2
<1>11. ASSUME NEW c \in Clients, Checkpoint(c)
       PROVE  Stands(hook'[d], inbox'[d])
  <2>1. Message("state", server) \in Messages
    BY <1>1 DEF Message, Messages
  <2>2. hook'[d] = hook[d] /\ inbox'[d] \in {inbox[d], Append(inbox[d], Message("state", server))}
    BY <1>11 DEF Checkpoint
  <2> QED BY <1>3, <1>4, <2>1, <2>2
<1>12. CASE Crash
  <2> DEFINE n == [hook[d] EXCEPT !.link = "dead", !.out = << >>]
  <2>1. hook'[d] = IF hook[d].link = "up" THEN n ELSE hook[d]
    BY <1>12 DEF Crash
  <2>2. /\ n.link = "dead" /\ n.joined = hook[d].joined /\ n.pending = hook[d].pending
        /\ n.sent = hook[d].sent /\ n.timers = hook[d].timers /\ n.told = hook[d].told
        /\ n.halt = hook[d].halt
    <3>1. hook[d] \in Hooks
      BY <1>1
    <3> QED BY <3>1 DEF Hooks
  <2> HIDE DEF n
  <2> QED BY <1>2, <2>1, <2>2 DEF Stands, Resent
<1> QED
  BY <1>5, <1>7, <1>8, <1>9, <1>10, <1>11, <1>12
     DEF Next, Serves, Tick, Links, Disturbs, ServerActs

\* NothingStranded: no interleaving of edits, acknowledgements, refusals, timeouts,
\* retry timers, reconnects and late answers leaves a pending update without a
\* flight, a timer or a reason that is known (useCollabPresence.ts: flushYjs and
\* what calls it), nor a connected client outside the room without an answer.
THEOREM NobodyIsStranded == Spec => []NothingStranded
<1>1. Init => NothingStranded
  <2>1. Unmounted.link = "down" /\ ~Unmounted.joined
    BY DEF Unmounted
  <2> QED BY <2>1 DEF Init, NothingStranded, Resent
<1>2. Inductive /\ Inductive' /\ NothingStranded /\ [Next]_vars => NothingStranded'
  BY StrandedStep DEF Inductive
<1> QED BY <1>1, <1>2, Invariant, PTL DEF Spec
=============================================================================
