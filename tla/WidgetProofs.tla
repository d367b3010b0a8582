----------------------------- MODULE WidgetProofs -----------------------------
(***************************************************************************)
(* What the widget shows, however many clients and questions follow each   *)
(* other and however late their answers come; and that the run of all a    *)
(* question passes through, the widget last, is one of each part, with the *)
(* types of all.                                                           *)
(***************************************************************************)
EXTENDS MCAgentRun, AgentRunProofs, PathProofs, ChunkingProofs, TLAPS

Message == [role : {"user", "assistant"}, q : Nat]

WidgetTypes == asked \in Nat /\ messages \in Seq(Message)

Asks(q) == [role |-> "user", q |-> q]

\* One question at most is under way in a widget that is there: the last one,
\* and it ends the transcript or heads a cleared one.
OneAtATime ==
  alive =>
    /\ ~sending => asking = {}
    /\ sending =>
         /\ asking # {}
         /\ \A a \in asking : asking = {a} /\ a.q = asked
         /\ IF messages = <<>> THEN cleared ELSE messages[Len(messages)] = Asks(asked)

WidgetInv == WidgetTypes /\ OneAtATime /\ AnswersItsQuestion

-------------------------------------------------------------------------------
(* The transcript *)

LEMMA WidgetStarts == WidgetInit => WidgetInv
<1> SUFFICES ASSUME WidgetInit PROVE WidgetInv
  OBVIOUS
<1>1. asked = 0 /\ messages = <<>> /\ asking = {} /\ sending = FALSE
  BY DEF WidgetInit
<1>2. WidgetTypes
  BY <1>1 DEF WidgetTypes
<1>3. OneAtATime
  BY <1>1, Zenon DEF OneAtATime
<1>4. AnswersItsQuestion
  BY <1>1 DEF AnswersItsQuestion
<1> QED BY <1>2, <1>3, <1>4 DEF WidgetInv

\* A message added to the transcript leaves those before it as they were.
LEMMA Added ==
  ASSUME NEW s \in Seq(Message), NEW x \in Message
  PROVE  /\ Append(s, x) \in Seq(Message) /\ Append(s, x) # <<>>
         /\ Len(Append(s, x)) = Len(s) + 1
         /\ Append(s, x)[Len(s) + 1] = x
         /\ \A i \in 1..Len(s) : Append(s, x)[i] = s[i]
OBVIOUS

LEMMA SendKeeps == ASSUME WidgetInv, Send PROVE WidgetInv'
<1> DEFINE new == Asks(asked + 1)
<1>1. UNCHANGED <<alive, cleared>>
  BY DEF Send
<1>2. WidgetTypes /\ OneAtATime /\ AnswersItsQuestion
  BY DEF WidgetInv
<1>3. alive /\ ~sending
  BY DEF Send, MaySend
<1>4. asked \in Nat /\ asked' = asked + 1
  BY <1>2, Zenon DEF WidgetTypes, Send
<1>5. asked' \in Nat
  BY <1>4
<1>6. new \in Message
  BY <1>4 DEF Asks, Message
<1>7. messages \in Seq(Message)
  BY <1>2 DEF WidgetTypes
<1>8. messages' = Append(messages, new)
  BY Zenon DEF Send, Asks
<1>9. /\ messages' \in Seq(Message) /\ messages' # <<>>
      /\ Len(messages') = Len(messages) + 1 /\ messages'[Len(messages) + 1] = new
      /\ \A i \in 1..Len(messages) : messages'[i] = messages[i]
  BY <1>6, <1>7, <1>8, Added
<1>10. WidgetTypes'
  BY <1>5, <1>9 DEF WidgetTypes
<1>11. asking = {}
  BY <1>2, <1>3, Zenon DEF OneAtATime
<1>12. asking' = {[q |-> asked', on |-> client]} /\ sending' = TRUE
  BY <1>11, Zenon DEF Send
<1>13. OneAtATime'
  <2>1. asking' # {} /\ \A a \in asking' : asking' = {a} /\ a.q = asked'
    BY <1>12
  <2>2. messages' # <<>> /\ messages'[Len(messages')] = Asks(asked')
    BY <1>4, <1>9
  <2> QED BY <1>12, <2>1, <2>2, Zenon DEF OneAtATime
<1>14. AnswersItsQuestion'
  <2> SUFFICES ASSUME NEW i \in 1..Len(messages'), messages'[i].role = "assistant"
               PROVE  \/ i > 1 /\ messages'[i-1] = [role |-> "user", q |-> messages'[i].q]
                      \/ i = 1 /\ cleared'
    BY DEF AnswersItsQuestion
  <2>1. i \in 1..Len(messages)
    <3>1. messages'[Len(messages) + 1].role = "user"
      BY <1>9 DEF Asks
    <3>2. i # Len(messages) + 1
      BY <3>1
    <3> QED BY <1>7, <1>9, <3>2
  <2>2. messages'[i] = messages[i] /\ (i > 1 => messages'[i-1] = messages[i-1])
    BY <1>7, <1>9, <2>1
  <2>3. \/ i > 1 /\ messages[i-1] = [role |-> "user", q |-> messages[i].q]
        \/ i = 1 /\ cleared
    BY <1>2, <2>1, <2>2 DEF AnswersItsQuestion
  <2> QED BY <1>1, <2>2, <2>3
<1> QED BY <1>10, <1>13, <1>14 DEF WidgetInv

LEMMA AskEndsKeeps == ASSUME WidgetInv, NEW a \in asking, NEW o, AskEnds(a, o) PROVE WidgetInv'
<1> USE DEF WidgetInv, AskEnds
<1>1. CASE ~alive
  BY <1>1 DEF WidgetTypes, OneAtATime, AnswersItsQuestion
<1>2. CASE alive
  <2> DEFINE new == [role |-> "assistant", q |-> a.q]
             answered == Thrown(o) \in {"answer", "EaipToolError"}
  <2>1. sending /\ a.q = asked /\ messages \in Seq(Message)
    BY <1>2 DEF OneAtATime, WidgetTypes
  <2>2. new \in Message
    BY <2>1 DEF WidgetTypes, Message
  <2>3. answered =>
          /\ messages' = Append(messages, new)
          /\ messages' \in Seq(Message)
          /\ Len(messages') = Len(messages) + 1 /\ messages'[Len(messages) + 1] = new
          /\ \A i \in 1..Len(messages) : messages'[i] = messages[i]
    BY <1>2, <2>1, <2>2, Added
  <2>4. ~answered => messages' = messages
    BY <1>2
  <2>5. WidgetTypes'
    BY <1>2, <2>1, <2>3, <2>4 DEF WidgetTypes
  <2>6. OneAtATime'
    BY <1>2, <2>1 DEF OneAtATime
  <2>7. AnswersItsQuestion'
    <3>1. CASE ~answered
      BY <2>4, <3>1 DEF AnswersItsQuestion
    <3>2. CASE answered
      <4> SUFFICES ASSUME NEW i \in 1..Len(messages'), messages'[i].role = "assistant"
                   PROVE  \/ i > 1 /\ messages'[i-1] = [role |-> "user", q |-> messages'[i].q]
                          \/ i = 1 /\ cleared'
        BY DEF AnswersItsQuestion
      <4>1. CASE i \in 1..Len(messages)
        <5>1. messages'[i] = messages[i] /\ (i > 1 => messages'[i-1] = messages[i-1])
          BY <2>1, <2>3, <3>2, <4>1
        <5> QED BY <4>1, <5>1 DEF AnswersItsQuestion
      <4>2. CASE i = Len(messages) + 1
        <5>1. messages'[i] = new
          BY <2>3, <3>2, <4>2
        <5>2. CASE messages = <<>>
          BY <1>2, <2>1, <4>2, <5>2 DEF OneAtATime
        <5>3. CASE messages # <<>>
          <6>1. Len(messages) \in 1..Len(messages) /\ messages[Len(messages)] = Asks(asked)
            BY <1>2, <2>1, <5>3 DEF OneAtATime
          <6> QED BY <2>1, <2>3, <3>2, <4>2, <5>1, <6>1 DEF Asks
        <5> QED BY <5>2, <5>3
      <4> QED BY <2>1, <2>3, <3>2, <4>1, <4>2
    <3> QED BY <3>1, <3>2
  <2> QED BY <2>5, <2>6, <2>7
<1> QED BY <1>1, <1>2 DEF WidgetTypes

LEMMA ResetKeeps == ASSUME WidgetInv, Reset PROVE WidgetInv'
<1>1. /\ messages' = <<>>
      /\ UNCHANGED <<asking, asked, sending, alive>>
  BY DEF Reset
<1>2. cleared' <=> cleared \/ asking # {}
  BY DEF Reset
<1>3. WidgetTypes /\ OneAtATime
  BY DEF WidgetInv
<1>4. messages' \in Seq(Message)
  BY <1>1
<1>5. WidgetTypes'
  BY <1>1, <1>3, <1>4, Zenon DEF WidgetTypes
<1>6. AnswersItsQuestion'
  BY <1>1 DEF AnswersItsQuestion
<1>7. OneAtATime'
  BY <1>1, <1>2, <1>3, Zenon DEF OneAtATime
<1> QED BY <1>5, <1>6, <1>7 DEF WidgetInv

LEMMA WidgetStep == WidgetInv /\ [WidgetNext]_widgetVars => WidgetInv'
<1> SUFFICES ASSUME WidgetInv, [WidgetNext]_widgetVars PROVE WidgetInv'
  OBVIOUS
<1>1. ASSUME UNCHANGED <<asking, asked, messages, sending, cleared>>, alive' => alive
      PROVE  WidgetInv'
  BY <1>1 DEF WidgetInv, WidgetTypes, OneAtATime, AnswersItsQuestion
<1>2. CASE UNCHANGED widgetVars \/ Unmount \/ RenderClient \/ Effect \/ Renders
  BY <1>1, <1>2 DEF widgetVars, Unmount, RenderClient, Effect, Renders
<1>3. ASSUME NEW c \in 1..Clients, NEW o, CheckEnds(c, o) PROVE WidgetInv'
  BY <1>1, <1>3 DEF CheckEnds
<1> QED
  BY <1>2, <1>3, SendKeeps, AskEndsKeeps, ResetKeeps DEF WidgetNext

\* The inductive invariant of the transcript.
THEOREM WidgetInvariance == WidgetSpec => []WidgetInv
<1> QED BY WidgetStarts, WidgetStep, PTL DEF WidgetSpec

\* However many questions are asked and however late they are answered, each
\* answer stands behind its own question, but one that reset() left alone.
THEOREM AnswersFollowQuestions == WidgetSpec => []AnswersItsQuestion
<1>1. WidgetInv => AnswersItsQuestion
  BY DEF WidgetInv
<1> QED BY <1>1, WidgetInvariance, PTL

-------------------------------------------------------------------------------
(* The clients *)

CheckTypes ==
  /\ client \in 1..Clients /\ unchecked \in Nat
  /\ checks \in [1..Clients -> {"none", "under way", "passed", "failed"}]

\* The checks of the clients to come have not begun.
ToCome == \A c \in 1..Clients : c > client => checks[c] = "none"

\* The present client has passed its check, or another has for it.
Trusted == checks[client] = "passed" \/ lateCheck

NotDue == due => checks[client] = "none" /\ ~lateCheck

\* "ready" is not the status of an untrusted client once its effect has run; but
\* it may be shown still, until the question is answered that goes to it first.
StatusTold == ~due /\ ~Trusted => status # "ready"
SlipsOnce == alive /\ ~Trusted /\ shown = "ready" => sending \/ unchecked + 2 <= client

CheckInv == CheckTypes /\ ToCome /\ NotDue /\ StatusTold /\ SlipsOnce /\ UncheckedOnce

LEMMA ChecksStart == WidgetInit => CheckInv
<1> SUFFICES ASSUME WidgetInit PROVE CheckInv
  OBVIOUS
<1>1. client = 1 /\ unchecked = 0 /\ checks = [c \in 1..Clients |-> "none"] /\ 1 \in 1..Clients
  BY WidgetAssumption DEF WidgetInit
<1>2. due /\ ~lateCheck /\ shown # "ready"
  BY DEF WidgetInit
<1>3. CheckTypes /\ ToCome /\ UncheckedOnce
  BY <1>1 DEF CheckTypes, ToCome, UncheckedOnce
<1>4. checks[client] = "none"
  BY <1>1
<1> QED BY <1>2, <1>3, <1>4, Zenon DEF CheckInv, NotDue, StatusTold, SlipsOnce

\* The effect begins the check, if it is due.
LEMMA EffectRuns ==
  ASSUME CheckTypes, ToCome, NotDue, checks' = Started, client' = client, due' = FALSE,
         lateCheck' = lateCheck
  PROVE  /\ checks' \in [1..Clients -> {"none", "under way", "passed", "failed"}]
         /\ ToCome' /\ NotDue'
         /\ Trusted' <=> Trusted
         /\ due => ~Trusted
<1>1. client \in 1..Clients /\ checks \in [1..Clients -> {"none", "under way", "passed", "failed"}]
  BY DEF CheckTypes
<1>2. CASE due
  <2>1. checks' = [checks EXCEPT ![client] = "under way"]
    BY <1>2 DEF Started
  <2>2. checks'[client] = "under way" /\ checks[client] = "none"
    BY <1>1, <1>2, <2>1 DEF NotDue
  <2>3. ToCome'
    <3>1. \A c \in 1..Clients : c # client => checks'[c] = checks[c]
      BY <1>1, <2>1
    <3>2. client \in 1..Clients
      BY <1>1
    <3>3. \A c \in 1..Clients : c > client => c # client
      BY <3>2
    <3> QED BY <3>1, <3>3, Zenon DEF ToCome
  <2>4. ~Trusted /\ ~Trusted'
    <3>1. "under way" # "passed" /\ "none" # "passed"
      OBVIOUS
    <3> QED BY <1>2, <2>2, <3>1, Zenon DEF NotDue, Trusted
  <2>5. checks' \in [1..Clients -> {"none", "under way", "passed", "failed"}]
    BY <1>1, <2>1
  <2>6. NotDue'
    BY Zenon DEF NotDue
  <2> QED BY <1>2, <2>3, <2>4, <2>5, <2>6, Zenon
<1>3. CASE ~due
  BY <1>1, <1>3 DEF Started, ToCome, NotDue, Trusted
<1> QED BY <1>2, <1>3

LEMMA RenderClientChecks == ASSUME CheckInv, RenderClient PROVE CheckInv'
<1>1. client < Clients /\ client' = client + 1 /\ UNCHANGED <<checks, unchecked, sending>>
  BY DEF RenderClient
<1>2. due' = TRUE /\ lateCheck' = FALSE
  BY DEF RenderClient
<1>3. /\ client \in 1..Clients /\ unchecked \in Nat /\ unchecked < client
      /\ checks \in [1..Clients -> {"none", "under way", "passed", "failed"}]
  BY DEF CheckInv, CheckTypes, UncheckedOnce
<1>4. client' \in 1..Clients /\ client' > client
  <2>1. client \in 1..Clients /\ client < Clients /\ client' = client + 1
    BY <1>1, <1>3, Zenon
  <2> QED BY <2>1, WidgetAssumption
<1>5. CheckTypes'
  BY <1>1, <1>3, <1>4, Zenon DEF CheckTypes
<1>6. UncheckedOnce' /\ unchecked' + 2 <= client'
  <2>1. /\ client \in 1..Clients /\ unchecked \in Nat /\ unchecked < client
        /\ client' = client + 1 /\ unchecked' = unchecked
    BY <1>1, <1>3, Zenon
  <2> QED BY <2>1 DEF UncheckedOnce
<1>7. checks'[client'] = "none"
  BY <1>1, <1>4, Zenon DEF CheckInv, ToCome
<1>8. NotDue' /\ StatusTold'
  BY <1>2, <1>7, Zenon DEF NotDue, StatusTold
<1>9. ToCome'
  <2>1. client \in 1..Clients /\ client' = client + 1
    BY <1>1, <1>3, Zenon
  <2>2. \A c \in 1..Clients : c > client' => c > client
    BY <2>1
  <2> QED BY <1>1, <2>2, Zenon DEF CheckInv, ToCome
<1> QED BY <1>5, <1>6, <1>8, <1>9, Zenon DEF CheckInv, SlipsOnce

LEMMA CheckEndsChecks == ASSUME CheckInv, NEW c \in 1..Clients, NEW o, CheckEnds(c, o) PROVE CheckInv'
<1> DEFINE end == IF o = "ok" THEN "passed" ELSE "failed"
<1>1. /\ checks[c] = "under way" /\ checks' = [checks EXCEPT ![c] = end]
      /\ UNCHANGED <<client, due, shown, sending, alive, unchecked>>
  BY DEF CheckEnds
<1>2. lateCheck' <=> lateCheck \/ (c < client /\ ~due /\ o = "ok")
  BY DEF CheckEnds
<1>3. client \in 1..Clients /\ checks \in [1..Clients -> {"none", "under way", "passed", "failed"}]
  BY DEF CheckInv, CheckTypes
<1>4. end \in {"passed", "failed"}
  OBVIOUS
<1>5. ~(c > client)
  <2>1. "none" # "under way"
    OBVIOUS
  <2> QED BY <1>1, <2>1, Zenon DEF CheckInv, ToCome
<1>6. c = client \/ c < client
  <2>1. client \in 1..Clients /\ ~(c > client)
    BY <1>3, <1>5, Zenon
  <2> QED BY <2>1
<1>7. /\ checks'[c] = end
      /\ \A d \in 1..Clients : d # c => checks'[d] = checks[d]
      /\ checks' \in [1..Clients -> {"none", "under way", "passed", "failed"}]
  BY <1>1, <1>3, <1>4
<1>8. CheckTypes' /\ UncheckedOnce'
  BY <1>1, <1>7, Zenon DEF CheckInv, CheckTypes, UncheckedOnce
<1>9. ToCome'
  <2>1. \A d \in 1..Clients : d > client => d # c
    BY <1>5
  <2> QED BY <1>1, <1>7, <2>1, Zenon DEF CheckInv, ToCome
<1>10. due => c # client
  <2>1. "none" # "under way"
    OBVIOUS
  <2> QED BY <1>1, <2>1, Zenon DEF CheckInv, NotDue
<1>11. NotDue'
  BY <1>1, <1>2, <1>3, <1>7, <1>10, Zenon DEF CheckInv, NotDue
<1>12. Trusted => Trusted'
  <2>1. checks[client] = "passed" => c # client
    BY <1>1
  <2> QED BY <1>1, <1>2, <1>3, <1>7, <2>1, Zenon DEF Trusted
<1>13. SlipsOnce'
  BY <1>1, <1>12, Zenon DEF CheckInv, SlipsOnce
<1>14. StatusTold'
  <2>1. CASE o = "ok"
    <3>1. ~due => Trusted'
      <4>1. end = "passed"
        BY <2>1
      <4> HIDE DEF end
      <4> QED BY <1>1, <1>2, <1>6, <1>7, <2>1, <4>1, Zenon DEF Trusted
    <3> QED BY <1>1, <3>1, Zenon DEF StatusTold
  <2>2. CASE o # "ok"
    <3>1. SessionStatus(o) # "ready"
      BY <2>2 DEF SessionStatus
    <3>2. status' = status \/ status' # "ready"
      BY <3>1, Zenon DEF CheckEnds
    <3> QED BY <1>1, <1>12, <3>2, Zenon DEF CheckInv, StatusTold
  <2> QED BY <2>1, <2>2
<1> QED BY <1>8, <1>9, <1>11, <1>13, <1>14 DEF CheckInv

LEMMA EffectChecks == ASSUME CheckInv, Effect PROVE CheckInv'
<1>1. checks' = Started /\ UNCHANGED <<client, shown, sending, alive, lateCheck, unchecked>>
  BY DEF Effect
<1>2. due' = FALSE /\ status' = "checking"
  BY DEF Effect, CheckedAgain
<1>3. CheckTypes /\ ToCome /\ NotDue /\ SlipsOnce /\ UncheckedOnce
  BY DEF CheckInv
<1>4. /\ checks' \in [1..Clients -> {"none", "under way", "passed", "failed"}]
      /\ ToCome' /\ NotDue' /\ (Trusted' <=> Trusted)
  BY <1>1, <1>2, <1>3, EffectRuns
<1>5. CheckTypes' /\ UncheckedOnce'
  BY <1>1, <1>3, <1>4, Zenon DEF CheckTypes, UncheckedOnce
<1>6. SlipsOnce'
  BY <1>1, <1>3, <1>4, Zenon DEF SlipsOnce
<1>7. "checking" # "ready"
  OBVIOUS
<1>8. StatusTold'
  BY <1>2, <1>7, Zenon DEF StatusTold
<1> QED BY <1>4, <1>5, <1>6, <1>8 DEF CheckInv

\* The status that is set while a due effect runs with it.
LEMMA ToldAgain ==
  ASSUME CheckInv, NEW set, set = status \/ set # "ready", status' = CheckedAgain(set),
         Trusted' <=> Trusted
  PROVE  ~Trusted' => status' # "ready"
<1>1. CASE due
  <2>1. status' = "checking"
    BY <1>1 DEF CheckedAgain
  <2> QED BY <2>1
<1>2. CASE ~due
  <2>1. status' = set
    BY <1>2 DEF CheckedAgain
  <2> QED BY <1>2, <2>1, Zenon DEF CheckInv, StatusTold
<1> QED BY <1>1, <1>2

LEMMA SendChecks == ASSUME CheckInv, Send PROVE CheckInv'
<1>1. checks' = Started /\ UNCHANGED <<client, shown, alive, lateCheck>> /\ due' = FALSE
  BY DEF Send
<1>2. CheckTypes /\ ToCome /\ NotDue /\ SlipsOnce /\ UncheckedOnce
  BY DEF CheckInv
<1>3. /\ checks' \in [1..Clients -> {"none", "under way", "passed", "failed"}]
      /\ ToCome' /\ NotDue' /\ (Trusted' <=> Trusted)
  BY <1>1, <1>2, EffectRuns
<1>4. alive /\ ~sending /\ shown = "ready" /\ status' = CheckedAgain(status)
  BY DEF Send, MaySend
<1>5. StatusTold'
  BY <1>3, <1>4, ToldAgain, Zenon DEF StatusTold
<1>6. SlipsOnce'
  BY DEF Send, SlipsOnce
<1>7. client \in 1..Clients /\ unchecked \in Nat /\ unchecked < client
  BY <1>2 DEF CheckTypes, UncheckedOnce
<1>8. unchecked' \in Nat /\ unchecked' < client
  <2>1. CASE Trusted
    <3>1. unchecked' = unchecked
      BY <2>1, Zenon DEF Send, Trusted
    <3> QED BY <1>7, <3>1
  <2>2. CASE ~Trusted
    <3>1. unchecked' = unchecked + 1
      BY <2>2, Zenon DEF Send, Trusted
    <3>2. unchecked + 2 <= client
      BY <1>2, <1>4, <2>2, Zenon DEF SlipsOnce
    <3> QED BY <1>7, <3>1, <3>2
  <2> QED BY <2>1, <2>2
<1>9. CheckTypes' /\ UncheckedOnce'
  BY <1>1, <1>3, <1>7, <1>8, Zenon DEF CheckTypes, UncheckedOnce
<1> QED BY <1>3, <1>5, <1>6, <1>9 DEF CheckInv

LEMMA AskEndsChecks == ASSUME CheckInv, NEW a \in asking, NEW o, AskEnds(a, o) PROVE CheckInv'
<1>1. UNCHANGED <<client, alive, lateCheck, unchecked>>
  BY DEF AskEnds
<1>2. CASE ~alive
  <2>1. UNCHANGED <<due, checks, status, shown, sending>>
    BY <1>2, Zenon DEF AskEnds
  <2> QED BY <1>1, <2>1 DEF CheckInv, CheckTypes, ToCome, NotDue, Trusted, StatusTold, SlipsOnce,
                        UncheckedOnce
<1>3. CASE alive
  <2> DEFINE set == IF Thrown(o) = "EaipNotConfiguredError" THEN "not-configured" ELSE status
  <2>1. due' = FALSE /\ checks' = Started /\ status' = CheckedAgain(set) /\ shown' = status'
    BY <1>3, Zenon DEF AskEnds
  <2>2. CheckTypes /\ ToCome /\ NotDue /\ UncheckedOnce
    BY DEF CheckInv
  <2>3. /\ checks' \in [1..Clients -> {"none", "under way", "passed", "failed"}]
        /\ ToCome' /\ NotDue' /\ (Trusted' <=> Trusted)
    BY <1>1, <2>1, <2>2, EffectRuns
  <2>4. set = status \/ set # "ready"
    OBVIOUS
  <2> HIDE DEF set
  <2>5. ~Trusted' => status' # "ready"
    BY <2>1, <2>3, <2>4, ToldAgain
  <2>6. StatusTold' /\ SlipsOnce'
    BY <2>1, <2>5, Zenon DEF StatusTold, SlipsOnce
  <2>7. CheckTypes' /\ UncheckedOnce'
    BY <1>1, <2>2, <2>3, Zenon DEF CheckTypes, UncheckedOnce
  <2> QED BY <2>3, <2>6, <2>7 DEF CheckInv
<1> QED BY <1>2, <1>3

LEMMA CheckStep == CheckInv /\ [WidgetNext]_widgetVars => CheckInv'
<1> SUFFICES ASSUME CheckInv, [WidgetNext]_widgetVars PROVE CheckInv'
  OBVIOUS
<1>1. CASE UNCHANGED widgetVars \/ Reset \/ Unmount
  <2>1. UNCHANGED <<client, due, checks, status, shown, sending, lateCheck, unchecked>>
        /\ (alive' => alive)
    BY <1>1 DEF widgetVars, Reset, Unmount
  <2>2. CheckTypes' /\ ToCome' /\ NotDue' /\ StatusTold' /\ UncheckedOnce' /\ (Trusted' <=> Trusted)
    BY <2>1 DEF CheckInv, CheckTypes, ToCome, NotDue, Trusted, StatusTold, UncheckedOnce
  <2>3. SlipsOnce'
    BY <2>1, <2>2, Zenon DEF CheckInv, SlipsOnce
  <2> QED BY <2>2, <2>3 DEF CheckInv
<1>2. CASE Renders
  <2>1. ~due /\ shown' = status
        /\ UNCHANGED <<client, due, checks, status, sending, alive, lateCheck, unchecked>>
    BY <1>2 DEF Renders
  <2>2. CheckTypes' /\ ToCome' /\ NotDue' /\ StatusTold' /\ UncheckedOnce' /\ (Trusted' <=> Trusted)
    BY <2>1 DEF CheckInv, CheckTypes, ToCome, NotDue, Trusted, StatusTold, UncheckedOnce
  <2>3. SlipsOnce'
    BY <2>1, <2>2, Zenon DEF CheckInv, StatusTold, SlipsOnce
  <2> QED BY <2>2, <2>3 DEF CheckInv
<1> QED
  BY <1>1, <1>2, RenderClientChecks, CheckEndsChecks, EffectChecks, SendChecks, AskEndsChecks
     DEF WidgetNext

\* However many clients follow each other and however late their checks and their
\* answers come: fewer questions than clients slip through unchecked.
THEOREM FewGoUnchecked == WidgetSpec => []UncheckedOnce
<1>1. CheckInv => UncheckedOnce
  BY DEF CheckInv
<1> QED BY <1>1, ChecksStart, CheckStep, PTL DEF WidgetSpec

-------------------------------------------------------------------------------
(* The types *)

AskedMessage == [role : {"user", "assistant"}, q : 1..Questions]

LEMMA WidgetTypesStart == WidgetInit => WidgetTypeOK
<1> SUFFICES ASSUME WidgetInit PROVE WidgetTypeOK
  OBVIOUS
<1>1. client \in 1..Clients /\ asked \in 0..Questions /\ unchecked \in Nat
  <2>1. client = 1 /\ asked = 0 /\ unchecked = 0
    BY Zenon DEF WidgetInit
  <2> QED BY <2>1, WidgetAssumption
<1>2. checks \in [1..Clients -> {"none", "under way", "passed", "failed"}]
  BY DEF WidgetInit
<1>3. messages \in Seq(AskedMessage)
  <2>1. messages = <<>>
    BY Zenon DEF WidgetInit
  <2> QED BY <2>1
<1>4. asking = {} /\ {status, shown} \subseteq Statuses
  BY DEF WidgetInit, Statuses
<1>5. {due, sending, error, alive, cleared, lateCheck} \subseteq BOOLEAN
  BY Zenon DEF WidgetInit
<1> QED BY <1>1, <1>2, <1>3, <1>4, <1>5, Zenon DEF WidgetTypeOK, AskedMessage

\* The transcript, the questions under way, the status and the flags, one by one.
LEMMA FlagsKeep ==
  ASSUME {due, sending, error, alive, cleared, lateCheck} \subseteq BOOLEAN,
         [WidgetNext]_widgetVars
  PROVE  {due', sending', error', alive', cleared', lateCheck'} \subseteq BOOLEAN
<1> USE Zenon DEF WidgetNext, CheckEnds, RenderClient, Effect, Renders, Send, Reset, Unmount,
                  AskEnds, widgetVars
<1>1. /\ due \in BOOLEAN /\ sending \in BOOLEAN /\ error \in BOOLEAN /\ alive \in BOOLEAN
      /\ cleared \in BOOLEAN /\ lateCheck \in BOOLEAN
  OBVIOUS
<1>2. due' \in BOOLEAN
  BY <1>1
<1>3. sending' \in BOOLEAN
  BY <1>1
<1>4. error' \in BOOLEAN
  BY <1>1
<1>5. alive' \in BOOLEAN
  BY <1>1
<1>6. cleared' \in BOOLEAN
  BY <1>1
<1>7. lateCheck' \in BOOLEAN
  BY <1>1
<1> QED BY <1>2, <1>3, <1>4, <1>5, <1>6, <1>7, Zenon

LEMMA StatusesKeep ==
  ASSUME {status, shown} \subseteq Statuses, [WidgetNext]_widgetVars
  PROVE  {status', shown'} \subseteq Statuses
<1>1. \A set \in Statuses : CheckedAgain(set) \in Statuses
  BY DEF CheckedAgain, Statuses
<1>2. \A o : SessionStatus(o) \in Statuses
  BY DEF SessionStatus, Statuses
<1>3. "not-configured" \in Statuses
  BY DEF Statuses
<1>4. status \in Statuses /\ shown \in Statuses
  OBVIOUS
<1>5. status' \in Statuses
  BY <1>1, <1>2, <1>3, <1>4, Zenon
     DEF WidgetNext, CheckEnds, RenderClient, Effect, Renders, Send, Reset, Unmount, AskEnds, widgetVars
<1>6. shown' \in Statuses
  BY <1>4, <1>5, Zenon
     DEF WidgetNext, CheckEnds, RenderClient, Effect, Renders, Send, Reset, Unmount, AskEnds, widgetVars
<1> QED BY <1>5, <1>6

LEMMA ChecksKeep ==
  ASSUME client \in 1..Clients,
         checks \in [1..Clients -> {"none", "under way", "passed", "failed"}],
         [WidgetNext]_widgetVars
  PROVE  checks' \in [1..Clients -> {"none", "under way", "passed", "failed"}]
<1>1. Started \in [1..Clients -> {"none", "under way", "passed", "failed"}]
  BY DEF Started
<1>2. ASSUME NEW c \in 1..Clients, NEW o, CheckEnds(c, o)
      PROVE  checks' \in [1..Clients -> {"none", "under way", "passed", "failed"}]
  BY <1>2 DEF CheckEnds
<1>3. checks' = checks \/ checks' = Started \/ \E c \in 1..Clients : \E o : CheckEnds(c, o)
  BY Zenon DEF WidgetNext, RenderClient, Effect, Renders, Send, Reset, Unmount, AskEnds, widgetVars
<1> QED BY <1>1, <1>2, <1>3, Zenon

LEMMA WidgetTypesStep == WidgetTypeOK /\ [WidgetNext]_widgetVars => WidgetTypeOK'
<1> SUFFICES ASSUME WidgetTypeOK, [WidgetNext]_widgetVars PROVE WidgetTypeOK'
  OBVIOUS
<1> DEFINE questions == [q : 1..Questions, on : 1..Clients]
           Kept == /\ client' \in 1..Clients /\ asking' \subseteq questions /\ asked' \in 0..Questions
                   /\ messages' \in Seq(AskedMessage)
<1>1. /\ client \in 1..Clients /\ asking \subseteq questions /\ asked \in 0..Questions
      /\ messages \in Seq(AskedMessage)
  BY Zenon DEF WidgetTypeOK, AskedMessage
<1>2. /\ {due', sending', error', alive', cleared', lateCheck'} \subseteq BOOLEAN
      /\ {status', shown'} \subseteq Statuses
      /\ checks' \in [1..Clients -> {"none", "under way", "passed", "failed"}]
  BY FlagsKeep, StatusesKeep, ChecksKeep, Zenon DEF WidgetTypeOK
<1>0. unchecked' \in Nat
  <2>1. unchecked' = unchecked \/ unchecked' = unchecked + 1
    BY Zenon DEF WidgetNext, CheckEnds, RenderClient, Effect, Renders, Send, Reset, Unmount, AskEnds,
                 widgetVars
  <2>2. unchecked \in Nat
    BY Zenon DEF WidgetTypeOK
  <2> QED BY <2>1, <2>2
<1> SUFFICES Kept
  BY <1>0, <1>2, Zenon DEF WidgetTypeOK, AskedMessage
<1>3. CASE UNCHANGED <<client, asking, asked, messages>>
  BY <1>1, <1>3, Zenon
<1>4. CASE RenderClient
  <2>1. client' = client + 1 /\ client < Clients /\ UNCHANGED <<asking, asked, messages>>
    BY <1>4 DEF RenderClient
  <2>2. client' \in 1..Clients
    <3>1. client \in 1..Clients /\ client' = client + 1 /\ client < Clients
      BY <1>1, <2>1, Zenon
    <3> QED BY <3>1, WidgetAssumption
  <2> QED BY <1>1, <2>1, <2>2, Zenon
<1>5. CASE Send
  <2> DEFINE m == [role |-> "user", q |-> asked + 1]
  <2>1. /\ asked < Questions /\ asked' = asked + 1 /\ client' = client
        /\ asking' = asking \cup {[q |-> asked + 1, on |-> client]}
        /\ messages' = Append(messages, m)
    BY <1>5, Zenon DEF Send
  <2>2. asked + 1 \in 1..Questions /\ asked' \in 0..Questions
    <3>1. asked \in 0..Questions /\ asked < Questions /\ asked' = asked + 1
      BY <1>1, <2>1, Zenon
    <3> QED BY <3>1, WidgetAssumption
  <2>3. m \in AskedMessage
    BY <2>2 DEF AskedMessage
  <2>4. messages' \in Seq(AskedMessage)
    <3>1. messages \in Seq(AskedMessage) /\ messages' = Append(messages, m)
      BY <1>1, <2>1, Zenon
    <3> HIDE DEF m
    <3> QED BY <2>3, <3>1
  <2>5. [q |-> asked + 1, on |-> client] \in questions
    BY <1>1, <2>2
  <2>6. asking' \subseteq questions
    BY <1>1, <2>1, <2>5, Zenon
  <2> QED BY <1>1, <2>1, <2>2, <2>4, <2>6, Zenon
<1>6. ASSUME NEW a \in asking, NEW o, AskEnds(a, o) PROVE Kept
  <2> DEFINE m == [role |-> "assistant", q |-> a.q]
  <2>1. asking' = asking \ {a} /\ UNCHANGED <<client, asked>>
    BY <1>6 DEF AskEnds
  <2>2. messages' = messages \/ messages' = Append(messages, m)
    BY <1>6, Zenon DEF AskEnds
  <2>3. a \in questions
    BY <1>1
  <2>4. m \in AskedMessage
    BY <2>3 DEF AskedMessage
  <2>5. messages' \in Seq(AskedMessage)
    <3>1. messages \in Seq(AskedMessage)
      BY <1>1
    <3> HIDE DEF m
    <3> QED BY <2>2, <2>4, <3>1
  <2> QED BY <1>1, <2>1, <2>5, Zenon
<1>7. CASE Reset
  <2>1. messages' = <<>> /\ UNCHANGED <<client, asking, asked>>
    BY <1>7, Zenon DEF Reset
  <2>2. messages' \in Seq(AskedMessage)
    BY <2>1
  <2> QED BY <1>1, <2>1, <2>2, Zenon
<1>8. \/ UNCHANGED <<client, asking, asked, messages>> \/ RenderClient \/ Send \/ Reset
      \/ \E a \in asking : \E o : AskEnds(a, o)
  BY Zenon DEF WidgetNext, CheckEnds, Effect, Renders, Unmount, widgetVars
<1> QED BY <1>3, <1>4, <1>5, <1>6, <1>7, <1>8, Zenon

\* The widget's clients, questions, transcript, status and flags stay in their
\* domains.
THEOREM WidgetTypesHold == WidgetSpec => []WidgetTypeOK
<1> QED BY WidgetTypesStart, WidgetTypesStep, PTL DEF WidgetSpec
-------------------------------------------------------------------------------
(* All that a question passes through *)

\* What the run explores are behaviours of each component: so what is proved of
\* a component holds of the run's.
THEOREM PathImplements ==
  PathSpec =>
    /\ Spec /\ AskSpec /\ LiveSpec /\ ChunkSpec /\ ConnSpec
    /\ KeysSpec /\ BreakerSpec /\ RetentionSpec /\ WidgetSpec
<1>1. PathInit =>
        /\ Init /\ AskInit /\ LiveInit /\ ChunkInit /\ ConnInit
        /\ KeysInit /\ BreakerInit /\ RetentionInit /\ WidgetInit
  BY DEF PathInit
<1>2. [PathNext]_pathVars =>
        /\ [Next]_vars /\ [AskNext]_askVars /\ [LiveNext]_liveVars /\ [ChunkNext]_chunkVars
        /\ [ConnNext]_connVars /\ [KeysNext]_keysVars /\ [BreakerNext]_breakerVars
        /\ [RetentionNext]_retentionVars /\ [WidgetNext]_widgetVars
  BY DEF PathNext, pathVars, Only
<1> QED
  BY <1>1, <1>2, PTL
     DEF PathSpec, Spec, AskSpec, LiveSpec, ChunkSpec, ConnSpec, KeysSpec, BreakerSpec,
         RetentionSpec, WidgetSpec

\* The types of all nine.
THEOREM PathTypes == PathSpec => []PathTypeOK
<1>1. ConnInv => ConnTypeOK
  BY DEF ConnInv
<1> QED
  BY <1>1, PathImplements, TypeCorrect, AskTypesHold, LiveTypesHold, ChunkTypesHold,
     ConnectorsInvariance, KeysTypesHold, BreakerTypesHold, RetentionTypesHold, WidgetTypesHold,
     PTL DEF PathTypeOK
===============================================================================
