----------------------- MODULE RemoteSupervisorProofs -----------------------
(***************************************************************************)
(* Proofs about RemoteSupervisor, for any number of requests, crashes,     *)
(* failed spawns and slow exits, and a switch that works or does not.  The *)
(* tally of a request (waiting, or answered) is kept by every way a link   *)
(* can end; that the answer is a true one needs to know which helper a     *)
(* waiting request can have gone to.                                       *)
(***************************************************************************)
EXTENDS RemoteSupervisor, FiniteSetTheorems, TLAPS

(* How often request t was answered, and whether it still waits.           *)
Tally(t) == said[t][TRUE] + said[t][FALSE] + (IF t \in pending THEN 1 ELSE 0)

(* CompletedOnce without the cardinality of a singleton.                   *)
Tallied == \A t \in Tag : Tally(t) = IF asked[t] = "nothing" THEN 0 ELSE 1

(* The next tag and those after it have not been used.                     *)
TagsAreFresh == \A t \in Tag : t >= nextTag => asked[t] = "nothing"

(* Nothing waits on a link that is down.                                   *)
ClosedIsEmpty == ~channel => pending = {}

(* A request to set a switch that works waits only for a full helper.      *)
FullHelperIsAsked ==
    works => \A t \in pending : asked[t] # "ask" => ~childIsDormant /\ asked[t] = "on"

(* What the switch says now is one of the values it had since it was set.  *)
FlagIsHeld ==
    works => \A t \in Tag : asked[t] \in {"on", "off"} => flag \in held[t]

(* A request to set the switch is on since it was asked.                   *)
OnIsHeld == \A t \in Tag : asked[t] = "on" => TRUE \in held[t]

IInv ==
    /\ TypeOK /\ OneHelper /\ Tallied /\ TagsAreFresh /\ ClosedIsEmpty
    /\ FullHelperIsAsked /\ FlagIsHeld /\ OnIsHeld /\ SetIsAnsweredTruly

(* The type invariant, in the part about the requests and the rest.        *)
WireTyped ==
    /\ pending \subseteq Tag /\ nextTag \in 1..(MaxRequests + 1)
    /\ asked \in [Tag -> Op \cup {"nothing"}] /\ held \in [Tag -> SUBSET BOOLEAN]
    /\ said \in [Tag -> [BOOLEAN -> Nat]]

ProcTyped ==
    /\ works \in BOOLEAN /\ flag \in BOOLEAN /\ channel \in BOOLEAN
    /\ childIsDormant \in BOOLEAN /\ term \in BOOLEAN /\ lost \in BOOLEAN
    /\ recent \in BOOLEAN
    /\ child \in Alive \cup {"none", "closing", "zombie"}
    /\ respawn \in {"none", "now", "later"}
    /\ orphans \in Nat /\ pollers \in Nat
    /\ crashes \in Nat /\ spawnFailures \in Nat /\ slowExits \in Nat
    /\ written \subseteq pending

-----------------------------------------------------------------------------
(* The bound on requests is a number, so that the tags are one.            *)
LEMMA BoundIsNat == MaxRequests \in Nat
  BY RemoteBoundsAssumption

(* Waiting counts for one.                                                 *)
LEMMA WaitingCount ==
  ASSUME NEW S, NEW t
  PROVE  Cardinality(S \cap {t}) = IF t \in S THEN 1 ELSE 0
  <1>1. CASE t \in S
    <2>1. S \cap {t} = {t}
      BY <1>1
    <2> QED BY <1>1, <2>1, FS_Singleton
  <1>2. CASE t \notin S
    <2>1. S \cap {t} = {}
      BY <1>2
    <2> QED BY <1>2, <2>1, FS_EmptySet
  <1> QED BY <1>1, <1>2

(* `next` has one answer more than `said` for each of the tags, in the     *)
(* value `on` and in no other.                                             *)
OneMore(next, tags, on) ==
    /\ next \in [Tag -> [BOOLEAN -> Nat]]
    /\ \A t \in Tag : next[t][TRUE] + next[t][FALSE]
                        = said[t][TRUE] + said[t][FALSE] + IF t \in tags THEN 1 ELSE 0
    /\ \A t \in Tag, b \in BOOLEAN :
         next[t][b] > 0 => said[t][b] > 0 \/ (t \in tags /\ b = on)

(* That is what `answered` does.                                           *)
LEMMA AnsweredOnceMore ==
  ASSUME said \in [Tag -> [BOOLEAN -> Nat]], NEW tags, NEW on \in BOOLEAN
  PROVE  OneMore(answered(tags, on), tags, on)
  <1>1. ASSUME NEW t \in Tag
        PROVE  /\ answered(tags, on)[t] \in [BOOLEAN -> Nat]
               /\ \A b \in BOOLEAN : answered(tags, on)[t][b]
                     = IF t \in tags /\ b = on THEN said[t][b] + 1 ELSE said[t][b]
    BY DEF answered
  <1>2. answered(tags, on) \in [Tag -> [BOOLEAN -> Nat]]
    BY <1>1 DEF answered
  <1>3. ASSUME NEW t \in Tag
        PROVE  answered(tags, on)[t][TRUE] + answered(tags, on)[t][FALSE]
                = said[t][TRUE] + said[t][FALSE] + IF t \in tags THEN 1 ELSE 0
    <2> DEFINE st == said[t][TRUE]  sf == said[t][FALSE]
               at == answered(tags, on)[t][TRUE]  af == answered(tags, on)[t][FALSE]
    <2>1. st \in Nat /\ sf \in Nat
      OBVIOUS
    <2>2. \/ af = sf /\ at = (IF t \in tags THEN st + 1 ELSE st)
          \/ at = st /\ af = (IF t \in tags THEN sf + 1 ELSE sf)
      BY <1>1
    <2> HIDE DEF st, sf, at, af
    <2>3. at + af = st + sf + IF t \in tags THEN 1 ELSE 0
      BY <2>1, <2>2
    <2> QED BY <2>3 DEF st, sf, at, af
  <1>4. ASSUME NEW t \in Tag, NEW b \in BOOLEAN, answered(tags, on)[t][b] > 0
        PROVE  said[t][b] > 0 \/ (t \in tags /\ b = on)
    BY <1>1, <1>4
  <1> QED BY <1>2, <1>3, <1>4 DEF OneMore

(* Answering some of the waiting requests keeps everybody's tally, and the *)
(* answers are true ones if each may be given.                             *)
LEMMA AnswersKeep ==
  ASSUME IInv, NEW tags \in SUBSET pending, NEW on \in BOOLEAN,
         said' = answered(tags, on), pending' = pending \ tags,
         UNCHANGED <<works, flag, nextTag, asked, held>>,
         works => \A t \in tags : asked[t] \in {"on", "off"} => on \in held[t]
  PROVE  /\ said' \in [Tag -> [BOOLEAN -> Nat]] /\ pending' \subseteq Tag
         /\ Tallied' /\ TagsAreFresh' /\ FlagIsHeld' /\ OnIsHeld' /\ SetIsAnsweredTruly'
  <1>1. said \in [Tag -> [BOOLEAN -> Nat]] /\ pending \subseteq Tag
    BY DEF IInv, TypeOK
  <1>6. OneMore(said', tags, on)
    BY <1>1, AnsweredOnceMore
  <1>2. said' \in [Tag -> [BOOLEAN -> Nat]] /\ pending' \subseteq Tag
    BY <1>1, <1>6 DEF OneMore
  <1>3. Tallied'
    <2> SUFFICES ASSUME NEW t \in Tag
                 PROVE  Tally(t)' = IF asked'[t] = "nothing" THEN 0 ELSE 1
      BY DEF Tallied
    <2>1. Tally(t) = IF asked[t] = "nothing" THEN 0 ELSE 1
      BY DEF IInv, Tallied
    <2> DEFINE n == said[t][TRUE] + said[t][FALSE]  m == said'[t][TRUE] + said'[t][FALSE]
    <2>2. n \in Nat
      <3> DEFINE a == said[t][TRUE]  b == said[t][FALSE]
      <3>1. a \in Nat /\ b \in Nat
        BY <1>1
      <3> HIDE DEF a, b
      <3>2. a + b \in Nat
        BY <3>1
      <3> QED BY <3>2 DEF a, b
    <2>5. m = n + IF t \in tags THEN 1 ELSE 0
      BY <1>6 DEF OneMore
    <2>3. Tally(t) = n + (IF t \in pending THEN 1 ELSE 0)
          /\ Tally(t)' = m + (IF t \in pending' THEN 1 ELSE 0)
      BY DEF Tally
    <2> HIDE DEF n, m
    <2>4. Tally(t)' = Tally(t)
      BY <2>2, <2>3, <2>5
    <2> QED BY <2>1, <2>4
  <1>4. TagsAreFresh' /\ FlagIsHeld' /\ OnIsHeld'
    BY DEF IInv, TagsAreFresh, FlagIsHeld, OnIsHeld
  <1>5. SetIsAnsweredTruly'
    <2> SUFFICES ASSUME works, NEW t \in Tag, asked[t] \in {"on", "off"}, NEW b \in BOOLEAN,
                        said'[t][b] > 0
                 PROVE  b \in held[t]
      BY DEF SetIsAnsweredTruly
    <2>1. said[t][b] > 0 \/ (t \in tags /\ b = on)
      BY <1>6 DEF OneMore
    <2> QED BY <2>1 DEF IInv, SetIsAnsweredTruly
  <1> QED BY <1>2, <1>3, <1>4, <1>5

(* A new request is on nobody's tally yet.                                 *)
LEMMA AskedIsFresh ==
  ASSUME IInv, NEW t \in Tag, t = nextTag
  PROVE  asked[t] = "nothing" /\ t \notin pending /\ said[t][TRUE] = 0 /\ said[t][FALSE] = 0
  <1>1. asked[t] = "nothing"
    BY BoundIsNat DEF IInv, TagsAreFresh, Tag
  <1> DEFINE a == said[t][TRUE]  b == said[t][FALSE]
  <1>2. a \in Nat /\ b \in Nat
    BY DEF IInv, TypeOK
  <1>3. a + b + (IF t \in pending THEN 1 ELSE 0) = 0
    BY <1>1 DEF IInv, Tallied, Tally
  <1> HIDE DEF a, b
  <1>4. t \notin pending /\ a = 0 /\ b = 0
    BY <1>2, <1>3
  <1> QED BY <1>1, <1>4 DEF a, b

(* A request is filed, with the effect on the switch that its kind has.    *)
Files(t, op) ==
    /\ Ask(t, op) /\ works' = works /\ flag' \in BOOLEAN
    /\ op = "ask" => flag' = flag
    /\ works => (op = "on" => flag' = TRUE) /\ (op = "off" => flag' = FALSE)

(* Ask files the request and the value it sets; what the switch then says  *)
(* is among the values of everybody who set it before.                     *)
LEMMA AskKeeps ==
  ASSUME IInv, NEW t \in Tag, NEW op \in Op, Files(t, op)
  PROVE  /\ nextTag' \in 1..(MaxRequests + 1) /\ asked' \in [Tag -> Op \cup {"nothing"}]
         /\ held' \in [Tag -> SUBSET BOOLEAN]
         /\ asked'[t] = op /\ \A u \in Tag : u # t => asked'[u] = asked[u]
         /\ \A u \in Tag : held[u] \subseteq held'[u]
         /\ TagsAreFresh' /\ FlagIsHeld' /\ OnIsHeld'
  <1>1. asked \in [Tag -> Op \cup {"nothing"}] /\ held \in [Tag -> SUBSET BOOLEAN]
        /\ nextTag \in 1..(MaxRequests + 1)
    BY DEF IInv, TypeOK
  <1>2. nextTag' \in 1..(MaxRequests + 1) /\ nextTag' = nextTag + 1
    BY <1>1, BoundIsNat DEF Ask, Tag, Files
  <1>3. asked' \in [Tag -> Op \cup {"nothing"}] /\ asked'[t] = op
        /\ \A u \in Tag : u # t => asked'[u] = asked[u]
    BY <1>1 DEF Ask, Files
  <1>4. held' \in [Tag -> SUBSET BOOLEAN] /\ \A u \in Tag : held[u] \subseteq held'[u]
    BY <1>1 DEF Ask, Files
  <1>5. TagsAreFresh'
    BY <1>1, <1>2, <1>3, BoundIsNat DEF IInv, TagsAreFresh, Ask, Tag, Files
  <1>6. ASSUME op # "ask", NEW u \in Tag, u = t \/ asked[u] # "nothing"
        PROVE  (op = "on") \in held'[u]
    BY <1>1, <1>6 DEF Ask, Files
  <1>7. OnIsHeld'
    <2> SUFFICES ASSUME NEW u \in Tag, asked'[u] = "on" PROVE TRUE \in held'[u]
      BY DEF OnIsHeld
    <2>1. CASE u = t
      BY <1>3, <1>6, <2>1
    <2>2. CASE u # t
      BY <1>3, <1>4, <2>2 DEF IInv, OnIsHeld
    <2> QED BY <2>1, <2>2
  <1>8. FlagIsHeld'
    <2> SUFFICES ASSUME works, NEW u \in Tag, asked'[u] \in {"on", "off"}
                 PROVE  flag' \in held'[u]
      BY DEF FlagIsHeld, Files
    <2>1. CASE op = "ask"
      <3>1. u # t /\ flag' = flag
        BY <1>3, <2>1 DEF Files
      <3> QED BY <1>3, <1>4, <3>1 DEF IInv, FlagIsHeld, Files
    <2>2. CASE op # "ask"
      <3>1. flag' = (op = "on")
        BY <2>2 DEF Op, Files
      <3>2. u = t \/ asked[u] # "nothing"
        BY <1>3
      <3> QED BY <1>6, <2>2, <3>1, <3>2
    <2> QED BY <2>1, <2>2
  <1> QED BY <1>2, <1>3, <1>4, <1>5, <1>7, <1>8

(* Answering nobody changes nothing.                                       *)
LEMMA AnsweredNobody ==
  ASSUME said \in [Tag -> [BOOLEAN -> Nat]], NEW on \in BOOLEAN
  PROVE  answered({}, on) = said
  BY DEF answered

(* A new request, of which some and of the waiting ones some are answered  *)
(* in the same step, goes onto the tally once.                             *)
LEMMA AskAnswersKeep ==
  ASSUME IInv, NEW t \in Tag, NEW op \in Op, Files(t, op),
         NEW tags \in SUBSET (pending \cup {t}), NEW on \in BOOLEAN,
         said' = answered(tags, on), pending' = (pending \cup {t}) \ tags,
         works => \A u \in tags : asked'[u] \in {"on", "off"} => on \in held'[u]
  PROVE  /\ WireTyped'
         /\ Tallied' /\ TagsAreFresh' /\ FlagIsHeld' /\ OnIsHeld' /\ SetIsAnsweredTruly'
  <1>1. said \in [Tag -> [BOOLEAN -> Nat]] /\ pending \subseteq Tag
    BY DEF IInv, TypeOK
  <1>2. OneMore(said', tags, on)
    BY <1>1, AnsweredOnceMore
  <1>3. /\ nextTag' \in 1..(MaxRequests + 1) /\ asked' \in [Tag -> Op \cup {"nothing"}]
        /\ held' \in [Tag -> SUBSET BOOLEAN]
        /\ asked'[t] = op /\ \A u \in Tag : u # t => asked'[u] = asked[u]
        /\ \A u \in Tag : held[u] \subseteq held'[u]
        /\ TagsAreFresh' /\ FlagIsHeld' /\ OnIsHeld'
    BY AskKeeps
  <1>4. asked[t] = "nothing" /\ t \notin pending /\ said[t][TRUE] = 0 /\ said[t][FALSE] = 0
    BY AskedIsFresh DEF Ask, Files
  <1>5. WireTyped'
    BY <1>1, <1>2, <1>3 DEF WireTyped, OneMore
  <1>6. Tallied'
    <2> SUFFICES ASSUME NEW u \in Tag
                 PROVE  Tally(u)' = IF asked'[u] = "nothing" THEN 0 ELSE 1
      BY DEF Tallied
    <2> DEFINE n == said[u][TRUE] + said[u][FALSE]  m == said'[u][TRUE] + said'[u][FALSE]
    <2>1. m = n + IF u \in tags THEN 1 ELSE 0
      BY <1>2 DEF OneMore
    <2>2. Tally(u) = n + (IF u \in pending THEN 1 ELSE 0)
          /\ Tally(u)' = m + (IF u \in pending' THEN 1 ELSE 0)
      BY DEF Tally
    <2>3. CASE u = t
      <3>1. n = 0
        <4> DEFINE a == said[u][TRUE]  b == said[u][FALSE]
        <4>1. a = 0 /\ b = 0
          BY <1>4, <2>3
        <4> HIDE DEF a, b
        <4>2. a + b = 0
          BY <4>1
        <4> QED BY <4>2 DEF a, b
      <3> HIDE DEF n, m
      <3>2. Tally(u)' = 1
        BY <2>1, <2>2, <2>3, <3>1
      <3>3. asked'[u] # "nothing"
        BY <1>3, <2>3 DEF Op
      <3> QED BY <3>2, <3>3
    <2>4. CASE u # t
      <3>1. n \in Nat
        <4> DEFINE a == said[u][TRUE]  b == said[u][FALSE]
        <4>1. a \in Nat /\ b \in Nat
          BY <1>1
        <4> HIDE DEF a, b
        <4>2. a + b \in Nat
          BY <4>1
        <4> QED BY <4>2 DEF a, b
      <3> HIDE DEF n, m
      <3>2. Tally(u)' = Tally(u)
        BY <2>1, <2>2, <2>4, <3>1
      <3>3. asked'[u] = asked[u]
        BY <1>3, <2>4
      <3> QED BY <3>2, <3>3 DEF IInv, Tallied
    <2> QED BY <2>3, <2>4
  <1>7. SetIsAnsweredTruly'
    <2> SUFFICES ASSUME works, NEW u \in Tag, asked'[u] \in {"on", "off"}, NEW b \in BOOLEAN,
                        said'[u][b] > 0
                 PROVE  b \in held'[u]
      BY DEF SetIsAnsweredTruly, Files
    <2>1. said[u][b] > 0 \/ (u \in tags /\ b = on)
      BY <1>2 DEF OneMore
    <2>2. CASE u \in tags /\ b = on
      BY <2>2
    <2>3. CASE said[u][b] > 0
      <3>1. u # t
        <4>1. said[t][b] = 0
          <5>1. b = TRUE \/ b = FALSE
            OBVIOUS
          <5> QED BY <1>4, <5>1
        <4> QED BY <2>3, <4>1
      <3> QED BY <1>3, <2>3, <3>1 DEF IInv, SetIsAnsweredTruly
    <2> QED BY <2>1, <2>2, <2>3
  <1> QED BY <1>3, <1>5, <1>6, <1>7

(* So does a new request that only waits.                                  *)
LEMMA AskWaitsKeep ==
  ASSUME IInv, NEW t \in Tag, NEW op \in Op, Files(t, op), said' = said,
         pending' = pending \cup {t}
  PROVE  /\ WireTyped'
         /\ Tallied' /\ TagsAreFresh' /\ FlagIsHeld' /\ OnIsHeld' /\ SetIsAnsweredTruly'
  <1> DEFINE tags == {}
  <1>1. said' = answered(tags, TRUE)
    BY AnsweredNobody DEF IInv, TypeOK
  <1>2. pending' = (pending \cup {t}) \ tags /\ tags \in SUBSET (pending \cup {t})
        /\ \A u \in tags : asked'[u] \in {"on", "off"} => TRUE \in held'[u]
    OBVIOUS
  <1> HIDE DEF tags
  <1> QED BY <1>1, <1>2, AskAnswersKeep

(* A step that leaves the requests alone keeps the invariant if it does    *)
(* not put another helper behind the ones that wait.                       *)
LEMMA QuietKeeps ==
  ASSUME IInv, UNCHANGED <<works, flag, nextTag, asked, held, pending, said>>, ProcTyped', OneHelper',
         pending # {} => channel' /\ childIsDormant' = childIsDormant
  PROVE  IInv'
  <1>1. WireTyped' /\ TypeOK'
    BY DEF IInv, TypeOK, WireTyped, ProcTyped
  <1>2. Tallied'
    BY DEF IInv, Tallied, Tally
  <1>3. TagsAreFresh' /\ FlagIsHeld' /\ OnIsHeld' /\ SetIsAnsweredTruly'
    BY DEF IInv, TagsAreFresh, FlagIsHeld, OnIsHeld, SetIsAnsweredTruly
  <1>4. ClosedIsEmpty' /\ FullHelperIsAsked'
    BY DEF IInv, ClosedIsEmpty, FullHelperIsAsked
  <1> QED BY <1>1, <1>2, <1>3, <1>4 DEF IInv

-----------------------------------------------------------------------------
(* With nothing asked and no helper, nothing is on anybody's tally.        *)
LEMMA InitKeeps == Init => IInv
  <1> SUFFICES ASSUME Init PROVE IInv
    OBVIOUS
  <1>1. ProcTyped
    BY SwitchFileAssumption DEF Init, ProcTyped, isEnabled
  <1>2. WireTyped
    BY BoundIsNat DEF Init, WireTyped
  <1>3. Tallied
    <2> SUFFICES ASSUME NEW t \in Tag PROVE Tally(t) = 0 /\ asked[t] = "nothing"
      BY DEF Tallied
    <2> DEFINE a == said[t][TRUE]  b == said[t][FALSE]
    <2>1. a = 0 /\ b = 0 /\ asked[t] = "nothing" /\ t \notin pending
      BY DEF Init
    <2>2. Tally(t) = a + b + (IF t \in pending THEN 1 ELSE 0)
      BY DEF Tally
    <2> HIDE DEF a, b
    <2> QED BY <2>1, <2>2
  <1>4. \A t \in Tag : asked[t] = "nothing"
    BY DEF Init
  <1> QED BY <1>1, <1>2, <1>3, <1>4 DEF Init, IInv, TypeOK, ProcTyped, WireTyped, OneHelper,
             TagsAreFresh, ClosedIsEmpty, FullHelperIsAsked, FlagIsHeld, OnIsHeld,
             SetIsAnsweredTruly

(* What the helper and the kernel do is seen on the link only later.       *)
LEMMA HelperKeeps ==
  ASSUME IInv,
         \/ HelperIgnoresSIGTERM \/ HelperServes \/ HelperExits \/ DormantHelperIdles
         \/ HelperCrashes \/ ExitIsWaitable
         \/ \E t \in Tag : HelperAnswers(t)
  PROVE  IInv'
  <1>1. UNCHANGED <<helperKeeps, pending, said>>
    BY DEF HelperIgnoresSIGTERM, HelperServes, HelperExits, DormantHelperIdles, HelperCrashes,
           ExitIsWaitable, HelperAnswers, wireVars
  <1>2. child' \in Alive \cup {"none", "closing", "zombie"} /\ written' \subseteq pending
        /\ crashes' \in Nat
    BY DEF HelperIgnoresSIGTERM, HelperServes, HelperExits, DormantHelperIdles, HelperCrashes,
           ExitIsWaitable, HelperAnswers, wireVars, IInv, TypeOK, Alive
  <1>3. ProcTyped'
    BY <1>1, <1>2 DEF IInv, TypeOK, ProcTyped, helperKeeps
  <1>4. pending # {} => channel' /\ childIsDormant' = childIsDormant
    BY <1>1 DEF IInv, ClosedIsEmpty, helperKeeps
  <1>5. OneHelper'
    BY <1>1 DEF IInv, OneHelper, helperKeeps
  <1> QED BY <1>1, <1>3, <1>4, <1>5, QuietKeeps DEF helperKeeps

(* A reply takes its request off the waiting ones; a set that waits was    *)
(* sent to a full helper, whose answer is that the switch is on.           *)
LEMMA ReadReplyKeeps ==
  ASSUME IInv, NEW t \in Tag, ReadReply(t)
  PROVE  IInv'
  <1>1. /\ channel /\ t \in pending /\ pending' = pending \ {t} /\ written' = written \ {t}
        /\ said' = answered({t}, ~childIsDormant)
        /\ UNCHANGED <<channel, child, pollers, respawn, procVars>>
    BY DEF ReadReply, pendingAfterReply, IInv, TypeOK
  <1>2. works /\ asked[t] \in {"on", "off"} => (~childIsDormant) \in held[t]
    <2> SUFFICES ASSUME works, asked[t] \in {"on", "off"} PROVE (~childIsDormant) \in held[t]
      OBVIOUS
    <2>1. ~childIsDormant /\ asked[t] = "on"
      BY <1>1 DEF IInv, FullHelperIsAsked
    <2>2. (~childIsDormant) = TRUE
      BY <2>1
    <2> QED BY <2>1, <2>2 DEF IInv, OnIsHeld
  <1> DEFINE on == ~childIsDormant
  <1>a. on \in BOOLEAN /\ said' = answered({t}, on) /\ {t} \in SUBSET pending
    BY <1>1
  <1>b. works => \A u \in {t} : asked[u] \in {"on", "off"} => on \in held[u]
    BY <1>2
  <1> HIDE DEF on
  <1>3. /\ said' \in [Tag -> [BOOLEAN -> Nat]] /\ pending' \subseteq Tag
        /\ Tallied' /\ TagsAreFresh' /\ FlagIsHeld' /\ OnIsHeld' /\ SetIsAnsweredTruly'
    BY <1>1, <1>a, <1>b, AnswersKeep DEF procVars
  <1>4. TypeOK' /\ OneHelper'
    BY <1>1, <1>3 DEF IInv, TypeOK, OneHelper, procVars, boundVars
  <1>5. ClosedIsEmpty' /\ FullHelperIsAsked'
    BY <1>1 DEF IInv, ClosedIsEmpty, FullHelperIsAsked, procVars
  <1> QED BY <1>3, <1>4, <1>5 DEF IInv

(* The end of the link answers all that wait with what the switch says,    *)
(* which is what it was last set to.                                       *)
LEMMA LinkClosedKeeps ==
  ASSUME IInv, NEW queued \in Nat, handleLinkClosed(pending, queued, isEnabled), UNCHANGED procVars
  PROVE  IInv'
  <1>1. isEnabled \in BOOLEAN /\ (works => isEnabled = flag)
    BY DEF IInv, TypeOK, isEnabled
  <1>2. /\ channel' = FALSE /\ pending' = {} /\ written' = {}
        /\ said' = answered(pending, isEnabled)
        /\ child' = IF child = "zombie" THEN "none" ELSE child
        /\ pollers' \in Nat
        /\ respawn' \in {"none", "now", "later"}
    BY DEF handleLinkClosed, scheduleRespawn, IInv, TypeOK
  <1>3. works => \A t \in pending : asked[t] \in {"on", "off"} => isEnabled \in held[t]
    BY <1>1 DEF IInv, FlagIsHeld, TypeOK
  <1>4. pending' = pending \ pending /\ pending \in SUBSET pending
    BY <1>2
  <1>5. /\ said' \in [Tag -> [BOOLEAN -> Nat]] /\ pending' \subseteq Tag
        /\ Tallied' /\ TagsAreFresh' /\ FlagIsHeld' /\ OnIsHeld' /\ SetIsAnsweredTruly'
    BY <1>1, <1>2, <1>3, <1>4, AnswersKeep DEF procVars
  <1>6. child' \in Alive \cup {"none", "closing", "zombie"}
    BY <1>2 DEF IInv, TypeOK
  <1>7. TypeOK' /\ OneHelper'
    BY <1>2, <1>5, <1>6 DEF IInv, TypeOK, OneHelper, procVars, boundVars
  <1>8. ClosedIsEmpty' /\ FullHelperIsAsked'
    BY <1>2 DEF ClosedIsEmpty, FullHelperIsAsked
  <1> QED BY <1>5, <1>7, <1>8 DEF IInv

(* reap closes the link, or finds it closed and waits for the child.       *)
LEMMA ReapKeeps ==
  ASSUME IInv, NEW queued \in Nat, reap(queued), UNCHANGED procVars
  PROVE  IInv'
  <1> DEFINE again == IF child = "zombie" THEN queued ELSE queued + 1
  <1>1. again \in Nat
    OBVIOUS
  <1>2. CASE channel /\ handleLinkClosed(pending, again, isEnabled)
    BY <1>1, <1>2, LinkClosedKeeps
  <1>3. CASE ~channel
    <2>1. /\ child' = IF child = "zombie" THEN "none" ELSE child
          /\ pollers' = again
          /\ respawn' \in {"none", "now", "later"}
          /\ UNCHANGED <<channel, wireVars>>
      BY <1>3 DEF reap, scheduleRespawn, IInv, TypeOK
    <2>2. ProcTyped'
      BY <1>1, <2>1 DEF IInv, TypeOK, ProcTyped, procVars, wireVars, boundVars
    <2>3. OneHelper' /\ (pending # {} => channel' /\ childIsDormant' = childIsDormant)
      BY <1>3 DEF IInv, OneHelper, procVars, ClosedIsEmpty
    <2> QED BY <2>1, <2>2, <2>3, QuietKeeps DEF procVars, wireVars
  <1> QED BY <1>2, <1>3 DEF reap

(* The exit note, EOF and the polls, in whichever order they come.         *)
LEMMA EndsKeep ==
  ASSUME IInv, ReadEOF \/ ExitSourceFires \/ PollFires
  PROVE  IInv'
  <1>1. pollers \in Nat
    BY DEF IInv, TypeOK
  <1>2. CASE ReadEOF
    BY <1>1, <1>2, LinkClosedKeeps DEF ReadEOF
  <1>3. CASE ExitSourceFires
    BY <1>1, <1>3, ReapKeeps DEF ExitSourceFires
  <1>4. CASE PollFires
    <2>1. pollers - 1 \in Nat
      BY <1>1, <1>4 DEF PollFires
    <2>2. CASE child # "none"
      BY <1>4, <2>1, <2>2, ReapKeeps DEF PollFires
    <2>3. CASE child = "none"
      <3>1. pollers' = pollers - 1 /\ UNCHANGED <<channel, child, respawn, wireVars, procVars>>
        BY <1>4, <2>3 DEF PollFires
      <3>2. ProcTyped'
        BY <2>1, <3>1 DEF IInv, TypeOK, ProcTyped, procVars, wireVars, boundVars
      <3>3. OneHelper' /\ (pending # {} => channel' /\ childIsDormant' = childIsDormant)
        BY <3>1 DEF IInv, OneHelper, procVars, ClosedIsEmpty
      <3> QED BY <3>1, <3>2, <3>3, QuietKeeps DEF procVars, wireVars
    <2> QED BY <2>2, <2>3
  <1> QED BY <1>2, <1>3, <1>4

(* A helper is spawned where there is none, and nothing waits for it yet;  *)
(* one that cannot be spawned changes nothing but the pacing.              *)
LEMMA RespawnKeeps == ASSUME IInv, Respawn \/ DelayPasses PROVE IInv'
  <1>1. UNCHANGED <<works, flag, lost, pollers, nextTag, asked, held, pending, written, said, crashes>>
    BY DEF Respawn, DelayPasses, wireVars
  <1>2. CASE Respawn /\ respawnMay /\ spawn(FALSE) /\ respawn' = "none"
    <2>1. ~channel /\ child = "none" /\ orphans' = orphans /\ pending = {}
      BY <1>2 DEF respawnMay, spawn, IInv, ClosedIsEmpty
    <2>2. child' = "starting" /\ childIsDormant' = FALSE /\ channel' = TRUE /\ term' = FALSE
          /\ recent' = TRUE /\ spawnFailures' = spawnFailures /\ slowExits' = slowExits
      BY <1>2 DEF spawn, Respawn
    <2>3. child' \in Alive \cup {"none", "closing", "zombie"} /\ respawn' \in {"none", "now", "later"}
      BY <1>2, <2>2 DEF Alive
    <2>4. ProcTyped'
      BY <1>1, <2>1, <2>2, <2>3 DEF IInv, TypeOK, ProcTyped
    <2> QED BY <1>1, <2>1, <2>4, QuietKeeps DEF IInv, OneHelper
  <1>3. CASE (Respawn \/ DelayPasses) /\ UNCHANGED <<channel, child, childIsDormant, term, orphans>>
    <2>1. recent' \in BOOLEAN /\ respawn' \in {"none", "now", "later"} /\ spawnFailures' \in Nat
          /\ slowExits' \in Nat
      <3>1. recent' \in BOOLEAN
        BY <1>3 DEF Respawn, DelayPasses, spawn, spawnFails, IInv, TypeOK
      <3>2. respawn' \in {"none", "now", "later"}
        BY <1>3 DEF Respawn, DelayPasses, IInv, TypeOK
      <3>3. spawnFailures' \in Nat
        BY <1>3 DEF Respawn, DelayPasses, spawn, spawnFails, IInv, TypeOK
      <3>4. slowExits' \in Nat
        <4>1. slowExits \in Nat
          BY DEF IInv, TypeOK
        <4>2. slowExits' = slowExits \/ slowExits' = slowExits + 1
          BY <1>3 DEF Respawn, DelayPasses
        <4> QED BY <4>1, <4>2
      <3> QED BY <3>1, <3>2, <3>3, <3>4
    <2>2. ProcTyped'
      BY <1>1, <1>3, <2>1 DEF IInv, TypeOK, ProcTyped
    <2>3. OneHelper' /\ (pending # {} => channel' /\ childIsDormant' = childIsDormant)
      BY <1>3 DEF IInv, OneHelper, ClosedIsEmpty
    <2> QED BY <1>1, <2>2, <2>3, QuietKeeps
  <1> QED BY <1>2, <1>3 DEF Respawn, DelayPasses, spawnFails

-----------------------------------------------------------------------------
(* What is left to show of a step that handles a request, once its effect  *)
(* on the tally is known.                                                  *)
LEMMA RequestKeeps ==
  ASSUME IInv, ProcTyped', WireTyped', OneHelper',
         Tallied' /\ TagsAreFresh' /\ FlagIsHeld' /\ OnIsHeld' /\ SetIsAnsweredTruly',
         ClosedIsEmpty', FullHelperIsAsked'
  PROVE  IInv'
  BY DEF IInv, TypeOK, ProcTyped, WireTyped

(* A request forwarded to a helper that is gone finds the link closed.     *)
LEMMA ForwardTyped ==
  ASSUME IInv, NEW t \in Tag, NEW on \in BOOLEAN, forward(t, on)
  PROVE  /\ \/ said' = said /\ pending' = pending \cup {t} /\ written' = written
               /\ channel' = TRUE
            \/ said' = answered(pending \cup {t}, on) /\ pending' = {} /\ written' = {}
               /\ channel' = FALSE
         /\ child' \in Alive \cup {"none", "closing", "zombie"} /\ pollers' \in Nat
         /\ respawn' \in {"none", "now", "later"} /\ channel' \in BOOLEAN
         /\ written' \subseteq pending'
         /\ channel /\ UNCHANGED <<childIsDormant, term, orphans, recent, spawnFailures>>
  <1>1. channel /\ UNCHANGED <<childIsDormant, term, orphans, recent, spawnFailures>>
    BY DEF forward
  <1>2. CASE child \in Alive
    <2>1. pending' = pending \cup {t} /\ UNCHANGED <<written, said, channel, child, pollers, respawn>>
      BY <1>2 DEF forward
    <2> QED BY <1>1, <2>1 DEF IInv, TypeOK
  <1>3. CASE child \notin Alive
    <2>1. handleLinkClosed(pending \cup {t}, pollers, on)
      BY <1>3 DEF forward
    <2>2. /\ said' = answered(pending \cup {t}, on) /\ pending' = {} /\ written' = {}
          /\ channel' = FALSE
      BY <2>1 DEF handleLinkClosed
    <2>3. child' \in Alive \cup {"none", "closing", "zombie"} /\ pollers' \in Nat
      BY <2>1 DEF handleLinkClosed, IInv, TypeOK
    <2>4. respawn' \in {"none", "now", "later"}
      BY <2>1 DEF handleLinkClosed, scheduleRespawn, IInv, TypeOK
    <2> QED BY <1>1, <2>2, <2>3, <2>4
  <1> QED BY <1>2, <1>3

(* A request that is forwarded waits for a full helper if it sets the      *)
(* switch; one whose link is gone is answered with what the switch says.   *)
LEMMA ForwardKeeps ==
  ASSUME IInv, NEW t \in Tag, NEW op \in Op, Files(t, op), NEW on \in BOOLEAN, forward(t, on),
         lost' \in BOOLEAN, UNCHANGED <<crashes, slowExits>>,
         works => on = flag' /\ op # "off" /\ (op = "on" => ~childIsDormant)
  PROVE  IInv'
  <1>1. asked'[t] = op /\ (\A u \in Tag : u # t => asked'[u] = asked[u]) /\ FlagIsHeld'
    BY AskKeeps
  <1>2. pending \subseteq Tag /\ t \notin pending
    BY AskedIsFresh DEF Ask, Files, IInv, TypeOK
  <1>3. ProcTyped' /\ OneHelper'
    BY ForwardTyped DEF IInv, TypeOK, ProcTyped, OneHelper, Files
  <1>4. CASE said' = said /\ pending' = pending \cup {t} /\ channel' = TRUE
    <2>1. WireTyped' /\ Tallied' /\ TagsAreFresh' /\ FlagIsHeld' /\ OnIsHeld' /\ SetIsAnsweredTruly'
      BY <1>4, AskWaitsKeep
    <2>2. childIsDormant' = childIsDormant /\ works' = works
      BY ForwardTyped DEF Files
    <2>3. ClosedIsEmpty' /\ FullHelperIsAsked'
      BY <1>1, <1>2, <1>4, <2>2 DEF IInv, ClosedIsEmpty, FullHelperIsAsked, Op
    <2> QED BY <1>3, <2>1, <2>3, RequestKeeps
  <1>5. CASE said' = answered(pending \cup {t}, on) /\ pending' = {} /\ channel' = FALSE
    <2>1. works => \A u \in pending \cup {t} : asked'[u] \in {"on", "off"} => on \in held'[u]
      BY <1>1, <1>2 DEF FlagIsHeld, Files
    <2>2. pending' = (pending \cup {t}) \ (pending \cup {t})
      BY <1>5
    <2>3. WireTyped' /\ Tallied' /\ TagsAreFresh' /\ FlagIsHeld' /\ OnIsHeld' /\ SetIsAnsweredTruly'
      BY <1>5, <2>1, <2>2, AskAnswersKeep
    <2>4. ClosedIsEmpty' /\ FullHelperIsAsked'
      BY <1>5 DEF ClosedIsEmpty, FullHelperIsAsked
    <2> QED BY <1>3, <2>3, <2>4, RequestKeeps
  <1> QED BY <1>4, <1>5, ForwardTyped

(* A request that a helper is spawned for is the only one that waits.      *)
LEMMA SpawnKeeps ==
  ASSUME IInv, NEW t \in Tag, NEW op \in Op, Files(t, op), NEW dormant \in BOOLEAN,
         ~channel, child = "none", spawn(dormant), pending' = pending \cup {t},
         respawn' \in {"none", "now", "later"},
         UNCHANGED <<written, said, lost, pollers, crashes, slowExits>>,
         works => op = "ask" \/ (op = "on" /\ ~dormant)
  PROVE  IInv'
  <1>1. asked'[t] = op /\ works' = works
    BY AskKeeps DEF Files
  <1>2. pending = {} /\ orphans' = orphans /\ child' = "starting" /\ childIsDormant' = dormant
        /\ channel' = TRUE /\ term' = FALSE /\ recent' = TRUE /\ spawnFailures' = spawnFailures
    BY DEF spawn, IInv, ClosedIsEmpty
  <1>3. child' \in Alive \cup {"none", "closing", "zombie"} /\ written' \subseteq pending'
    BY <1>2 DEF Alive, IInv, TypeOK
  <1>4. ProcTyped' /\ OneHelper'
    BY <1>2, <1>3 DEF IInv, TypeOK, ProcTyped, OneHelper, Files
  <1>5. WireTyped' /\ Tallied' /\ TagsAreFresh' /\ FlagIsHeld' /\ OnIsHeld' /\ SetIsAnsweredTruly'
    BY AskWaitsKeep
  <1>6. ClosedIsEmpty' /\ FullHelperIsAsked'
    BY <1>1, <1>2 DEF ClosedIsEmpty, FullHelperIsAsked
  <1> QED BY <1>4, <1>5, <1>6, RequestKeeps

(* A request that is answered from here says what the switch was set to.   *)
LEMMA OfflineKeeps ==
  ASSUME IInv, NEW t \in Tag, NEW op \in Op, Files(t, op), NEW on \in BOOLEAN, offlineStatus(t, on),
         UNCHANGED <<channel, childIsDormant, orphans>>, ProcTyped',
         works => op = "ask" \/ on = flag'
  PROVE  IInv'
  <1>1. asked'[t] = op /\ (\A u \in Tag : u # t => asked'[u] = asked[u]) /\ FlagIsHeld'
    BY AskKeeps
  <1>2. pending \subseteq Tag /\ t \notin pending /\ works' = works
    BY AskedIsFresh DEF Ask, Files, IInv, TypeOK
  <1>3. said' = answered({t}, on) /\ pending' = (pending \cup {t}) \ {t}
    BY <1>2 DEF offlineStatus
  <1>4. works => \A u \in {t} : asked'[u] \in {"on", "off"} => on \in held'[u]
    BY <1>1, <1>2 DEF FlagIsHeld
  <1>5. WireTyped' /\ Tallied' /\ TagsAreFresh' /\ FlagIsHeld' /\ OnIsHeld' /\ SetIsAnsweredTruly'
    BY <1>3, <1>4, AskAnswersKeep
  <1>6. ClosedIsEmpty' /\ FullHelperIsAsked' /\ OneHelper'
    BY <1>1, <1>2 DEF offlineStatus, IInv, ClosedIsEmpty, FullHelperIsAsked, OneHelper
  <1> QED BY <1>5, <1>6, RequestKeeps

(* A spawn that fails touches no helper.                                   *)
LEMMA SpawnFailsTyped ==
  ASSUME IInv, spawnFails
  PROVE  /\ UNCHANGED <<channel, child, childIsDormant, term, orphans>>
         /\ recent' \in BOOLEAN /\ spawnFailures' \in Nat
  BY DEF spawnFails, IInv, TypeOK

(* A question that is handed on whole.                                     *)
LEMMA ManageKeeps == ASSUME IInv, NEW t \in Tag, Manage(t) PROVE IInv'
  <1>1. Files(t, "ask") /\ "ask" \in Op /\ UNCHANGED <<works, flag, lost, crashes, slowExits>>
    BY DEF Manage, Op, Files, IInv, TypeOK
  <1>2. flag' \in BOOLEAN /\ lost' \in BOOLEAN /\ isEnabled \in BOOLEAN /\ (works => isEnabled = flag')
    BY <1>1 DEF IInv, TypeOK, isEnabled
  <1>3. CASE forward(t, isEnabled)
    BY <1>1, <1>2, <1>3, ForwardKeeps
  <1>4. CASE ~channel /\ child = "none" /\ askDormant(t) /\ UNCHANGED <<pollers, respawn>>
    <2>1. CASE spawn(TRUE) /\ pending' = pending \cup {t} /\ UNCHANGED <<written, said>>
      BY <1>1, <1>4, <2>1, SpawnKeeps DEF IInv, TypeOK
    <2>2. CASE spawnFails /\ offlineStatus(t, FALSE)
      <3>1. ProcTyped'
        BY <1>1, <1>4, <2>2, SpawnFailsTyped DEF offlineStatus, IInv, TypeOK, ProcTyped
      <3> QED BY <1>1, <2>2, <3>1, SpawnFailsTyped, OfflineKeeps
    <2> QED BY <1>4, <2>1, <2>2 DEF askDormant
  <1>5. CASE /\ offlineStatus(t, isEnabled)
             /\ UNCHANGED <<channel, child, childIsDormant, term, orphans, respawn, recent,
                            pollers, spawnFailures>>
    <2>1. ProcTyped'
      BY <1>1, <1>5 DEF offlineStatus, IInv, TypeOK, ProcTyped
    <2> QED BY <1>1, <1>2, <1>5, <2>1, OfflineKeeps
  <1> QED BY <1>3, <1>4, <1>5 DEF Manage

(* Turning on with no helper, and with every way its spawn can fail.       *)
LEMMA TurnOnKeeps == ASSUME IInv, NEW t \in Tag, TurnOn(t) PROVE IInv'
  <1>1. Files(t, "on") /\ "on" \in Op /\ UNCHANGED <<works, lost, pollers, crashes, slowExits>>
    BY DEF TurnOn, Op, Files, IInv, TypeOK
  <1>2. ~channel /\ child = "none" /\ flag' = (works \/ flag) /\ flag' \in BOOLEAN
    BY DEF TurnOn, IInv, TypeOK
  <1>3. respawn' \in {"none", "now", "later"}
    BY DEF TurnOn, scheduleRespawn, IInv, TypeOK
  <1>4. CASE spawn(FALSE) /\ pending' = pending \cup {t} /\ UNCHANGED <<written, said>>
    BY <1>1, <1>2, <1>3, <1>4, SpawnKeeps
  <1>5. CASE ~works /\ spawn(TRUE) /\ pending' = pending \cup {t} /\ UNCHANGED <<written, said>>
    BY <1>1, <1>2, <1>3, <1>5, SpawnKeeps
  <1>6. ASSUME NEW on \in BOOLEAN, spawnFails, offlineStatus(t, on), works => on = TRUE
        PROVE  IInv'
    <2>1. ProcTyped'
      BY <1>1, <1>2, <1>3, <1>6, SpawnFailsTyped DEF offlineStatus, IInv, TypeOK, ProcTyped
    <2>2. works => on = flag'
      BY <1>2, <1>6
    <2> QED BY <1>1, <1>6, <2>1, <2>2, SpawnFailsTyped, OfflineKeeps
  <1> QED BY <1>4, <1>5, <1>6 DEF TurnOn, askDormant

(* Turning on over a helper: a dormant one is answered for.                *)
LEMMA TurnOnOverKeeps == ASSUME IInv, NEW t \in Tag, TurnOnOver(t) PROVE IInv'
  <1>1. Files(t, "on") /\ "on" \in Op /\ UNCHANGED <<works, crashes, slowExits>>
    BY DEF TurnOnOver, Op, Files, IInv, TypeOK
  <1>2. flag' = (works \/ flag) /\ flag' \in BOOLEAN /\ works \in BOOLEAN
    BY DEF TurnOnOver, IInv, TypeOK
  <1>3. CASE /\ stop /\ offlineStatus(t, TRUE)
             /\ UNCHANGED <<channel, pollers, respawn, childIsDormant, orphans, recent, spawnFailures>>
    <2>1. child' \in Alive \cup {"none", "closing", "zombie"} /\ term' \in BOOLEAN /\ lost' \in BOOLEAN
      BY <1>3 DEF stop, IInv, TypeOK
    <2>2. ProcTyped'
      BY <1>1, <1>2, <1>3, <2>1 DEF offlineStatus, IInv, TypeOK, ProcTyped
    <2> QED BY <1>1, <1>2, <1>3, <2>2, OfflineKeeps
  <1>4. CASE ~wasDormant /\ forward(t, works) /\ UNCHANGED lost
    <2>1. lost' \in BOOLEAN /\ channel /\ ~childIsDormant
      BY <1>4 DEF IInv, TypeOK, wasDormant, forward
    <2> QED BY <1>1, <1>2, <1>4, <2>1, ForwardKeeps
  <1>5. CASE /\ offlineStatus(t, works)
             /\ UNCHANGED <<channel, child, lost, term, pollers, respawn, childIsDormant, orphans,
                            recent, spawnFailures>>
    <2>1. ProcTyped'
      BY <1>1, <1>2, <1>5 DEF offlineStatus, IInv, TypeOK, ProcTyped
    <2> QED BY <1>1, <1>2, <1>5, <2>1, OfflineKeeps
  <1> QED BY <1>3, <1>4, <1>5 DEF TurnOnOver

(* Turning off is answered at once, whatever the helper does.              *)
LEMMA TurnOffKeeps == ASSUME IInv, NEW t \in Tag, TurnOff(t) PROVE IInv'
  <1>1. Files(t, "off") /\ "off" \in Op /\ offlineStatus(t, FALSE)
        /\ UNCHANGED <<works, channel, childIsDormant, orphans, respawn, recent, pollers, boundVars>>
    BY DEF TurnOff, Op, Files, IInv, TypeOK
  <1>2. child' \in Alive \cup {"none", "closing", "zombie"} /\ term' \in BOOLEAN /\ lost' \in BOOLEAN
    BY DEF TurnOff, stop, IInv, TypeOK
  <1>3. ProcTyped'
    BY <1>1, <1>2 DEF Files, offlineStatus, IInv, TypeOK, ProcTyped, boundVars
  <1>4. works => FALSE = flag'
    BY <1>1 DEF Files
  <1> QED BY <1>1, <1>3, <1>4, OfflineKeeps

-----------------------------------------------------------------------------
(* The inductive invariant of the remote helper's supervision holds for    *)
(* ever.                                                                   *)
THEOREM SupervisionInvariant == Spec => []IInv
  <1>1. Init => IInv
    BY InitKeeps
  <1>2. ASSUME IInv, [Next]_vars PROVE IInv'
    <2>1. CASE Next
      BY <1>2, <2>1, ManageKeeps, TurnOnKeeps, TurnOnOverKeeps, TurnOffKeeps, ReadReplyKeeps,
         HelperKeeps, EndsKeep, RespawnKeeps DEF Next
    <2>2. CASE UNCHANGED vars
      <3>1. ProcTyped'
        BY <1>2, <2>2 DEF vars, wireVars, boundVars, IInv, TypeOK, ProcTyped
      <3>2. OneHelper' /\ (pending # {} => channel' /\ childIsDormant' = childIsDormant)
        BY <1>2, <2>2 DEF vars, IInv, OneHelper, ClosedIsEmpty
      <3> QED BY <1>2, <2>2, <3>1, <3>2, QuietKeeps DEF vars, wireVars
    <2> QED BY <1>2, <2>1, <2>2
  <1> QED BY <1>1, <1>2, PTL DEF Spec

(* Every variable of the supervisor keeps its type.                        *)
THEOREM TypeCorrect == Spec => []TypeOK
  BY SupervisionInvariant, PTL DEF IInv

(* No helper is ever spawned over one that has not been reaped, whatever   *)
(* order exit notes, polls, respawns and requests come in.                 *)
THEOREM OneHelperOnly == Spec => []OneHelper
  BY SupervisionInvariant, PTL DEF IInv

(* Every request is completed exactly once, or is still waiting: none is   *)
(* dropped and none is answered twice when the helper dies under it.       *)
THEOREM RequestsCompletedOnce == Spec => []CompletedOnce
  <1>1. IInv => CompletedOnce
    BY WaitingCount DEF IInv, Tallied, Tally, CompletedOnce
  <1> QED BY <1>1, SupervisionInvariant, PTL

(* With a switch that works, setRemoteAccess is answered with a value the  *)
(* switch has had since, never with the state of a helper of before.       *)
THEOREM SetAnsweredTruly == Spec => []SetIsAnsweredTruly
  BY SupervisionInvariant, PTL DEF IInv
=============================================================================
