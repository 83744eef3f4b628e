----------------------- MODULE DiscoveryRegistryProofs -----------------------
(***************************************************************************)
(* The registry file is never half written, and remembers every discovery  *)
(* topic that a later cleanup has to clear: for every finite set of        *)
(* devices, any number of handlers at a time, and an end of the process at *)
(* any step.                                                               *)
(***************************************************************************)
EXTENDS DiscoveryRegistry, ListLemmas

How == {"merge", "prune", "reset"}

\* The steps of a handler with their arguments.
HandlerStep ==
    [type : {"announce", "message", "clear"}, arg : Device]
      \cup [type : {"desired"}, arg : How]
      \cup [type : {"load"}, arg : How \X SUBSET Device]
      \cup [type : {"open"}, arg : SUBSET Device]
      \cup [type : {"write"}, arg : Inode \X SUBSET Device]
      \cup [type : {"save", "replace"}, arg : {NoFile}]

\* What may come before what in a handler: announcements and messages before
\* the step that loads or saves, the topics to clear before the file is opened,
\* the write before the rename.
Before(x, z) ==
    \/ x.type \in {"announce", "message"}
         /\ z.type \in {"announce", "message", "desired", "save"}
    \/ x.type = "clear" /\ z.type \in {"clear", "open"}
    \/ x.type = "write" /\ z.type = "replace"

\* Lists of steps in such an order; no write without its rename.
Shape(s) ==
    /\ \A i, j \in 1 .. Len(s) : i < j => Before(s[i], s[j])
    /\ \A i \in 1 .. Len(s) : s[i].type = "write" => i < Len(s)

Pending(t) == Holds(todo[t])

TodoInv ==
    /\ todo \in [Thread -> Seq(HandlerStep)]
    /\ \A t \in Thread : Shape(todo[t])

\* As long as no two saves have overlapped one thread at most is in a save,
\* the temporary file is its own, and what it renames is whole.
FileInv ==
    ~collided =>
      /\ \A t, u \in Saving : t = u
      /\ \A t \in Saving :
           /\ tmp # NoFile
           /\ At(t, "write") => Arg(t)[1] = tmp /\ content[tmp] = Torn
           /\ At(t, "replace") => content[tmp] # Torn
      /\ RegistryWhole

\* Undisturbed, there is one handler at most, and it saves alone.
SingleInv ==
    ~disturbed => ~collided /\ \A t, u \in Busy : t = u

Clears(t) == {x.arg : x \in {y \in Pending(t) : y.type = "clear"}}
None(types) == \A t \in Thread : \A x \in Pending(t) : x.type \notin types

\* The step fits the configuration that is in force.
Fits(t, x) ==
    /\ x.type = "message" => x.arg \in devices
    /\ x.type = "desired" /\ cleanup => x.arg # "merge"
    /\ x.type = "load" => x.arg[2] = devices /\ (cleanup => x.arg[1] # "merge")
    /\ x.type = "open" /\ cleanup => x.arg \subseteq devices
    /\ x.type = "write" /\ cleanup => x.arg[2] \subseteq devices
    /\ At(t, "replace") /\ cleanup => content[tmp] \subseteq devices

\* What the step saves names everything the broker retains, but for what was
\* dropped from the registry, or the same handler is about to clear it.
Tracks(t, x) ==
    /\ x.type = "open" => broker \subseteq x.arg \cup Clears(t) \cup overwritten
    /\ x.type = "write" => broker \subseteq x.arg[2] \cup overwritten
    /\ At(t, "replace") => broker \subseteq content[tmp] \cup overwritten

\* Undisturbed, what the broker retains is wanted or tracked: by the registry,
\* by the save that is under way, or because the handler is about to clear it.
TrackInv ==
    ~disturbed =>
      /\ \A t \in Thread : \A x \in Pending(t) : Fits(t, x)
      /\ cleanup /\ Up /\ ~uncleaned
           /\ None({"desired", "load", "open", "write", "replace"})
           => broker \subseteq devices \cup overwritten
      /\ None({"open", "write", "replace"})
           => broker \subseteq Contents \cup devices \cup overwritten
      /\ \A t \in Thread : \A x \in Pending(t) : Tracks(t, x)

-----------------------------------------------------------------------------
(***************************************************************************)
(* The lists of steps.                                                     *)
(***************************************************************************)
\* A list that is not empty is its first element and the rest.
LEMMA HeadAndTail ==
    ASSUME NEW T, NEW s \in Seq(T), s # << >>
    PROVE  /\ Head(s) \in T /\ Tail(s) \in Seq(T)
           /\ Head(s) \in Holds(s)
           /\ Holds(s) = {Head(s)} \cup Holds(Tail(s))
<1>1. /\ Len(s) \in Nat \ {0} /\ Head(s) = s[1] /\ Head(s) \in T
      /\ Tail(s) \in Seq(T) /\ Len(Tail(s)) = Len(s) - 1
      /\ \A i \in 1 .. Len(s) - 1 : Tail(s)[i] = s[i + 1]
  OBVIOUS
<1>2. Head(s) \in Holds(s)
  <2>1. 1 \in 1 .. Len(s)
    BY <1>1
  <2> QED
    BY <1>1, <2>1 DEF Holds
<1>3. Holds(Tail(s)) \subseteq Holds(s)
  <2>1. ASSUME NEW i \in 1 .. Len(Tail(s))
        PROVE  Tail(s)[i] \in Holds(s)
    <3>1. i + 1 \in 1 .. Len(s) /\ Tail(s)[i] = s[i + 1]
      BY <1>1
    <3> QED
      BY <3>1 DEF Holds
  <2> QED
    BY <2>1 DEF Holds
<1>4. ASSUME NEW i \in 1 .. Len(s)
      PROVE  s[i] \in {Head(s)} \cup Holds(Tail(s))
  <2>1. CASE i = 1
    BY <1>1, <2>1
  <2>2. CASE i # 1
    <3>1. i - 1 \in 1 .. Len(Tail(s)) /\ Tail(s)[i - 1] = s[i]
      BY <1>1, <2>2
    <3> QED
      BY <3>1 DEF Holds
  <2> QED
    BY <2>1, <2>2
<1> QED
  BY <1>1, <1>2, <1>3, <1>4 DEF Holds

\* The rest of a well-shaped list is one, and comes after the first.
LEMMA ShapeOfTail ==
    ASSUME NEW T, NEW s \in Seq(T), s # << >>, Shape(s)
    PROVE  /\ Shape(Tail(s))
           /\ \A z \in Holds(Tail(s)) : Before(Head(s), z)
           /\ (\A z : ~Before(Head(s), z)) => Tail(s) = << >>
           /\ Head(s).type = "write" => Tail(s) # << >>
<1>1. /\ Len(s) \in Nat \ {0} /\ Head(s) = s[1]
      /\ Tail(s) \in Seq(T) /\ Len(Tail(s)) = Len(s) - 1
      /\ \A i \in 1 .. Len(s) - 1 : Tail(s)[i] = s[i + 1]
  OBVIOUS
<1>2. Shape(Tail(s))
  <2>1. ASSUME NEW i \in 1 .. Len(Tail(s)), NEW j \in 1 .. Len(Tail(s)), i < j
        PROVE  Before(Tail(s)[i], Tail(s)[j])
    <3>1. /\ i + 1 \in 1 .. Len(s) /\ j + 1 \in 1 .. Len(s) /\ i + 1 < j + 1
          /\ Tail(s)[i] = s[i + 1] /\ Tail(s)[j] = s[j + 1]
      BY <1>1, <2>1
    <3> QED
      BY <3>1 DEF Shape
  <2>2. ASSUME NEW i \in 1 .. Len(Tail(s)), Tail(s)[i].type = "write"
        PROVE  i < Len(Tail(s))
    <3>1. i + 1 \in 1 .. Len(s) /\ s[i + 1].type = "write"
      BY <1>1, <2>2
    <3>2. i + 1 < Len(s)
      BY <3>1 DEF Shape
    <3> QED
      BY <1>1, <3>2
  <2> QED
    BY <2>1, <2>2 DEF Shape
<1>3. ASSUME NEW i \in 1 .. Len(Tail(s))
      PROVE  Before(Head(s), Tail(s)[i])
  <2>1. 1 \in 1 .. Len(s) /\ i + 1 \in 1 .. Len(s) /\ 1 < i + 1 /\ Tail(s)[i] = s[i + 1]
    BY <1>1
  <2> QED
    BY <1>1, <2>1 DEF Shape
<1>4. ASSUME \A z : ~Before(Head(s), z)
      PROVE  Tail(s) = << >>
  <2>1. Len(Tail(s)) = 0
    <3>1. \A i \in 1 .. Len(Tail(s)) : FALSE
      BY <1>3, <1>4
    <3> QED
      BY <1>1, <3>1
  <2> QED
    BY <1>1, <2>1, EmptySeq
<1>5. ASSUME Head(s).type = "write"
      PROVE  Tail(s) # << >>
  <2>1. 1 \in 1 .. Len(s) /\ s[1].type = "write"
    BY <1>1, <1>5
  <2>2. Len(Tail(s)) # 0
    BY <1>1, <2>1 DEF Shape
  <2> QED
    BY <1>1, <2>2, EmptySeq
<1> QED
  BY <1>2, <1>3, <1>4, <1>5 DEF Holds

\* No handler starts with a step of a save, or reaches one but by opening the
\* file.
Harmless(s) == \A x \in Holds(s) : x.type \notin {"write", "replace"}

\* A step for each element of a finite set, then one more.
Listed(type, S, z) == {Step(type, x) : x \in S} \cup {z}

\* A handler that does one thing for each of a set and then a last one: its
\* steps, their order and what they are.
LEMMA EachThenLast ==
    ASSUME NEW type, NEW S, IsFiniteSet(S), NEW z \in HandlerStep,
           \A x \in S : Step(type, x) \in HandlerStep,
           \A x \in S : Before(Step(type, x), z),
           \A x, y \in S : Before(Step(type, x), Step(type, y)),
           z.type # "write"
    PROVE  /\ Each(type, S) \o << z >> \in Seq(HandlerStep)
           /\ Shape(Each(type, S) \o << z >>)
           /\ Holds(Each(type, S) \o << z >>) = Listed(type, S, z)
<1> DEFINE n == Cardinality(S)
           e == Each(type, S)
           s == e \o << z >>
           E == {Step(type, x) : x \in S}
<1>1. /\ n \in Nat /\ SetToSeq(S) \in [1 .. n -> S]
      /\ \A x \in S : \E i \in 1 .. n : SetToSeq(S)[i] = x
  BY SetToSeqProperties
<1>2. /\ e = [i \in 1 .. n |-> Step(type, SetToSeq(S)[i])]
      /\ \A i \in 1 .. n : e[i] = Step(type, SetToSeq(S)[i])
  BY DEF Each
<1> HIDE DEF n, e
<1>3. e \in [1 .. n -> E \cap HandlerStep]
  BY <1>1, <1>2
<1>4. e \in Seq(HandlerStep) /\ Len(e) = n
  BY <1>1, <1>3
<1>5. Holds(e) = E
  <2>1. \A i \in 1 .. n : e[i] \in E
    BY <1>3
  <2>2. ASSUME NEW x \in S
        PROVE  Step(type, x) \in Holds(e)
    <3>1. PICK i \in 1 .. n : SetToSeq(S)[i] = x
      BY <1>1
    <3> QED
      BY <1>2, <1>4, <3>1 DEF Holds
  <2> QED
    BY <1>4, <2>1, <2>2 DEF Holds
<1>6. << z >> \in Seq(HandlerStep) /\ Holds(<< z >>) = {z}
  BY DEF Holds
<1>7. s \in Seq(HandlerStep) /\ Holds(s) = E \cup {z}
  <2> HIDE DEF E
  <2>1. s \in Seq(HandlerStep) /\ Holds(s) = Holds(e) \cup Holds(<< z >>)
    BY <1>4, <1>6, ConcatHolds
  <2> QED
    BY <1>5, <1>6, <2>1
<1>8. Shape(s)
  <2>1. Len(s) = n + 1 /\ s[n + 1] = z /\ \A i \in 1 .. n : s[i] = e[i]
    BY <1>1, <1>4
  <2>0. ASSUME NEW i \in 1 .. n + 1, s[i].type = "write"
        PROVE  i < n + 1
    BY <1>1, <2>0, <2>1
  <2> HIDE DEF s
  <2> SUFFICES ASSUME NEW i \in 1 .. n + 1, NEW j \in 1 .. n + 1, i < j
               PROVE  Before(s[i], s[j])
    BY <2>0, <2>1 DEF Shape
  <2>2. i \in 1 .. n /\ SetToSeq(S)[i] \in S /\ s[i] = Step(type, SetToSeq(S)[i])
    BY <1>1, <1>2, <2>1
  <2>3. CASE j = n + 1
    BY <2>1, <2>2, <2>3
  <2>4. CASE j # n + 1
    <3>1. j \in 1 .. n /\ SetToSeq(S)[j] \in S /\ s[j] = Step(type, SetToSeq(S)[j])
      BY <1>1, <1>2, <2>1, <2>4
    <3> QED
      BY <2>2, <3>1
  <2> QED
    BY <2>3, <2>4
<1> QED
  BY <1>7, <1>8 DEF e, Listed

\* A list of one step.
LEMMA OneStep ==
    ASSUME NEW T, NEW z \in T, z.type # "write"
    PROVE  << z >> \in Seq(T) /\ Shape(<< z >>) /\ Holds(<< z >>) = {z} /\ << z >> # << >>
<1>1. << z >> \in Seq(T) /\ Len(<< z >>) = 1 /\ << z >>[1] = z
  OBVIOUS
<1>2. Shape(<< z >>)
  BY <1>1 DEF Shape
<1> QED
  BY <1>1, <1>2 DEF Holds

-----------------------------------------------------------------------------
(***************************************************************************)
(* What a step does to the list of its thread.                             *)
(***************************************************************************)
\* The first step of a handler.
LEMMA FirstStep ==
    ASSUME TodoInv, NEW t \in Thread, ~Idle(t)
    PROVE  LET h == Head(todo[t]) IN
             /\ h \in HandlerStep /\ h \in Pending(t)
             /\ Tail(todo[t]) \in Seq(HandlerStep) /\ Shape(Tail(todo[t]))
             /\ Pending(t) = {h} \cup Holds(Tail(todo[t]))
             /\ \A z \in Holds(Tail(todo[t])) : Before(h, z)
             /\ h.type \in {"desired", "load", "save", "open", "replace"}
                  => Tail(todo[t]) = << >>
             /\ h.type = "write" => Tail(todo[t]) # << >>
<1>1. todo[t] \in Seq(HandlerStep) /\ Shape(todo[t]) /\ todo[t] # << >>
  BY DEF TodoInv, Idle
<1>2. Head(todo[t]).type \in {"desired", "load", "save", "open", "replace"}
        => \A z : ~Before(Head(todo[t]), z)
  BY DEF Before
<1> QED
  BY <1>1, <1>2, HeadAndTail, ShapeOfTail DEF Pending

\* A handler goes on with its next step.
LEMMA ThenNext ==
    ASSUME TodoInv, NEW t \in Thread, ~Idle(t), Then(t, << >>)
    PROVE  todo' = [todo EXCEPT ![t] = Tail(todo[t])]
<1>1. << >> \o Tail(todo[t]) = Tail(todo[t])
  BY FirstStep
<1> QED
  BY <1>1 DEF Then

\* The last step of a handler turns into others.
LEMMA ThenOthers ==
    ASSUME TodoInv, NEW t \in Thread, NEW type, At(t, type),
           type \in {"desired", "load", "save", "open"},
           NEW s \in Seq(HandlerStep), Then(t, s)
    PROVE  todo' = [todo EXCEPT ![t] = s]
<1>1. Tail(todo[t]) = << >>
  BY FirstStep DEF At
<1>2. s \o << >> = s
  OBVIOUS
<1> QED
  BY <1>1, <1>2 DEF Then

\* A well-shaped list on one thread leaves the lists well shaped.
LEMMA TodoPreserved ==
    ASSUME TodoInv, NEW t \in Thread, NEW s \in Seq(HandlerStep), Shape(s),
           todo' = [todo EXCEPT ![t] = s]
    PROVE  /\ TodoInv' /\ todo'[t] = s /\ Pending(t)' = Holds(s)
           /\ \A u \in Thread \ {t} : todo'[u] = todo[u] /\ Pending(u)' = Pending(u)
<1>1. todo' \in [Thread -> Seq(HandlerStep)] /\ todo'[t] = s
  BY DEF TodoInv
<1>2. \A u \in Thread \ {t} : todo'[u] = todo[u]
  BY DEF TodoInv
<1>3. \A u \in Thread : Shape(todo[u])
  BY DEF TodoInv
<1>4. \A u \in Thread : Shape(todo'[u])
  BY <1>1, <1>2, <1>3
<1> QED
  BY <1>1, <1>2, <1>4 DEF TodoInv, Pending

\* The arguments of a step by its type.
LEMMA StepArguments ==
    ASSUME NEW x \in HandlerStep
    PROVE  /\ x.type \in {"announce", "message", "clear"} => x.arg \in Device
           /\ x.type = "desired" => x.arg \in How
           /\ x.type = "load" => x.arg \in How \X SUBSET Device
           /\ x.type = "open" => x.arg \in SUBSET Device
           /\ x.type = "write" => x.arg \in Inode \X SUBSET Device
BY DEF HandlerStep

\* The steps are typed.
LEMMA StepTyped ==
    /\ \A d \in Device : /\ Step("announce", d) \in HandlerStep
                          /\ Step("message", d) \in HandlerStep
                          /\ Step("clear", d) \in HandlerStep
    /\ \A how \in How : Step("desired", how) \in HandlerStep
    /\ \A how \in How, S \in SUBSET Device :
         Step("load", <<how, S>>) \in HandlerStep
    /\ \A S \in SUBSET Device : Step("open", S) \in HandlerStep
    /\ \A i \in Inode, S \in SUBSET Device : Step("write", <<i, S>>) \in HandlerStep
    /\ Step("save", NoFile) \in HandlerStep /\ Step("replace", NoFile) \in HandlerStep
BY DEF HandlerStep, Step

\* Announcements or messages, then a cleanup or a save.
LEMMA PublishThenLast ==
    ASSUME NEW type \in {"announce", "message"}, NEW S \in SUBSET Device,
           NEW z \in HandlerStep, z.type \in {"desired", "save"}
    PROVE  /\ Each(type, S) \o << z >> \in Seq(HandlerStep)
           /\ Shape(Each(type, S) \o << z >>)
           /\ Holds(Each(type, S) \o << z >>) = Listed(type, S, z)
<1>1. IsFiniteSet(S)
  BY FS_Subset, RegistryAssumption
<1>2. \A x \in S : Step(type, x) \in HandlerStep
  BY StepTyped
<1>3. /\ \A x \in S : Before(Step(type, x), z)
      /\ \A x, y \in S : Before(Step(type, x), Step(type, y))
  BY DEF Before, Step
<1> QED
  BY <1>1, <1>2, <1>3, EachThenLast

\* Topics to clear, then the save.
LEMMA ClearThenOpen ==
    ASSUME NEW S \in SUBSET Device, NEW D \in SUBSET Device
    PROVE  /\ Each("clear", S) \o << Step("open", D) >> \in Seq(HandlerStep)
           /\ Shape(Each("clear", S) \o << Step("open", D) >>)
           /\ Holds(Each("clear", S) \o << Step("open", D) >>)
                = Listed("clear", S, Step("open", D))
<1>1. IsFiniteSet(S)
  BY FS_Subset, RegistryAssumption
<1>2. \A x \in S : Step("clear", x) \in HandlerStep
  BY StepTyped
<1>3. Step("open", D) \in HandlerStep /\ Step("open", D).type # "write"
  BY StepTyped DEF Step
<1>4. /\ \A x \in S : Before(Step("clear", x), Step("open", D))
      /\ \A x, y \in S : Before(Step("clear", x), Step("clear", y))
  BY DEF Before, Step
<1> QED
  BY <1>1, <1>2, <1>3, <1>4, EachThenLast

NoTopics == {}

\* What follows the loading of the registry.
LEMMA AfterLoadSteps ==
    ASSUME NEW how \in How, NEW D \in SUBSET Device, NEW P \in SUBSET Device
    PROVE  /\ AfterLoad(how, D, P) \in Seq(HandlerStep)
           /\ Shape(AfterLoad(how, D, P))
           /\ Harmless(AfterLoad(how, D, P))
           /\ how = "merge" => Holds(AfterLoad(how, D, P)) = {Step("open", P \cup D)}
           /\ how = "prune" => Holds(AfterLoad(how, D, P)) =
                Listed("clear", P \ D, Step("open", D))
<1>0. /\ \A S, E : \A x \in Listed("clear", S, Step("open", E)) :
           x.type \notin {"write", "replace"}
      /\ \A E : Step("open", E).type = "open"
  BY DEF Listed, Step
<1>1. CASE how = "reset"
  <2>1. D \cup P \in SUBSET Device /\ NoTopics \in SUBSET Device
    BY DEF NoTopics
  <2>2. AfterLoad(how, D, P) = Each("clear", D \cup P) \o << Step("open", NoTopics) >>
    BY <1>1 DEF AfterLoad, NoTopics
  <2>3. /\ AfterLoad(how, D, P) \in Seq(HandlerStep)
        /\ Shape(AfterLoad(how, D, P))
        /\ Holds(AfterLoad(how, D, P)) = Listed("clear", D \cup P, Step("open", NoTopics))
    BY <2>1, <2>2, ClearThenOpen
  <2> QED
    BY <1>0, <1>1, <2>3 DEF Harmless
<1>2. CASE how = "merge"
  <2>1. Step("open", P \cup D) \in HandlerStep
    BY StepTyped
  <2>2. AfterLoad(how, D, P) = << Step("open", P \cup D) >>
    BY <1>2 DEF AfterLoad
  <2>3. /\ AfterLoad(how, D, P) \in Seq(HandlerStep)
        /\ Shape(AfterLoad(how, D, P))
        /\ Holds(AfterLoad(how, D, P)) = {Step("open", P \cup D)}
    BY <1>0, <2>1, <2>2, OneStep
  <2> QED
    BY <1>0, <1>2, <2>3 DEF Harmless
<1>3. CASE how = "prune"
  <2>1. P \ D \in SUBSET Device
    OBVIOUS
  <2>2. AfterLoad(how, D, P) = Each("clear", P \ D) \o << Step("open", D) >>
    BY <1>3 DEF AfterLoad
  <2>3. /\ AfterLoad(how, D, P) \in Seq(HandlerStep)
        /\ Shape(AfterLoad(how, D, P))
        /\ Holds(AfterLoad(how, D, P)) = Listed("clear", P \ D, Step("open", D))
    BY <2>1, <2>2, ClearThenOpen
  <2> QED
    BY <1>0, <1>3, <2>3 DEF Harmless
<1> QED
  BY <1>1, <1>2, <1>3 DEF How

\* A reset clears what is desired and what was loaded.
LEMMA ResetSteps ==
    ASSUME NEW D \in SUBSET Device, NEW P \in SUBSET Device
    PROVE  Holds(AfterLoad("reset", D, P)) = Listed("clear", D \cup P, Step("open", NoTopics))
<1>1. D \cup P \in SUBSET Device /\ NoTopics \in SUBSET Device
  BY DEF NoTopics
<1>2. AfterLoad("reset", D, P) = Each("clear", D \cup P) \o << Step("open", NoTopics) >>
  BY DEF AfterLoad, NoTopics
<1> QED
  BY <1>1, <1>2, ClearThenOpen

-----------------------------------------------------------------------------
(***************************************************************************)
(* The steps and the handlers by the list they leave.                      *)
(***************************************************************************)
Moves(t, s) ==
    /\ s \in Seq(HandlerStep) /\ Shape(s)
    /\ todo' = [todo EXCEPT ![t] = s]

\* A list that cleans holds the step that does.
LEMMA CleansHolds ==
    ASSUME NEW s \in Seq(HandlerStep)
    PROVE  Cleans(s) <=> \E x \in Holds(s) : x.type = "desired"
  BY DEF Cleans, Holds

\* The registry that is loaded is a set of topics.
LEMMA ContentsType ==
    ASSUME TypeOK
    PROVE  Contents \in SUBSET Device
<1>1. CASE path = NoFile \/ content[path] = Torn
  BY <1>1 DEF Contents
<1>2. CASE path # NoFile /\ content[path] # Torn
  <2>1. content[path] \in (SUBSET Device) \cup {Torn}
    BY <1>2 DEF TypeOK
  <2>2. Contents = content[path]
    BY <1>2 DEF Contents
  <2> QED
    BY <1>2, <2>1, <2>2
<1> QED
  BY <1>1, <1>2

\* A thread that has done the first of its steps has the others left.
LEMMA NextMoves ==
    ASSUME TodoInv, NEW t \in Thread, ~Idle(t), Then(t, << >>)
    PROVE  /\ Moves(t, Tail(todo[t]))
           /\ Head(todo[t]).type # "write" => Harmless(Tail(todo[t]))
<1>1. Moves(t, Tail(todo[t]))
  BY FirstStep, ThenNext DEF Moves
<1>2. \A z \in Holds(Tail(todo[t])) : Before(Head(todo[t]), z)
  BY FirstStep
<1>3. Head(todo[t]).type # "write" => Harmless(Tail(todo[t]))
  BY <1>2 DEF Harmless, Before
<1> QED
  BY <1>1, <1>3

\* After the desired topics are computed the file is loaded ...
LEMMA DesiredMoves ==
    ASSUME TodoInv, TypeOK, NEW t \in Thread, ComputeDesired(t)
    PROVE  LET z == Step("load", <<Arg(t), devices>>) IN
             /\ Moves(t, << z >>) /\ Holds(<< z >>) = {z} /\ Harmless(<< z >>)
             /\ Head(todo[t]) \in Pending(t) /\ Arg(t) \in How
<1> DEFINE z == Step("load", <<Arg(t), devices>>)
<1>1. Head(todo[t]) \in HandlerStep /\ Head(todo[t]).type = "desired"
      /\ Head(todo[t]) \in Pending(t)
  BY FirstStep DEF ComputeDesired, At
<1>2. Arg(t) \in How
  BY <1>1, StepArguments DEF Arg
<1>3. z \in HandlerStep /\ z.type = "load"
  <2>1. devices \in SUBSET Device
    BY DEF TypeOK
  <2>2. z \in HandlerStep
    BY <1>2, <2>1, StepTyped
  <2> QED
    BY <2>2 DEF Step
<1>4. Then(t, << z >>)
  BY DEF ComputeDesired, Desired
<1> HIDE DEF z
<1>5. << z >> \in Seq(HandlerStep) /\ Shape(<< z >>) /\ Holds(<< z >>) = {z}
  BY <1>3, OneStep
<1>6. Moves(t, << z >>)
  BY <1>4, <1>5, ThenOthers DEF Moves, ComputeDesired
<1>7. Harmless(<< z >>)
  BY <1>3, <1>5 DEF Harmless
<1> QED
  BY <1>1, <1>2, <1>5, <1>6, <1>7 DEF z

\* ... with the kind of the cleanup and those topics as its arguments.
LEMMA LoadArguments ==
    ASSUME TodoInv, NEW t \in Thread, At(t, "load")
    PROVE  /\ Head(todo[t]) \in Pending(t) /\ Pending(t) = {Head(todo[t])}
           /\ Arg(t)[1] \in How /\ Arg(t)[2] \in SUBSET Device
<1>1. /\ Head(todo[t]) \in HandlerStep /\ Head(todo[t]).type = "load"
      /\ Pending(t) = {Head(todo[t])} \cup Holds(Tail(todo[t])) /\ Tail(todo[t]) = << >>
  BY FirstStep DEF At
<1>2. Holds(<< >>) = {}
  BY DEF Holds
<1>3. Arg(t) \in How \X SUBSET Device
  BY <1>1, StepArguments DEF Arg
<1> QED
  BY <1>1, <1>2, <1>3

\* After the load come the topics to clear and the save, and no write yet.
LEMMA LoadMoves ==
    ASSUME TodoInv, NEW t \in Thread, At(t, "load"), NEW P \in SUBSET Device,
           Then(t, AfterLoad(Arg(t)[1], Arg(t)[2], P))
    PROVE  LET s == AfterLoad(Arg(t)[1], Arg(t)[2], P) IN
             Moves(t, s) /\ Harmless(s)
<1> DEFINE s == AfterLoad(Arg(t)[1], Arg(t)[2], P)
<1>1. Arg(t)[1] \in How /\ Arg(t)[2] \in SUBSET Device
  BY LoadArguments
<1>2. s \in Seq(HandlerStep) /\ Shape(s)
  BY <1>1, AfterLoadSteps
<1>3. Harmless(s)
  BY <1>1, AfterLoadSteps
<1> HIDE DEF s
<1>4. Then(t, s)
  BY DEF s
<1>5. Moves(t, s)
  BY <1>2, <1>4, ThenOthers DEF Moves
<1> QED
  BY <1>3, <1>5 DEF s

\* A save without cleanup opens the temporary file with the present devices.
LEMMA SaveMoves ==
    ASSUME TodoInv, TypeOK, NEW t \in Thread, SaveDesired(t)
    PROVE  LET z == Step("open", devices) IN
             /\ Moves(t, << z >>) /\ Holds(<< z >>) = {z} /\ Harmless(<< z >>)
             /\ Head(todo[t]) \in Pending(t)
<1> DEFINE z == Step("open", devices)
<1>1. Head(todo[t]) \in Pending(t)
  BY FirstStep DEF SaveDesired, At
<1>2. z \in HandlerStep /\ z.type = "open"
  <2>1. devices \in SUBSET Device
    BY DEF TypeOK
  <2>2. z \in HandlerStep
    BY <2>1, StepTyped
  <2> QED
    BY <2>2 DEF Step
<1>3. Then(t, << z >>)
  BY DEF SaveDesired, Desired
<1> HIDE DEF z
<1>4. << z >> \in Seq(HandlerStep) /\ Shape(<< z >>) /\ Holds(<< z >>) = {z}
  BY <1>2, OneStep
<1>5. Moves(t, << z >>)
  BY <1>3, <1>4, ThenOthers DEF Moves, SaveDesired
<1>6. Harmless(<< z >>)
  BY <1>2, <1>4 DEF Harmless
<1> QED
  BY <1>1, <1>4, <1>5, <1>6 DEF z

\* The inodes: there is always one that is free.
LEMMA InodeRange == Inode = 1 .. 5 /\ NoFile \notin Inode
<1>1. Cardinality({}) = 0 /\ IsFiniteSet({})
  BY FS_EmptySet
<1>2. Cardinality({"main"}) = 1 /\ IsFiniteSet({"main"})
  BY FS_Singleton
<1>3. Cardinality({"main", "mqtt"}) = 2 /\ IsFiniteSet({"main", "mqtt"})
  <2>1. {"main", "mqtt"} = {"main"} \cup {"mqtt"} /\ "mqtt" \notin {"main"}
    OBVIOUS
  <2> QED
    BY <1>2, <2>1, FS_AddElement
<1>4. Cardinality(Thread) = 3
  <2>1. Thread = {"main", "mqtt"} \cup {"mochad"} /\ "mochad" \notin {"main", "mqtt"}
    BY DEF Thread
  <2> QED
    BY <1>3, <2>1, FS_AddElement
<1> QED
  BY <1>4 DEF Inode, NoFile

\* There is an inode for the temporary file that is not the registry itself.
LEMMA FreeInodeIsFree ==
    ASSUME NEW t \in Thread, At(t, "open")
    PROVE  FreeInode \in Inode /\ FreeInode # path
<1>1. PICK u, v : Thread \subseteq {t, u, v}
  BY DEF Thread
<1>2. InUse \subseteq {path, tmp, Arg(u)[1], Arg(v)[1]} /\ path \in InUse
  <2>1. ~At(t, "write")
    BY DEF At
  <2> QED
    BY <1>1, <2>1 DEF InUse, Saving
<1>3. \E i \in Inode : i \notin InUse
  <2>1. 1 \in Inode /\ 2 \in Inode /\ 3 \in Inode /\ 4 \in Inode /\ 5 \in Inode
    BY InodeRange
  <2>2. 1 \notin InUse \/ 2 \notin InUse \/ 3 \notin InUse \/ 4 \notin InUse \/ 5 \notin InUse
    BY <1>2
  <2> QED
    BY <2>1, <2>2
<1>4. FreeInode \in Inode /\ FreeInode \notin InUse
  BY <1>3 DEF FreeInode
<1> QED
  BY <1>2, <1>4

\* Opening makes the temporary file empty, never the registry, and leaves the
\* write and the rename to do.
LEMMA OpenMoves ==
    ASSUME TodoInv, TypeOK, NEW t \in Thread, OpenTemporary(t)
    PROVE  /\ Head(todo[t]) \in Pending(t) /\ Pending(t) = {Head(todo[t])}
           /\ Arg(t) \in SUBSET Device
           /\ tmp' \in Inode /\ tmp' # path
           /\ content' = [content EXCEPT ![tmp'] = Torn]
           /\ \E w, r \in HandlerStep :
                /\ w = Step("write", <<tmp', Arg(t)>>) /\ r.type = "replace"
                /\ Moves(t, <<w, r>>) /\ Holds(<<w, r>>) = {w, r}
<1> DEFINE i == tmp'
           w == Step("write", <<i, Arg(t)>>)
           r == Step("replace", NoFile)
<1>1. /\ Head(todo[t]) \in HandlerStep /\ Head(todo[t]).type = "open"
      /\ Pending(t) = {Head(todo[t])} \cup Holds(Tail(todo[t])) /\ Tail(todo[t]) = << >>
  BY FirstStep DEF OpenTemporary, At
<1>2. Holds(<< >>) = {}
  BY DEF Holds
<1>3. Arg(t) \in SUBSET Device
  BY <1>1, StepArguments DEF Arg
<1>4. i = IF tmp = NoFile THEN FreeInode ELSE tmp
  BY DEF OpenTemporary
<1>5. i \in Inode /\ i # path
  <2>1. FreeInode \in Inode /\ FreeInode # path
    BY FreeInodeIsFree DEF OpenTemporary
  <2>2. tmp \in Inode \cup {NoFile} /\ (path = tmp => path = NoFile)
    BY DEF TypeOK
  <2> QED
    BY <1>4, <2>1, <2>2
<1>6. content' = [content EXCEPT ![i] = Torn] /\ Then(t, <<w, r>>)
  BY <1>4 DEF OpenTemporary
<1>7. w \in HandlerStep /\ r \in HandlerStep /\ w.type = "write" /\ r.type = "replace"
  <2>1. w \in HandlerStep /\ r \in HandlerStep
    BY <1>3, <1>5, StepTyped
  <2> QED
    BY <2>1 DEF Step
<1> HIDE DEF w, r, i
<1>8. /\ <<w, r>> \in Seq(HandlerStep) /\ Len(<<w, r>>) = 2
      /\ <<w, r>>[1] = w /\ <<w, r>>[2] = r /\ 1 .. 2 = {1, 2}
  BY <1>7
<1>9. Holds(<<w, r>>) = {w, r}
  BY <1>8 DEF Holds
<1>10. Shape(<<w, r>>)
  <2>1. Before(w, r)
    BY <1>7 DEF Before
  <2>2. ASSUME NEW j \in {1, 2}, NEW k \in {1, 2}, j < k
        PROVE  j = 1 /\ k = 2
    BY <2>2
  <2>3. \A j \in {1, 2} : <<w, r>>[j].type = "write" => j = 1
    BY <1>7, <1>8
  <2> QED
    BY <1>8, <2>1, <2>2, <2>3 DEF Shape
<1>11. Moves(t, <<w, r>>)
  BY <1>6, <1>8, <1>10, ThenOthers DEF Moves, OpenTemporary
<1> QED
  BY <1>1, <1>2, <1>3, <1>5, <1>6, <1>7, <1>9, <1>11 DEF w, i

-----------------------------------------------------------------------------
(***************************************************************************)
(* A handler starts: what its list holds, and what it finds.               *)
(***************************************************************************)
Starts(t, s) ==
    /\ t \in Thread /\ Idle(t) /\ Moves(t, s)
    /\ \A x \in Holds(s) :
         /\ x.type \in {"announce", "message", "desired", "save"}
         /\ x.type = "message" => x.arg \in devices'
         /\ x.type = "desired" /\ cleanup => x.arg # "merge"
         /\ x.type = "save" => Up /\ devices' = devices
    /\ ~disturbed' => /\ ~disturbed /\ Busy = {}
                      /\ devices \subseteq devices' \/ Unsaved \subseteq devices'
    /\ Up' => (\E x \in Holds(s) : x.type = "desired") \/ (Up /\ devices \subseteq devices')
    /\ devices' \subseteq Device /\ known' \subseteq Device
    /\ uncleaned /\ ~uncleaned' => \E x \in Holds(s) : x.type = "desired"
    /\ UNCHANGED <<cleanup, file, broker, disk, overwritten, collided>>

Handler ==
    \/ OnMqttConnected
    \/ \E d \in Device : OnDeviceEvent(d)
    \/ \E d \in Device, accepted \in BOOLEAN : OnMqttCommand(d, accepted)
    \/ OnDiagnosticLine \/ Rediscover \/ Prune \/ Reset \/ ReloadConfig

\* What a handler's cleanup begins with: never a merge when cleanup is enabled.
LEMMA CleanupStep ==
    ASSUME TypeOK, NEW force \in BOOLEAN
    PROVE  /\ Cleanup(force) \in HandlerStep /\ Cleanup(force).type = "desired"
           /\ cleanup => Cleanup(force).arg # "merge"
<1>1. Cleanup(force) \in HandlerStep
  BY StepTyped DEF Cleanup, How
<1>2. Cleanup(force).type = "desired" /\ (cleanup => Cleanup(force).arg # "merge")
  BY DEF Cleanup, Step
<1> QED
  BY <1>1, <1>2

\* What a handler that does nothing, announces one device, or publishes all
\* and then loads or saves, leaves to do.
LEMMA NothingToDo == << >> \in Seq(HandlerStep) /\ Shape(<< >>) /\ Holds(<< >>) = {}
BY DEF Shape, Holds

\* A device first seen on the wire is announced, and nothing else is done.
LEMMA DiscoverySteps ==
    ASSUME NEW d \in Device
    PROVE  /\ Discovery(d) \in Seq(HandlerStep) /\ Shape(Discovery(d))
           /\ \A x \in Holds(Discovery(d)) : x.type = "announce"
<1>1. CASE Up /\ d \notin known
  <2>1. Step("announce", d) \in HandlerStep /\ Step("announce", d).type = "announce"
    BY StepTyped DEF Step
  <2>2. Discovery(d) = << Step("announce", d) >>
    BY <1>1 DEF Discovery
  <2> QED
    BY <2>1, <2>2, OneStep
<1>2. CASE ~(Up /\ d \notin known)
  <2>1. Discovery(d) = << >>
    BY <1>2 DEF Discovery
  <2> QED
    BY <2>1, NothingToDo
<1> QED
  BY <1>1, <1>2

\* All devices published, then a save.
LEMMA PublishAndSave ==
    ASSUME TypeOK
    PROVE  LET s == Each("message", Desired) \o << Step("save", NoFile) >> IN
             /\ s \in Seq(HandlerStep) /\ Shape(s)
             /\ \A x \in Holds(s) : \/ x.type = "message" /\ x.arg \in devices
                                    \/ x.type = "save"
<1> DEFINE z == Step("save", NoFile)
           s == Each("message", Desired) \o << z >>
<1>1. z \in HandlerStep /\ z.type = "save" /\ Desired \in SUBSET Device
  BY StepTyped DEF Step, Desired, TypeOK
<1>2. s \in Seq(HandlerStep) /\ Shape(s) /\ Holds(s) = Listed("message", Desired, z)
  <2> HIDE DEF z
  <2> QED
    BY <1>1, PublishThenLast
<1>3. \A x \in Listed("message", Desired, z) :
        \/ x.type = "message" /\ x.arg \in devices
        \/ x.type = "save"
  BY DEF Listed, Step, Desired
<1> QED
  BY <1>2, <1>3

\* The connect callback gives an idle thread a well-formed list of steps ...
LEMMA ConnectedStarts ==
    ASSUME TypeOK, TodoInv, OnMqttConnected
    PROVE  \E t, s : Starts(t, s)
<1> DEFINE z == Cleanup(FALSE)
           s == Each("announce", known) \o << z >>
<1>1. z \in HandlerStep /\ z.type = "desired" /\ (cleanup => z.arg # "merge")
  BY CleanupStep
<1> HIDE DEF z
<1>2. known \in SUBSET Device
  BY DEF TypeOK
<1>3. s \in Seq(HandlerStep) /\ Shape(s) /\ Holds(s) = Listed("announce", known, z)
  BY <1>1, <1>2, PublishThenLast
<1>4. \A x \in Listed("announce", known, z) : x = z \/ x.type = "announce"
  BY DEF Listed, Step
<1>5. z \in Listed("announce", known, z)
  BY DEF Listed
<1>6. Begin("mqtt", s)
  BY DEF OnMqttConnected, z
<1> HIDE DEF s
<1>7. Starts("mqtt", s)
  <2>1. "mqtt" \in Thread /\ Idle("mqtt") /\ Moves("mqtt", s)
    BY <1>3, <1>6 DEF Thread, Begin, BeginUnless, Moves
  <2>2. \A x \in Holds(s) :
         /\ x.type \in {"announce", "message", "desired", "save"}
         /\ x.type = "message" => x.arg \in devices'
         /\ x.type = "desired" /\ cleanup => x.arg # "merge"
         /\ x.type = "save" => Up /\ devices' = devices
    BY <1>1, <1>3, <1>4
  <2>3. ~disturbed' => ~disturbed /\ Busy = {} /\ devices \subseteq devices'
    BY <1>6 DEF Begin, BeginUnless, OnMqttConnected
  <2>4. \E x \in Holds(s) : x.type = "desired"
    BY <1>1, <1>3, <1>5
  <2>5. /\ devices' \subseteq Device /\ known' \subseteq Device
        /\ UNCHANGED <<cleanup, file, broker, disk, overwritten, collided>>
    BY <1>6 DEF TypeOK, OnMqttConnected, Begin, BeginUnless
  <2> QED
    BY <2>1, <2>2, <2>3, <2>4, <2>5 DEF Starts
<1> QED
  BY <1>7

\* A handler that is no cleanup and forgets no device.
LEMMA PlainStarts ==
    ASSUME TypeOK, TodoInv, NEW t \in Thread, NEW s \in Seq(HandlerStep), Shape(s),
           Begin(t, s), Up' = Up, devices \subseteq devices',
           \A x \in Holds(s) :
             \/ x.type = "announce"
             \/ x.type = "message" /\ x.arg \in devices'
             \/ x.type = "desired" /\ (cleanup => x.arg # "merge")
             \/ x.type = "save" /\ Up /\ devices' = devices,
           devices' \subseteq Device, known' \subseteq Device,
           UNCHANGED <<cleanup, file, broker, disk>>
    PROVE  \E u, l : Starts(u, l)
<1>1. Idle(t) /\ Moves(t, s)
  BY DEF Begin, BeginUnless, Moves
<1>2. \A x \in Holds(s) :
         /\ x.type \in {"announce", "message", "desired", "save"}
         /\ x.type = "message" => x.arg \in devices'
         /\ x.type = "desired" /\ cleanup => x.arg # "merge"
         /\ x.type = "save" => Up /\ devices' = devices
  OBVIOUS
<1>3. ~disturbed' => ~disturbed /\ Busy = {}
  BY DEF Begin, BeginUnless
<1>4. /\ UNCHANGED <<overwritten, collided>>
      /\ uncleaned /\ ~uncleaned' => \E x \in Holds(s) : x.type = "desired"
  BY CleansHolds DEF Begin, BeginUnless
<1>5. Starts(t, s)
  BY <1>1, <1>2, <1>3, <1>4 DEF Starts
<1> QED
  BY <1>5

\* ... and so does every other handler.
LEMMA HandlerStarts ==
    ASSUME TypeOK, TodoInv, Handler
    PROVE  \E t, s : Starts(t, s)
<1>0. /\ "main" \in Thread /\ "mqtt" \in Thread /\ "mochad" \in Thread
      /\ devices \in SUBSET Device /\ known \in SUBSET Device /\ file \in SUBSET Device
  BY DEF TypeOK, Thread
<1>1. CASE OnMqttConnected
  BY <1>1, ConnectedStarts
<1>2. ASSUME NEW d \in Device, OnDeviceEvent(d)
      PROVE  \E t, s : Starts(t, s)
  <2>1. /\ Discovery(d) \in Seq(HandlerStep) /\ Shape(Discovery(d))
        /\ \A x \in Holds(Discovery(d)) : x.type = "announce"
    BY DiscoverySteps
  <2>2. /\ Begin("mochad", Discovery(d)) /\ known' \subseteq Device
        /\ UNCHANGED <<cleanup, file, devices, session, broker, disk>>
    BY <1>0, <1>2 DEF OnDeviceEvent
  <2>3. Up' = Up
    BY <2>2 DEF Up
  <2> QED
    BY <1>0, <2>1, <2>2, <2>3, PlainStarts
<1>3. ASSUME NEW d \in Device, NEW accepted \in BOOLEAN, OnMqttCommand(d, accepted)
      PROVE  \E t, s : Starts(t, s)
  <2> DEFINE s == IF accepted THEN Discovery(d) ELSE << >>
  <2>1. /\ s \in Seq(HandlerStep) /\ Shape(s)
        /\ \A x \in Holds(s) : x.type = "announce"
    <3>1. CASE accepted
      BY <3>1, DiscoverySteps
    <3>2. CASE ~accepted
      BY <3>2, NothingToDo
    <3> QED
      BY <3>1, <3>2
  <2>2. /\ Begin("mqtt", s) /\ known' \subseteq Device
        /\ devices' \subseteq Device /\ devices \subseteq devices'
        /\ UNCHANGED <<cleanup, file, session, broker, disk>>
    BY <1>0, <1>3 DEF OnMqttCommand
  <2>3. Up' = Up
    BY <2>2 DEF Up
  <2> HIDE DEF s
  <2> QED
    BY <1>0, <2>1, <2>2, <2>3, PlainStarts
<1>4. CASE OnDiagnosticLine
  <2> DEFINE e == Each("message", Desired) \o << Step("save", NoFile) >>
             s == IF Up THEN e ELSE << >>
  <2>1. /\ e \in Seq(HandlerStep) /\ Shape(e)
        /\ \A x \in Holds(e) : (x.type = "message" /\ x.arg \in devices) \/ x.type = "save"
    BY PublishAndSave
  <2>2. /\ Begin("mochad", s)
        /\ UNCHANGED <<cleanup, file, devices, known, session, broker, disk>>
    BY <1>4 DEF OnDiagnosticLine
  <2>3. Up' = Up
    BY <2>2 DEF Up
  <2> HIDE DEF e
  <2>4. /\ s \in Seq(HandlerStep) /\ Shape(s)
        /\ \A x \in Holds(s) : \/ x.type = "message" /\ x.arg \in devices
                               \/ x.type = "save" /\ Up
    BY <2>1, NothingToDo
  <2> HIDE DEF s
  <2> QED
    BY <1>0, <2>2, <2>3, <2>4, PlainStarts
<1>5. CASE Rediscover
  <2> DEFINE s == Each("message", Desired) \o << Step("save", NoFile) >>
  <2>1. /\ s \in Seq(HandlerStep) /\ Shape(s)
        /\ \A x \in Holds(s) : (x.type = "message" /\ x.arg \in devices) \/ x.type = "save"
    BY PublishAndSave
  <2>2. /\ Begin("mqtt", s) /\ session = "alive"
        /\ UNCHANGED <<cleanup, file, devices, known, session, broker, disk>>
    BY <1>5 DEF Rediscover, OnBridgeCommand
  <2>3. Up' = Up /\ Up
    BY <2>2 DEF Up
  <2> HIDE DEF s
  <2> QED
    BY <1>0, <2>1, <2>2, <2>3, PlainStarts
<1>6. ASSUME NEW z \in HandlerStep, z.type = "desired", cleanup => z.arg # "merge",
             OnBridgeCommand(<< z >>)
      PROVE  \E t, s : Starts(t, s)
  <2>1. << z >> \in Seq(HandlerStep) /\ Shape(<< z >>) /\ Holds(<< z >>) = {z}
    BY <1>6, OneStep
  <2>2. /\ Begin("mqtt", << z >>)
        /\ UNCHANGED <<cleanup, file, devices, known, session, broker, disk>>
    BY <1>6 DEF OnBridgeCommand
  <2>3. Up' = Up
    BY <2>2 DEF Up
  <2>4. \A x \in Holds(<< z >>) : x.type = "desired" /\ (cleanup => x.arg # "merge")
    BY <1>6, <2>1
  <2> QED
    BY <1>0, <2>1, <2>2, <2>3, <2>4, PlainStarts
<1>7. CASE Prune
  BY <1>6, <1>7, CleanupStep DEF Prune
<1>8. CASE Reset
  <2>1. Step("desired", "reset") \in HandlerStep
    BY StepTyped DEF How
  <2>2. Step("desired", "reset").type = "desired" /\ Step("desired", "reset").arg = "reset"
    BY DEF Step
  <2> QED
    BY <1>6, <1>8, <2>1, <2>2 DEF Reset
<1>9. CASE ReloadConfig
  <2> DEFINE z == Cleanup(FALSE)
             e == Each("message", file) \o << z >>
             s == IF Up THEN e ELSE << >>
  <2>1. z \in HandlerStep /\ z.type = "desired" /\ (cleanup => z.arg # "merge")
    BY CleanupStep
  <2>2. /\ BeginUnless("main", s, ~(Unsaved \subseteq file)) /\ devices' = file
        /\ UNCHANGED <<cleanup, file, known, session, broker, disk>>
    BY <1>9 DEF ReloadConfig
  <2> HIDE DEF z
  <2>3. e \in Seq(HandlerStep) /\ Shape(e) /\ Holds(e) = Listed("message", file, z)
    BY <1>0, <2>1, PublishThenLast
  <2>4. \A x \in Listed("message", file, z) : x = z \/ (x.type = "message" /\ x.arg \in file)
    BY DEF Listed, Step
  <2>5. z \in Listed("message", file, z)
    BY DEF Listed
  <2> HIDE DEF e
  <2>6. /\ s \in Seq(HandlerStep) /\ Shape(s)
        /\ \A x \in Holds(s) : x = z \/ (x.type = "message" /\ x.arg \in file)
        /\ Up => z \in Holds(s)
    BY <2>3, <2>4, <2>5, NothingToDo
  <2> HIDE DEF s
  <2>7. Starts("main", s)
    <3>1. Idle("main") /\ Moves("main", s) /\ UNCHANGED <<overwritten, collided>>
      BY <2>2, <2>6 DEF BeginUnless, Moves
    <3>2. \A x \in Holds(s) :
           /\ x.type \in {"announce", "message", "desired", "save"}
           /\ x.type = "message" => x.arg \in devices'
           /\ x.type = "desired" /\ cleanup => x.arg # "merge"
           /\ x.type = "save" => Up /\ devices' = devices
      BY <2>1, <2>2, <2>6
    <3>3. ~disturbed' => ~disturbed /\ Busy = {} /\ Unsaved \subseteq devices'
      BY <2>2 DEF BeginUnless
    <3>4. Up' => \E x \in Holds(s) : x.type = "desired"
      BY <2>1, <2>2, <2>6 DEF Up
    <3>5. uncleaned /\ ~uncleaned' => \E x \in Holds(s) : x.type = "desired"
      BY <2>2, <2>6, CleansHolds DEF BeginUnless
    <3> QED
      BY <1>0, <2>2, <3>1, <3>2, <3>3, <3>4, <3>5 DEF Starts
  <2> QED
    BY <2>7
<1> QED
  BY <1>1, <1>2, <1>3, <1>4, <1>5, <1>7, <1>8, <1>9 DEF Handler

-----------------------------------------------------------------------------
(***************************************************************************)
(* The types.                                                              *)
(***************************************************************************)
LEMMA TypeStep ==
    ASSUME TypeOK, TodoInv, [Next]_vars
    PROVE  TypeOK' /\ TodoInv'
<1>1. CASE Handler
  <2>1. PICK t, s : Starts(t, s)
    BY <1>1, HandlerStarts
  <2>2. TodoInv'
    BY <2>1, TodoPreserved DEF Starts, Moves
  <2>3. TypeOK'
    BY <2>1 DEF Starts, TypeOK, disk
  <2> QED
    BY <2>2, <2>3
<1>2. ASSUME NEW t \in Thread, Work(t)
      PROVE  TypeOK' /\ TodoInv'
  <2>1. ASSUME NEW after \in SUBSET Device, ~Idle(t), Deliver(t, after),
               devices' \in SUBSET Device
        PROVE  TypeOK' /\ TodoInv'
    <3>1. TodoInv'
      BY <2>1, NextMoves, TodoPreserved DEF Deliver, Moves
    <3>2. TypeOK'
      BY <2>1 DEF Deliver, TypeOK, disk
    <3> QED
      BY <3>1, <3>2
  <2>2. CASE Announce(t) \/ PublishMessage(t) \/ ClearTopic(t)
    <3>1. ~Idle(t) /\ Head(todo[t]).type \in {"announce", "message", "clear"}
      BY <2>2 DEF At, Announce, PublishMessage, ClearTopic
    <3>2. Arg(t) \in Device
      BY <3>1, FirstStep, StepArguments DEF Arg
    <3>3. broker \cup {Arg(t)} \in SUBSET Device /\ broker \ {Arg(t)} \in SUBSET Device
      BY <3>2 DEF TypeOK
    <3>4. devices' \in SUBSET Device
      BY <2>2, <3>2 DEF Announce, PublishMessage, ClearTopic, TypeOK
    <3> QED
      BY <2>1, <2>2, <3>1, <3>3, <3>4 DEF Announce, PublishMessage, ClearTopic
  <2>3. CASE ComputeDesired(t)
    <3>1. TodoInv'
      BY <2>3, DesiredMoves, TodoPreserved DEF Moves
    <3>2. TypeOK'
      BY <2>3 DEF ComputeDesired, TypeOK, disk
    <3> QED
      BY <3>1, <3>2
  <2>4. CASE Load(t)
    <3>1. TodoInv'
      BY <2>4, ContentsType, LoadMoves, TodoPreserved DEF Load, Moves
    <3>2. TypeOK'
      BY <2>4, InodeRange DEF Load, TypeOK
    <3> QED
      BY <3>1, <3>2
  <2>5. CASE LoadFails(t)
    <3>1. TodoInv'
      <4>1. CASE Arg(t)[1] = "prune"
        <5>1. ~Idle(t) /\ Then(t, << >>)
          BY <2>5, <4>1 DEF LoadFails, At
        <5> QED
          BY <5>1, NextMoves, TodoPreserved DEF Moves
      <4>2. CASE Arg(t)[1] # "prune"
        <5> DEFINE P == {}
        <5>1. /\ P \in SUBSET Device /\ At(t, "load")
              /\ Then(t, AfterLoad(Arg(t)[1], Arg(t)[2], P))
          BY <2>5, <4>2 DEF LoadFails
        <5> HIDE DEF P
        <5> QED
          BY <5>1, LoadMoves, TodoPreserved DEF Moves
      <4> QED
        BY <4>1, <4>2
    <3>2. TypeOK'
      BY <2>5 DEF LoadFails, TypeOK, disk
    <3> QED
      BY <3>1, <3>2
  <2>6. CASE SaveDesired(t)
    <3>1. TodoInv'
      BY <2>6, SaveMoves, TodoPreserved DEF Moves
    <3>2. TypeOK'
      BY <2>6 DEF SaveDesired, TypeOK, disk
    <3> QED
      BY <3>1, <3>2
  <2>7. CASE OpenTemporary(t)
    <3>1. TodoInv'
      BY <2>7, OpenMoves, TodoPreserved DEF Moves
    <3>2. tmp' \in Inode /\ tmp' # path /\ content' = [content EXCEPT ![tmp'] = Torn]
      BY <2>7, OpenMoves
    <3>3. UNCHANGED <<cleanup, file, devices, known, broker, path>>
      BY <2>7 DEF OpenTemporary
    <3>4. content' \in [Inode -> (SUBSET Device) \cup {Torn}]
      BY <3>2 DEF TypeOK
    <3> QED
      BY <3>1, <3>2, <3>3, <3>4 DEF TypeOK
  <2>8. CASE SaveFails(t)
    <3>1. TodoInv'
      BY <2>8, NextMoves, TodoPreserved DEF SaveFails, Moves, At
    <3>2. TypeOK'
      BY <2>8 DEF SaveFails, TypeOK, disk
    <3> QED
      BY <3>1, <3>2
  <2>9. CASE WriteTemporary(t)
    <3>1. TodoInv'
      BY <2>9, NextMoves, TodoPreserved DEF WriteTemporary, Moves, At
    <3>2. ~Idle(t) /\ Head(todo[t]).type = "write"
      BY <2>9 DEF WriteTemporary, At
    <3>3. Arg(t) \in Inode \X SUBSET Device
      BY <3>2, FirstStep, StepArguments DEF Arg
    <3>4. content' \in [Inode -> (SUBSET Device) \cup {Torn}]
      BY <2>9, <3>3 DEF WriteTemporary, TypeOK
    <3> QED
      BY <2>9, <3>1, <3>4 DEF WriteTemporary, TypeOK
  <2>10. CASE ReplaceFile(t)
    <3>1. TodoInv'
      BY <2>10, NextMoves, TodoPreserved DEF ReplaceFile, Moves, At
    <3>2. TypeOK'
      BY <2>10, InodeRange DEF ReplaceFile, TypeOK
    <3> QED
      BY <3>1, <3>2
  <2>11. CASE BuildFails(t)
    <3>1. TodoInv'
      BY <2>11, NothingToDo, TodoPreserved DEF BuildFails, Moves
    <3>2. TypeOK'
      BY <2>11 DEF BuildFails, TypeOK, disk
    <3> QED
      BY <3>1, <3>2
  <2> QED
    BY <1>2, <2>2, <2>3, <2>4, <2>5, <2>6, <2>7, <2>8, <2>9, <2>10, <2>11 DEF Work
<1>3. CASE SessionLost \/ OnMqttDisconnected \/ EditFile \/ UNCHANGED vars
  <2>1. todo' = todo
    BY <1>3 DEF SessionLost, OnMqttDisconnected, EditFile, vars
  <2>2. TodoInv'
    BY <2>1 DEF TodoInv
  <2>3. /\ UNCHANGED <<cleanup, devices, known, broker, path, tmp, content>>
        /\ file' \subseteq Device
    BY <1>3 DEF SessionLost, OnMqttDisconnected, EditFile, vars, disk, TypeOK
  <2> QED
    BY <2>2, <2>3 DEF TypeOK
<1>4. CASE Restart
  <2>1. todo' = [t \in Thread |-> << >>]
    BY <1>4 DEF Restart
  <2>2. TodoInv'
    BY <2>1, NothingToDo DEF TodoInv
  <2>3. /\ path' \in Inode \cup {NoFile} /\ tmp' \in Inode \cup {NoFile}
        /\ path' = tmp' => path' = NoFile
        /\ content' \in [Inode -> (SUBSET Device) \cup {Torn}]
    <3>1. CASE path = NoFile
      <4> DEFINE i == IF tmp = NoFile THEN 1 ELSE tmp
      <4>0. i \in Inode
        BY InodeRange DEF TypeOK
      <4>1. path' = i /\ tmp' = NoFile /\ content' = [content EXCEPT ![i] = {}]
        BY <1>4, <3>1 DEF Restart
      <4> HIDE DEF i
      <4>2. content' \in [Inode -> (SUBSET Device) \cup {Torn}]
        BY <4>0, <4>1 DEF TypeOK
      <4> QED
        BY <4>0, <4>1, <4>2, InodeRange
    <3>2. CASE path # NoFile
      BY <1>4, <3>2 DEF Restart, TypeOK, disk
    <3> QED
      BY <3>1, <3>2
  <2> QED
    BY <1>4, <2>2, <2>3 DEF Restart, TypeOK
<1> QED
  BY <1>1, <1>2, <1>3, <1>4 DEF Next, Handler

\* At the start nobody is at work.
LEMMA TypeInitially == Init => TypeOK /\ TodoInv
<1> SUFFICES ASSUME Init
             PROVE  TypeOK /\ TodoInv
  OBVIOUS
<1>1. TodoInv
  BY NothingToDo DEF Init, TodoInv
<1>2. TypeOK
  BY InodeRange DEF Init, TypeOK
<1> QED
  BY <1>1, <1>2

\* The tables stay what they are, the registry holds a set of topics or is
\* torn, and it never shares its inode with the temporary file, whatever the
\* threads do at the same time.
THEOREM TypeCorrect == Spec => []TypeOK
<1>1. Init => TypeOK /\ TodoInv
  BY TypeInitially
<1>2. TypeOK /\ TodoInv /\ [Next]_vars => TypeOK' /\ TodoInv'
  BY TypeStep
<1> QED
  BY <1>1, <1>2, PTL DEF Spec

-----------------------------------------------------------------------------
(***************************************************************************)
(* The file.                                                               *)
(***************************************************************************)
\* The steps that do not touch the files.
Quiet(t) ==
    \/ Announce(t) \/ PublishMessage(t) \/ ClearTopic(t) \/ ComputeDesired(t)
    \/ Load(t) \/ LoadFails(t) \/ SaveDesired(t) \/ SaveFails(t) \/ BuildFails(t)

\* A step of one thread leaves the work of the others alone.
LEMMA OthersStay ==
    ASSUME TodoInv, NEW t \in Thread, NEW s, Moves(t, s), NEW u \in Thread \ {t}
    PROVE  /\ Idle(u)' = Idle(u) /\ Arg(u)' = Arg(u) /\ Pending(u)' = Pending(u)
           /\ \A type : At(u, type)' = At(u, type)
<1>1. todo'[u] = todo[u] /\ Pending(u)' = Pending(u)
  BY TodoPreserved DEF Moves
<1> QED
  BY <1>1 DEF Idle, Arg, At

\* A step outside a save touches neither the temporary file nor any content.
LEMMA QuietMoves ==
    ASSUME TypeOK, TodoInv, NEW t \in Thread, Quiet(t)
    PROVE  /\ ~Idle(t) /\ t \notin Saving
           /\ \E s : Moves(t, s) /\ Harmless(s)
           /\ path' \in {path, NoFile} /\ tmp' = tmp /\ content' = content
           /\ collided' = collided
<1>1. ~Idle(t) /\ Head(todo[t]).type \notin {"write", "replace"}
  BY DEF Quiet, Announce, PublishMessage, ClearTopic, ComputeDesired, Load, LoadFails,
         SaveDesired, SaveFails, BuildFails, At
<1>2. t \notin Saving
  BY <1>1 DEF Saving, At
<1>3. \E s : Moves(t, s) /\ Harmless(s)
  <2>1. CASE Then(t, << >>)
    BY <1>1, <2>1, NextMoves
  <2>2. CASE ComputeDesired(t)
    BY <2>2, DesiredMoves
  <2>3. CASE Load(t)
    BY <2>3, ContentsType, LoadMoves DEF Load
  <2>4. CASE LoadFails(t) /\ Arg(t)[1] # "prune"
    <3> DEFINE P == {}
    <3>1. /\ P \in SUBSET Device /\ At(t, "load")
          /\ Then(t, AfterLoad(Arg(t)[1], Arg(t)[2], P))
      BY <2>4 DEF LoadFails
    <3> HIDE DEF P
    <3> QED
      BY <3>1, LoadMoves
  <2>5. CASE SaveDesired(t)
    BY <2>5, SaveMoves
  <2>6. CASE LoadFails(t) /\ Arg(t)[1] = "prune"
    BY <2>1, <2>6 DEF LoadFails
  <2>7. CASE Announce(t) \/ PublishMessage(t) \/ ClearTopic(t) \/ SaveFails(t)
    BY <2>1, <2>7 DEF Announce, PublishMessage, ClearTopic, SaveFails, Deliver
  <2>8. CASE BuildFails(t)
    BY <2>8, NothingToDo DEF BuildFails, Moves, Harmless
  <2> QED
    BY <2>2, <2>3, <2>4, <2>5, <2>6, <2>7, <2>8 DEF Quiet
<1>4. path' \in {path, NoFile} /\ tmp' = tmp /\ content' = content /\ collided' = collided
  BY DEF Quiet, Announce, PublishMessage, ClearTopic, Deliver, ComputeDesired, Load,
         LoadFails, SaveDesired, SaveFails, BuildFails, disk, ghosts
<1> QED
  BY <1>1, <1>2, <1>3, <1>4

\* A list without a step of a save on a thread that is not in one.
LEMMA HarmlessKeeps ==
    ASSUME TypeOK, TodoInv, FileInv, NEW t \in Thread, NEW s, Moves(t, s), Harmless(s),
           t \notin Saving, path' \in {path, NoFile}, tmp' = tmp, content' = content,
           collided' = collided
    PROVE  FileInv' /\ t \notin Saving'
<1>1. TodoInv' /\ todo'[t] = s /\ s \in Seq(HandlerStep)
  BY TodoPreserved DEF Moves
<1>2. t \notin Saving'
  <2>1. CASE s = << >>
    BY <1>1, <2>1 DEF Saving, At, Idle
  <2>2. CASE s # << >>
    <3>1. Head(s) \in Holds(s)
      BY <1>1, <2>2, HeadAndTail
    <3>2. Head(s).type \notin {"write", "replace"}
      BY <3>1 DEF Harmless
    <3> QED
      BY <1>1, <3>2 DEF Saving, At
  <2> QED
    BY <2>1, <2>2
<1>3. /\ Saving' \subseteq Saving
      /\ \A u \in Saving' : /\ At(u, "write")' = At(u, "write") /\ Arg(u)' = Arg(u)
                            /\ At(u, "replace")' = At(u, "replace")
  BY <1>2, OthersStay DEF Saving
<1> SUFFICES ASSUME ~collided
             PROVE  FileInv'
  BY <1>2 DEF FileInv
<1>4. /\ \A v, u \in Saving : v = u
      /\ \A u \in Saving :
           /\ tmp # NoFile
           /\ At(u, "write") => Arg(u)[1] = tmp /\ content[tmp] = Torn
           /\ At(u, "replace") => content[tmp] # Torn
      /\ path # NoFile => content[path] # Torn
  BY DEF FileInv, RegistryWhole
<1>5. \A v, u \in Saving' : v = u
  BY <1>3, <1>4
<1>6. ASSUME NEW u \in Saving'
      PROVE  /\ tmp' # NoFile
             /\ At(u, "write")' => Arg(u)'[1] = tmp' /\ content'[tmp'] = Torn
             /\ At(u, "replace")' => content'[tmp'] # Torn
  BY <1>3, <1>4
<1>7. RegistryWhole'
  BY <1>4 DEF RegistryWhole
<1> QED
  BY <1>5, <1>6, <1>7 DEF FileInv

\* The temporary file is opened: the registry is another inode.
LEMMA OpenKeeps ==
    ASSUME TypeOK, TodoInv, FileInv, NEW t \in Thread, OpenTemporary(t)
    PROVE  FileInv'
<1> SUFFICES ASSUME ~collided'
             PROVE  FileInv'
  BY DEF FileInv
<1>1. ~collided /\ Saving = {} /\ path' = path
  BY DEF OpenTemporary
<1>2. tmp' \in Inode /\ tmp' # path /\ content' = [content EXCEPT ![tmp'] = Torn]
  BY OpenMoves
<1>3. PICK w, r \in HandlerStep :
        /\ w = Step("write", <<tmp', Arg(t)>>)
        /\ Moves(t, <<w, r>>)
  BY OpenMoves
<1>4. todo'[t] = <<w, r>>
  BY <1>3, TodoPreserved DEF Moves
<1>5. Head(todo'[t]) = w /\ todo'[t] # << >> /\ w.type = "write" /\ w.arg[1] = tmp'
  BY <1>3, <1>4 DEF Step
<1>6. At(t, "write")' /\ ~At(t, "replace")' /\ Arg(t)'[1] = tmp'
  BY <1>5 DEF At, Arg, Idle
<1>7. Saving' \subseteq {t}
  BY <1>1, <1>3, OthersStay DEF Saving
<1>8. content'[tmp'] = Torn /\ tmp' # NoFile
  BY <1>2, InodeRange DEF TypeOK
<1>9. RegistryWhole'
  <2>1. path # NoFile => content[path] # Torn /\ path \in Inode
    BY <1>1 DEF FileInv, RegistryWhole, TypeOK
  <2>2. path # NoFile => content'[path] = content[path]
    BY <1>2, <2>1 DEF TypeOK
  <2> QED
    BY <1>1, <2>1, <2>2 DEF RegistryWhole
<1> QED
  BY <1>6, <1>7, <1>8, <1>9 DEF FileInv

\* What follows the head after a write is the rename.
LEMMA WriteKeeps ==
    ASSUME TypeOK, TodoInv, FileInv, NEW t \in Thread, WriteTemporary(t)
    PROVE  /\ FileInv'
           /\ ~collided => /\ content' = [content EXCEPT ![tmp] = Arg(t)[2]]
                           /\ tmp \in Inode /\ Arg(t)[2] \in SUBSET Device
<1>1. /\ ~Idle(t) /\ Head(todo[t]).type = "write" /\ t \in Saving /\ At(t, "write")
      /\ tmp' = tmp /\ path' = path /\ collided' = collided
  BY DEF WriteTemporary, At, Saving, ghosts
<1>2. Arg(t) \in Inode \X SUBSET Device
  BY <1>1, FirstStep, StepArguments DEF Arg
<1> SUFFICES ASSUME ~collided
             PROVE  /\ FileInv' /\ tmp \in Inode
                    /\ content' = [content EXCEPT ![tmp] = Arg(t)[2]]
  BY <1>1, <1>2 DEF FileInv
<1>3. /\ \A u \in Saving : u = t
      /\ tmp # NoFile /\ Arg(t)[1] = tmp /\ content[tmp] = Torn
      /\ path # NoFile => content[path] # Torn
  BY <1>1 DEF FileInv, RegistryWhole
<1>4. tmp \in Inode /\ content' = [content EXCEPT ![tmp] = Arg(t)[2]]
  BY <1>2, <1>3 DEF WriteTemporary
<1>5. content'[tmp] = Arg(t)[2] /\ Arg(t)[2] # Torn
  <2>1. content'[tmp] = Arg(t)[2]
    BY <1>4 DEF TypeOK
  <2>2. Torn \notin SUBSET Device
    BY RegistryAssumption DEF Torn
  <2> QED
    BY <1>2, <2>1, <2>2
<1>6. PICK s : Moves(t, s) /\ s = Tail(todo[t])
  BY <1>1, NextMoves DEF WriteTemporary
<1>7. ~At(t, "write")'
  <2>1. todo'[t] = s /\ s \in Seq(HandlerStep)
    BY <1>6, TodoPreserved DEF Moves
  <2>2. CASE s = << >>
    BY <2>1, <2>2 DEF At, Idle
  <2>3. CASE s # << >>
    <3>1. Head(s) \in Holds(s)
      BY <2>1, <2>3, HeadAndTail
    <3>2. Before(Head(todo[t]), Head(s))
      BY <1>1, <1>6, <3>1, FirstStep
    <3> QED
      BY <1>1, <2>1, <3>2 DEF At, Before
  <2> QED
    BY <2>2, <2>3
<1>8. Saving' \subseteq {t}
  BY <1>3, <1>6, OthersStay DEF Saving
<1>9. RegistryWhole'
  <2>1. path # NoFile => path \in Inode /\ path # tmp
    BY <1>3 DEF TypeOK
  <2>2. path # NoFile => content'[path] = content[path]
    BY <1>4, <2>1 DEF TypeOK
  <2> QED
    BY <1>1, <1>3, <2>2 DEF RegistryWhole
<1>10. FileInv'
  BY <1>1, <1>3, <1>5, <1>7, <1>8, <1>9 DEF FileInv
<1> QED
  BY <1>4, <1>10

\* The rename: unless saves have overlapped the registry is now the whole file
\* that this thread has written.
LEMMA ReplaceKeeps ==
    ASSUME TypeOK, TodoInv, FileInv, NEW t \in Thread, ReplaceFile(t)
    PROVE  /\ FileInv' /\ todo' = [todo EXCEPT ![t] = << >>]
           /\ ~collided => path' = tmp /\ tmp # NoFile /\ content[tmp] # Torn
<1>1. /\ ~Idle(t) /\ Head(todo[t]).type = "replace" /\ t \in Saving /\ At(t, "replace")
      /\ content' = content /\ collided' = collided
  BY DEF ReplaceFile, At, Saving, ghosts
<1>2. Moves(t, << >>)
  <2>1. Tail(todo[t]) = << >>
    BY <1>1, FirstStep
  <2> QED
    BY <1>1, <2>1, NextMoves DEF ReplaceFile
<1>3. todo'[t] = << >> /\ todo' = [todo EXCEPT ![t] = << >>]
  BY <1>2, TodoPreserved DEF Moves
<1> SUFFICES ASSUME ~collided
             PROVE  FileInv' /\ path' = tmp /\ tmp # NoFile /\ content[tmp] # Torn
  BY <1>1, <1>3 DEF FileInv
<1>4. (\A u \in Saving : u = t) /\ tmp # NoFile /\ content[tmp] # Torn
  BY <1>1 DEF FileInv
<1>5. path' = tmp
  BY <1>4 DEF ReplaceFile
<1>6. Saving' = {}
  <2>1. t \notin Saving'
    BY <1>3 DEF Saving, At, Idle
  <2> QED
    BY <1>2, <1>4, <2>1, OthersStay DEF Saving
<1>7. RegistryWhole'
  BY <1>1, <1>4, <1>5 DEF RegistryWhole
<1> QED
  BY <1>4, <1>5, <1>6, <1>7 DEF FileInv

\* A start, and the steps that only listen.
LEMMA StartKeeps ==
    ASSUME TypeOK, TodoInv, FileInv, NEW t, NEW s, Starts(t, s)
    PROVE  FileInv'
<1>1. t \in Thread /\ Moves(t, s) /\ Harmless(s)
  BY DEF Starts, Harmless
<1>2. t \notin Saving
  BY DEF Starts, Saving, At
<1>3. path' = path /\ tmp' = tmp /\ content' = content /\ collided' = collided
  BY DEF Starts, disk
<1> QED
  BY <1>1, <1>2, <1>3, HarmlessKeeps

\* An end of the process at any step leaves the files as they are, and after
\* the restart nobody is in a save.
LEMMA RestartKeeps ==
    ASSUME TypeOK, FileInv, Restart
    PROVE  FileInv' /\ Busy' = {}
<1>1. todo' = [t \in Thread |-> << >>] /\ collided' = collided
  BY DEF Restart
<1>2. Saving' = {} /\ Busy' = {}
  BY <1>1 DEF Saving, At, Idle, Busy
<1>3. ~collided => RegistryWhole'
  <2>1. CASE path = NoFile
    <3> DEFINE i == IF tmp = NoFile THEN 1 ELSE tmp
    <3>1. i \in Inode
      BY InodeRange DEF TypeOK
    <3>2. path' = i /\ content' = [content EXCEPT ![i] = {}]
      BY <2>1 DEF Restart
    <3> HIDE DEF i
    <3>3. content'[path'] = {}
      BY <3>1, <3>2 DEF TypeOK
    <3> QED
      BY <3>3 DEF RegistryWhole, Torn
  <2>2. CASE path # NoFile
    <3>1. path' = path /\ content' = content
      BY <2>2 DEF Restart, disk
    <3> QED
      BY <1>1, <3>1 DEF FileInv, RegistryWhole
  <2> QED
    BY <2>1, <2>2
<1> QED
  BY <1>1, <1>2, <1>3 DEF FileInv

Listens == SessionLost \/ OnMqttDisconnected \/ EditFile \/ UNCHANGED vars

\* Every step is one of these.
LEMMA StepCases ==
    ASSUME [Next]_vars
    PROVE  \/ Handler \/ Listens \/ Restart
           \/ \E t \in Thread : \/ Quiet(t) \/ OpenTemporary(t)
                                \/ WriteTemporary(t) \/ ReplaceFile(t)
BY DEF Next, Handler, Listens, Work, Quiet

\* Losing the session and editing the file change nothing here.
LEMMA ListenKeeps ==
    ASSUME Listens
    PROVE  UNCHANGED <<cleanup, devices, known, broker, path, tmp, content, todo,
                       disturbed, overwritten, uncleaned, collided>>
BY DEF Listens, SessionLost, OnMqttDisconnected, EditFile, vars, disk, ghosts

\* Every step keeps FileInv.
LEMMA FileStep ==
    ASSUME TypeOK, TodoInv, FileInv, [Next]_vars
    PROVE  FileInv'
<1>1. CASE Handler
  BY <1>1, HandlerStarts, StartKeeps
<1>2. CASE Listens
  BY <1>2, ListenKeeps DEF FileInv, Saving, At, Arg, Idle, RegistryWhole
<1>3. CASE Restart
  BY <1>3, RestartKeeps
<1>4. ASSUME NEW t \in Thread, Quiet(t)
      PROVE  FileInv'
  BY <1>4, QuietMoves, HarmlessKeeps
<1>5. ASSUME NEW t \in Thread, OpenTemporary(t) \/ WriteTemporary(t) \/ ReplaceFile(t)
      PROVE  FileInv'
  BY <1>5, OpenKeeps, WriteKeeps, ReplaceKeeps
<1> QED
  BY <1>1, <1>2, <1>3, <1>4, <1>5, StepCases

\* At the start the registry is whole, and empty, and nobody saves.
LEMMA FileInitially == Init => FileInv
<1> SUFFICES ASSUME Init
             PROVE  FileInv
  OBVIOUS
<1>1. Saving = {}
  BY DEF Init, Saving, At, Idle
<1>2. content[path] = {}
  BY InodeRange DEF Init
<1>3. RegistryWhole
  BY <1>2 DEF RegistryWhole, Torn
<1> QED
  BY <1>1, <1>3 DEF FileInv

\* DiscoveryRegistry.save writes a temporary file and renames it: the registry
\* is never half written, at whatever step the process ends, as long as no two
\* threads have been in a save at the same time.
THEOREM WholeCorrect == Spec => []RegistryWhole
<1>1. Init => TypeOK /\ TodoInv /\ FileInv
  BY TypeInitially, FileInitially
<1>2. TypeOK /\ TodoInv /\ FileInv /\ [Next]_vars => TypeOK' /\ TodoInv' /\ FileInv'
  BY TypeStep, FileStep
<1>3. FileInv => RegistryWhole
  BY DEF FileInv, RegistryWhole
<1> QED
  BY <1>1, <1>2, <1>3, PTL DEF Spec

-----------------------------------------------------------------------------
(***************************************************************************)
(* What the broker retains.                                                *)
(***************************************************************************)
\* Undisturbed, a thread that is in a handler is the only one.
LEMMA Alone ==
    ASSUME TodoInv, SingleInv, ~disturbed, NEW t \in Thread, ~Idle(t)
    PROVE  /\ ~collided
           /\ \A u \in Thread \ {t} : todo[u] = << >> /\ Pending(u) = {}
<1>1. t \in Busy /\ ~collided /\ \A u, v \in Busy : u = v
  BY DEF Busy, SingleInv
<1>2. \A u \in Thread \ {t} : todo[u] = << >>
  BY <1>1 DEF Busy, Idle
<1> QED
  BY <1>1, <1>2, NothingToDo DEF Pending

\* A step of a handler does not make a disturbed system undisturbed.
LEMMA WorkGoesOn ==
    ASSUME NEW t \in Thread,
           Quiet(t) \/ OpenTemporary(t) \/ WriteTemporary(t) \/ ReplaceFile(t)
    PROVE  ~Idle(t) /\ (~disturbed' => ~disturbed)
<1>1. CASE Quiet(t)
  <2>1. CASE Announce(t) \/ PublishMessage(t) \/ ClearTopic(t)
    BY <2>1 DEF Announce, PublishMessage, ClearTopic, Deliver, At
  <2>2. CASE ComputeDesired(t) \/ Load(t) \/ LoadFails(t) \/ SaveDesired(t) \/ SaveFails(t)
             \/ BuildFails(t)
    BY <2>2 DEF ComputeDesired, Load, LoadFails, SaveDesired, SaveFails, BuildFails, At, ghosts
  <2> QED
    BY <1>1, <2>1, <2>2 DEF Quiet
<1>2. CASE OpenTemporary(t)
  BY <1>2 DEF OpenTemporary, At
<1>3. CASE WriteTemporary(t)
  BY <1>3 DEF WriteTemporary, At, ghosts
<1>4. CASE ReplaceFile(t)
  BY <1>4 DEF ReplaceFile, At, ghosts
<1> QED
  BY <1>1, <1>2, <1>3, <1>4

\* Every step keeps SingleInv.
LEMMA SingleStep ==
    ASSUME TypeOK, TodoInv, SingleInv, [Next]_vars
    PROVE  SingleInv'
<1> SUFFICES ASSUME ~disturbed'
             PROVE  SingleInv'
  BY DEF SingleInv
<1>1. CASE Handler
  <2>1. PICK t, s : Starts(t, s)
    BY <1>1, HandlerStarts
  <2>2. t \in Thread /\ Moves(t, s) /\ Busy = {} /\ ~disturbed /\ collided' = collided
    BY <2>1 DEF Starts
  <2>3. Busy' \subseteq {t}
    BY <2>2, OthersStay DEF Busy
  <2> QED
    BY <2>2, <2>3 DEF SingleInv
<1>2. CASE Listens
  BY <1>2, ListenKeeps DEF SingleInv, Busy, Idle
<1>3. CASE Restart
  <2>1. Busy' = {} /\ ~disturbed /\ collided' = collided
    BY <1>3 DEF Restart, Busy, Idle
  <2> QED
    BY <2>1 DEF SingleInv
<1>4. ASSUME NEW t \in Thread,
             Quiet(t) \/ OpenTemporary(t) \/ WriteTemporary(t) \/ ReplaceFile(t)
      PROVE  SingleInv'
  <2>1. ~Idle(t) /\ ~disturbed
    BY <1>4, WorkGoesOn
  <2>2. ~collided /\ \A u \in Thread \ {t} : todo[u] = << >>
    BY <2>1, Alone
  <2>3. \E s : Moves(t, s)
    <3>1. CASE Quiet(t)
      BY <3>1, QuietMoves
    <3>2. CASE OpenTemporary(t)
      BY <3>2, OpenMoves
    <3>3. CASE WriteTemporary(t) \/ ReplaceFile(t)
      BY <2>1, <3>3, NextMoves DEF WriteTemporary, ReplaceFile
    <3> QED
      BY <1>4, <3>1, <3>2, <3>3
  <2>4. Busy' \subseteq {t}
    <3>1. \A u \in Thread \ {t} : Idle(u)'
      BY <2>2, <2>3, OthersStay DEF Idle
    <3> QED
      BY <3>1 DEF Busy
  <2>5. ~collided'
    <3>1. CASE Quiet(t)
      BY <2>2, <3>1, QuietMoves
    <3>2. CASE OpenTemporary(t)
      <4>1. Saving = {}
        BY <2>2, <3>2 DEF Saving, OpenTemporary, At, Idle
      <4> QED
        BY <2>2, <3>2, <4>1 DEF OpenTemporary
    <3>3. CASE WriteTemporary(t) \/ ReplaceFile(t)
      BY <2>2, <3>3 DEF WriteTemporary, ReplaceFile, ghosts
    <3> QED
      BY <1>4, <3>1, <3>2, <3>3
  <2> QED
    BY <2>4, <2>5 DEF SingleInv
<1> QED
  BY <1>1, <1>2, <1>3, <1>4, StepCases

\* A thread that is at a step has it to do.
LEMMA AtIsPending ==
    ASSUME TodoInv, NEW t \in Thread, NEW s, Moves(t, s), NEW type, At(t, type)'
    PROVE  \E x \in Holds(s) : x.type = type
<1>1. todo'[t] = s /\ s \in Seq(HandlerStep)
  BY TodoPreserved DEF Moves
<1>2. s # << >> /\ Head(s).type = type
  BY <1>1 DEF At, Idle
<1> QED
  BY <1>1, <1>2, HeadAndTail

ToClean == {"desired", "load", "open", "write", "replace"}
ToSave  == {"open", "write", "replace"}

\* TrackInv for the one thread that is in a handler.
TrackOf(t) ==
    /\ \A x \in Pending(t) : Fits(t, x)
    /\ cleanup /\ Up /\ ~uncleaned /\ (\A x \in Pending(t) : x.type \notin ToClean)
         => broker \subseteq devices \cup overwritten
    /\ (\A x \in Pending(t) : x.type \notin ToSave)
         => broker \subseteq Contents \cup devices \cup overwritten
    /\ \A x \in Pending(t) : Tracks(t, x)

\* Where one thread only is at work its own steps are all there is to show ...
LEMMA TrackAlone ==
    ASSUME NEW t \in Thread, \A u \in Thread \ {t} : Pending(u)' = {}, TrackOf(t)'
    PROVE  TrackInv'
<1>1. /\ None(ToClean)' => \A x \in Pending(t)' : x.type \notin ToClean
      /\ None(ToSave)' => \A x \in Pending(t)' : x.type \notin ToSave
  BY DEF None
<1>2. \A u \in Thread : \A x \in Pending(u)' : Fits(u, x)'
  BY DEF TrackOf
<1>3. \A u \in Thread : \A x \in Pending(u)' : Tracks(u, x)'
  BY DEF TrackOf
<1> QED
  BY <1>1, <1>2, <1>3 DEF TrackOf, TrackInv, ToClean, ToSave

\* ... and all there is to use.
LEMMA TrackIsAlone ==
    ASSUME TodoInv, SingleInv, TrackInv, ~disturbed, NEW t \in Thread, ~Idle(t)
    PROVE  TrackOf(t)
<1>1. \A u \in Thread \ {t} : Pending(u) = {}
  BY Alone
<1>2. /\ (\A x \in Pending(t) : x.type \notin ToClean) => None(ToClean)
      /\ (\A x \in Pending(t) : x.type \notin ToSave) => None(ToSave)
  BY <1>1 DEF None
<1> QED
  BY <1>2 DEF TrackOf, TrackInv, ToClean, ToSave

\* A step of the one thread that is in a handler.
LEMMA TrackMoves ==
    ASSUME TodoInv, SingleInv, ~disturbed, NEW t \in Thread, ~Idle(t),
           NEW s, Moves(t, s)
    PROVE  Pending(t)' = Holds(s) /\ TodoInv' /\ (TrackOf(t)' => TrackInv')
<1>1. Pending(t)' = Holds(s) /\ TodoInv'
  BY TodoPreserved DEF Moves
<1>2. \A u \in Thread \ {t} : Pending(u)' = {}
  BY Alone, OthersStay
<1>3. TrackOf(t)' => TrackInv'
  BY <1>2, TrackAlone
<1> QED
  BY <1>1, <1>3

\* The broker gets a topic that is wanted.
LEMMA PublishTracks ==
    ASSUME TypeOK, TodoInv, SingleInv, TrackInv, ~disturbed, ~disturbed',
           NEW t \in Thread, Announce(t) \/ PublishMessage(t)
    PROVE  TrackInv'
<1> DEFINE h == Head(todo[t])
           s == Tail(todo[t])
<1>1. ~Idle(t) /\ h.type \in {"announce", "message"}
  BY DEF Announce, PublishMessage, At
<1>2. /\ h \in Pending(t) /\ Pending(t) = {h} \cup Holds(s)
      /\ \A z \in Holds(s) : Before(h, z)
  BY <1>1, FirstStep
<1>3. \A z \in Holds(s) : z.type \in {"announce", "message", "desired", "save"}
  BY <1>1, <1>2 DEF Before
<1>4. TrackOf(t)
  BY <1>1, TrackIsAlone
<1>5. Deliver(t, broker \cup {Arg(t)}) /\ session = "alive"
  BY DEF Announce, PublishMessage, Deliver
<1>6. /\ broker' = broker \cup {Arg(t)} /\ Up
      /\ UNCHANGED <<cleanup, session, overwritten, uncleaned, path, content>>
  BY <1>5 DEF Deliver, Up, disk
<1>7. devices \subseteq devices' /\ Arg(t) \in devices'
  <2>1. CASE Announce(t)
    BY <1>6, <2>1 DEF Announce
  <2>2. CASE PublishMessage(t)
    <3>1. Fits(t, h) /\ h.type = "message" /\ Arg(t) = h.arg
      BY <1>2, <1>4, <2>2 DEF TrackOf, PublishMessage, At, Arg
    <3> QED
      BY <2>2, <3>1 DEF Fits, PublishMessage
  <2> QED
    BY <2>1, <2>2
<1>8. Moves(t, s)
  BY <1>1, <1>5, NextMoves DEF Deliver
<1> HIDE DEF h, s
<1>9. Pending(t)' = Holds(s) /\ (TrackOf(t)' => TrackInv')
  BY <1>1, <1>8, TrackMoves
<1>10. Up' = Up /\ Contents' = Contents
  BY <1>6 DEF Up, Contents
<1>11. ASSUME NEW x \in Holds(s)
       PROVE  Fits(t, x)' /\ Tracks(t, x)'
  <2>1. ~At(t, "replace")'
    BY <1>3, <1>8, AtIsPending
  <2>2. Fits(t, x) /\ x.type \in {"announce", "message", "desired", "save"}
    BY <1>2, <1>3, <1>4 DEF TrackOf
  <2> QED
    BY <1>6, <1>7, <2>1, <2>2 DEF Fits, Tracks
<1>12. cleanup /\ ~uncleaned /\ (\A x \in Holds(s) : x.type \notin ToClean)
         => broker' \subseteq devices' \cup overwritten
  <2>1. h.type \notin ToClean
    BY <1>1 DEF ToClean
  <2> QED
    BY <1>2, <1>4, <1>6, <1>7, <2>1 DEF TrackOf
<1>13. broker' \subseteq Contents' \cup devices' \cup overwritten
  <2>1. \A x \in Pending(t) : x.type \notin ToSave
    BY <1>1, <1>2, <1>3 DEF ToSave
  <2> QED
    BY <1>4, <1>6, <1>7, <1>10, <2>1 DEF TrackOf
<1>14. TrackOf(t)'
  BY <1>6, <1>9, <1>11, <1>12, <1>13 DEF TrackOf
<1> QED
  BY <1>9, <1>14

\* A handler breaks off before its cleanup, which it has then not done.
LEMMA BuildTracks ==
    ASSUME TypeOK, TodoInv, SingleInv, TrackInv, ~disturbed,
           NEW t \in Thread, BuildFails(t)
    PROVE  TrackInv'
<1> DEFINE h == Head(todo[t])
           s == Tail(todo[t])
<1>1. ~Idle(t) /\ h.type \in {"announce", "desired", "save"}
  BY DEF BuildFails, At
<1>2. /\ Pending(t) = {h} \cup Holds(s)
      /\ \A z \in Holds(s) : Before(h, z)
  BY <1>1, FirstStep
<1>3. \A z \in Holds(s) : z.type \in {"announce", "message", "desired", "save"}
  BY <1>1, <1>2 DEF Before
<1>4. TrackOf(t)
  BY <1>1, TrackIsAlone
<1>5. /\ Moves(t, << >>) /\ todo[t] \in Seq(HandlerStep)
      /\ UNCHANGED <<cleanup, devices, session, broker, path, content, overwritten>>
      /\ uncleaned' = (uncleaned \/ Cleans(todo[t]))
  BY NothingToDo DEF BuildFails, Moves, disk, TodoInv
<1> HIDE DEF h, s
<1>6. Pending(t)' = {} /\ (TrackOf(t)' => TrackInv')
  BY <1>1, <1>5, TrackMoves, NothingToDo
<1>7. Up' = Up /\ Contents' = Contents
  BY <1>5 DEF Up, Contents
<1>8. ~uncleaned' => ~uncleaned /\ \A x \in Pending(t) : x.type \notin ToClean
  <2>1. ~uncleaned' => ~uncleaned /\ \A x \in Pending(t) : x.type # "desired"
    BY <1>5, CleansHolds DEF Pending
  <2> QED
    BY <1>1, <1>2, <1>3, <2>1 DEF ToClean
<1>9. \A x \in Pending(t) : x.type \notin ToSave
  BY <1>1, <1>2, <1>3 DEF ToSave
<1>10. TrackOf(t)'
  BY <1>4, <1>5, <1>6, <1>7, <1>8, <1>9 DEF TrackOf
<1> QED
  BY <1>6, <1>10

\* A topic is cleared that the same handler will not save.
LEMMA ClearTracks ==
    ASSUME TypeOK, TodoInv, SingleInv, TrackInv, ~disturbed, ~disturbed',
           NEW t \in Thread, ClearTopic(t)
    PROVE  TrackInv'
<1> DEFINE h == Head(todo[t])
           s == Tail(todo[t])
<1>1. ~Idle(t) /\ h.type = "clear" /\ h.arg = Arg(t)
  BY DEF ClearTopic, At, Arg
<1>2. /\ Pending(t) = {h} \cup Holds(s)
      /\ \A z \in Holds(s) : Before(h, z)
  BY <1>1, FirstStep
<1>3. \A z \in Holds(s) : z.type \in {"clear", "open"}
  BY <1>1, <1>2 DEF Before
<1>4. TrackOf(t)
  BY <1>1, TrackIsAlone
<1>5. Deliver(t, broker \ {Arg(t)}) /\ session = "alive"
  BY DEF ClearTopic, Deliver
<1>6. /\ broker' = broker \ {Arg(t)}
      /\ UNCHANGED <<cleanup, devices, session, overwritten, uncleaned, path, content>>
  BY <1>5 DEF Deliver, ClearTopic, disk
<1>7. Moves(t, s)
  BY <1>1, <1>5, NextMoves DEF Deliver
<1> HIDE DEF h, s
<1>8. Pending(t)' = Holds(s) /\ (TrackOf(t)' => TrackInv')
  BY <1>1, <1>7, TrackMoves
<1>9. Up' = Up /\ Contents' = Contents
  BY <1>6 DEF Up, Contents
<1>10. Clears(t) \subseteq {Arg(t)} \cup Clears(t)'
  BY <1>1, <1>2, <1>8 DEF Clears
<1>11. ASSUME NEW x \in Holds(s)
       PROVE  Fits(t, x)' /\ Tracks(t, x)'
  <2>1. ~At(t, "replace")'
    BY <1>3, <1>7, AtIsPending
  <2>2. /\ Fits(t, x) /\ x.type \in {"clear", "open"}
        /\ Tracks(t, x)
    BY <1>2, <1>3, <1>4 DEF TrackOf
  <2>3. Fits(t, x)'
    BY <1>6, <2>1, <2>2 DEF Fits
  <2>4. Tracks(t, x)'
    BY <1>6, <1>10, <2>1, <2>2 DEF Tracks
  <2> QED
    BY <2>3, <2>4
<1>12. /\ h.type \notin ToClean
       /\ h.type \notin ToSave
  BY <1>1 DEF ToClean, ToSave
<1>13. TrackOf(t)'
  BY <1>2, <1>4, <1>6, <1>8, <1>9, <1>11, <1>12 DEF TrackOf
<1> QED
  BY <1>8, <1>13

\* Each step of a cleanup or save keeps the stale topics known.  Computing the
\* desired topics:
LEMMA DesiredTracks ==
    ASSUME TypeOK, TodoInv, SingleInv, TrackInv, ~disturbed,
           NEW t \in Thread, ComputeDesired(t)
    PROVE  TrackInv'
<1> DEFINE z == Step("load", <<Arg(t), devices>>)
           s == << z >>
<1>1. ~Idle(t) /\ Head(todo[t]).type = "desired" /\ Head(todo[t]).arg = Arg(t)
  BY DEF ComputeDesired, At, Arg
<1>2. /\ Moves(t, s) /\ Holds(s) = {z} /\ Head(todo[t]) \in Pending(t)
      /\ Pending(t) = {Head(todo[t])}
  <2>1. Moves(t, s) /\ Holds(s) = {z} /\ Head(todo[t]) \in Pending(t)
    BY DesiredMoves
  <2>2. Pending(t) = {Head(todo[t])} \cup Holds(<< >>)
    BY <1>1, FirstStep
  <2> QED
    BY <2>1, <2>2, NothingToDo
<1>3. z.type = "load" /\ z.arg[1] = Arg(t) /\ z.arg[2] = devices
  BY DEF Step
<1>4. TrackOf(t)
  BY <1>1, TrackIsAlone
<1>5. UNCHANGED <<cleanup, devices, session, broker, path, content, overwritten, uncleaned>>
  BY DEF ComputeDesired, disk, ghosts
<1> HIDE DEF z, s
<1>6. Pending(t)' = {z} /\ (TrackOf(t)' => TrackInv')
  BY <1>1, <1>2, TrackMoves
<1>7. ASSUME NEW x, x = z
      PROVE  Fits(t, x)' /\ Tracks(t, x)'
  <2>1. ~At(t, "replace")'
    BY <1>2, <1>3, AtIsPending
  <2>2. cleanup => Arg(t) # "merge"
    BY <1>1, <1>2, <1>4 DEF TrackOf, Fits
  <2> QED
    BY <1>3, <1>5, <1>7, <2>1, <2>2 DEF Fits, Tracks
<1>8. broker \subseteq Contents \cup devices \cup overwritten
  <2>1. \A x \in Pending(t) : x.type \notin ToSave
    BY <1>1, <1>2 DEF ToSave
  <2> QED
    BY <1>4, <2>1 DEF TrackOf
<1>9. Contents' = Contents /\ z.type \in ToClean
  BY <1>3, <1>5 DEF Contents, ToClean
<1>10. TrackOf(t)'
  BY <1>5, <1>6, <1>7, <1>8, <1>9 DEF TrackOf
<1> QED
  BY <1>6, <1>10

\* The load of the registry, which decides what is cleared and what is kept:
LEMMA LoadTracks ==
    ASSUME TypeOK, TodoInv, SingleInv, TrackInv, ~disturbed,
           NEW t \in Thread, Load(t)
    PROVE  TrackInv'
<1> DEFINE how == Arg(t)[1]
           D == Arg(t)[2]
           s == AfterLoad(how, D, Contents)
<1>1. /\ ~Idle(t) /\ At(t, "load")
      /\ Head(todo[t]).type = "load" /\ Head(todo[t]).arg = Arg(t)
  BY DEF Load, At, Arg
<1>2. /\ Pending(t) = {Head(todo[t])}
      /\ how \in How /\ D \in SUBSET Device /\ Contents \in SUBSET Device
  BY <1>1, LoadArguments, ContentsType
<1>3. Moves(t, s)
  BY <1>1, <1>2, LoadMoves DEF Load
<1>4. TrackOf(t)
  BY <1>1, TrackIsAlone
<1>5. UNCHANGED <<cleanup, devices, session, broker, overwritten, uncleaned>>
  BY DEF Load, ghosts
<1>6. D = devices /\ (cleanup => how # "merge")
  BY <1>1, <1>2, <1>4 DEF TrackOf, Fits
<1>7. broker \subseteq Contents \cup devices \cup overwritten
  <2>1. \A x \in Pending(t) : x.type \notin ToSave
    BY <1>1, <1>2 DEF ToSave
  <2> QED
    BY <1>4, <2>1 DEF TrackOf
<1>8. \E S, N \in SUBSET Device :
        /\ \A x \in Holds(s) : x = Step("open", N) \/ x \in {Step("clear", d) : d \in S}
        /\ \A d \in S : Step("clear", d) \in Holds(s)
        /\ Step("open", N) \in Holds(s)
        /\ cleanup => N \subseteq devices
        /\ Contents \cup devices \subseteq N \cup S
  <2> HIDE DEF how, D
  <2>1. CASE how = "reset"
    <3> DEFINE S == D \cup Contents
               N == NoTopics
    <3>1. Holds(s) = Listed("clear", S, Step("open", N))
      BY <1>2, <2>1, ResetSteps
    <3>2. /\ S \in SUBSET Device /\ N \in SUBSET Device /\ (cleanup => N \subseteq devices)
          /\ Contents \cup devices \subseteq N \cup S
      BY <1>2, <1>6 DEF NoTopics
    <3> HIDE DEF S, N, s
    <3> QED
      BY <3>1, <3>2 DEF Listed
  <2>2. CASE how = "merge"
    <3> DEFINE S == {}
               N == Contents \cup D
    <3>1. Holds(s) = {Step("open", N)}
      BY <1>2, <2>2, AfterLoadSteps
    <3>2. /\ S \in SUBSET Device /\ N \in SUBSET Device /\ (cleanup => N \subseteq devices)
          /\ Contents \cup devices \subseteq N \cup S /\ \A d \in S : FALSE
      BY <1>2, <1>6, <2>2
    <3> HIDE DEF S, N, s
    <3> QED
      BY <3>1, <3>2
  <2>3. CASE how = "prune"
    <3> DEFINE S == Contents \ D
               N == D
    <3>1. Holds(s) = Listed("clear", S, Step("open", N))
      BY <1>2, <2>3, AfterLoadSteps
    <3>2. /\ S \in SUBSET Device /\ N \in SUBSET Device /\ (cleanup => N \subseteq devices)
          /\ Contents \cup devices \subseteq N \cup S
      BY <1>2, <1>6
    <3> HIDE DEF S, N, s
    <3> QED
      BY <3>1, <3>2 DEF Listed
  <2> QED
    BY <1>2, <2>1, <2>2, <2>3 DEF How
<1> HIDE DEF how, D, s
<1>9. PICK S, N \in SUBSET Device :
        /\ \A x \in Holds(s) : x = Step("open", N) \/ x \in {Step("clear", d) : d \in S}
        /\ \A d \in S : Step("clear", d) \in Holds(s)
        /\ Step("open", N) \in Holds(s)
        /\ cleanup => N \subseteq devices
        /\ Contents \cup devices \subseteq N \cup S
  BY <1>8
<1>10. Pending(t)' = Holds(s) /\ (TrackOf(t)' => TrackInv')
  BY <1>1, <1>3, TrackMoves
<1>11. S \subseteq Clears(t)'
  <2>1. ASSUME NEW d \in S
        PROVE  d \in Clears(t)'
    <3>1. /\ Step("clear", d) \in Pending(t)'
          /\ Step("clear", d).type = "clear" /\ Step("clear", d).arg = d
      BY <1>9, <1>10 DEF Step
    <3> QED
      BY <3>1 DEF Clears
  <2> QED
    BY <2>1
<1>12. \A x \in Holds(s) : (x.type = "open" /\ x.arg = N) \/ x.type = "clear"
  BY <1>9 DEF Step
<1>13. ASSUME NEW x \in Holds(s)
       PROVE  Fits(t, x)' /\ Tracks(t, x)'
  <2>1. ~At(t, "replace")'
    BY <1>3, <1>12, AtIsPending
  <2>2. Fits(t, x)'
    BY <1>5, <1>9, <1>12, <2>1 DEF Fits
  <2>3. Tracks(t, x)'
    BY <1>5, <1>7, <1>9, <1>11, <1>12, <2>1 DEF Tracks
  <2> QED
    BY <2>2, <2>3
<1>14. \E x \in Holds(s) : x.type \in ToClean /\ x.type \in ToSave
  BY <1>9 DEF Step, ToClean, ToSave
<1>15. TrackOf(t)'
  BY <1>10, <1>13, <1>14 DEF TrackOf
<1> QED
  BY <1>10, <1>15

\* The save of the desired topics by hello, health and REDISCOVER:
LEMMA SaveTracks ==
    ASSUME TypeOK, TodoInv, SingleInv, TrackInv, ~disturbed,
           NEW t \in Thread, SaveDesired(t)
    PROVE  TrackInv'
<1> DEFINE z == Step("open", devices)
           s == << z >>
<1>1. ~Idle(t) /\ Head(todo[t]).type = "save"
  BY DEF SaveDesired, At
<1>2. /\ Moves(t, s) /\ Holds(s) = {z} /\ Head(todo[t]) \in Pending(t)
      /\ Pending(t) = {Head(todo[t])}
  <2>1. Moves(t, s) /\ Holds(s) = {z} /\ Head(todo[t]) \in Pending(t)
    BY SaveMoves
  <2>2. Pending(t) = {Head(todo[t])} \cup Holds(<< >>)
    BY <1>1, FirstStep
  <2> QED
    BY <2>1, <2>2, NothingToDo
<1>3. z.type = "open" /\ z.arg = devices
  BY DEF Step
<1>4. TrackOf(t)
  BY <1>1, TrackIsAlone
<1>5. /\ UNCHANGED <<cleanup, devices, session, broker, path, content, uncleaned>>
      /\ overwritten' = overwritten \cup (Contents \ devices)
  BY DEF SaveDesired, disk, Desired
<1> HIDE DEF z, s
<1>6. Pending(t)' = {z} /\ (TrackOf(t)' => TrackInv')
  BY <1>1, <1>2, TrackMoves
<1>7. broker \subseteq devices \cup overwritten'
  <2>1. \A x \in Pending(t) : x.type \notin ToSave
    BY <1>1, <1>2 DEF ToSave
  <2>2. broker \subseteq Contents \cup devices \cup overwritten
    BY <1>4, <2>1 DEF TrackOf
  <2> QED
    BY <1>5, <2>2
<1>8. ASSUME NEW x, x = z
      PROVE  Fits(t, x)' /\ Tracks(t, x)'
  <2>1. ~At(t, "replace")'
    BY <1>2, <1>3, AtIsPending
  <2> QED
    BY <1>3, <1>5, <1>7, <1>8, <2>1 DEF Fits, Tracks
<1>9. z.type \in ToClean /\ z.type \in ToSave
  BY <1>3 DEF ToClean, ToSave
<1>10. TrackOf(t)'
  BY <1>6, <1>8, <1>9 DEF TrackOf
<1> QED
  BY <1>6, <1>10

\* Opening the temporary file:
LEMMA OpenTracks ==
    ASSUME TypeOK, TodoInv, SingleInv, TrackInv, ~disturbed,
           NEW t \in Thread, OpenTemporary(t)
    PROVE  TrackInv'
<1>1. /\ ~Idle(t) /\ Head(todo[t]).type = "open" /\ Head(todo[t]).arg = Arg(t)
  BY DEF OpenTemporary, At, Arg
<1>2. Head(todo[t]) \in Pending(t) /\ Pending(t) = {Head(todo[t])}
  BY OpenMoves
<1>3. PICK w, r \in HandlerStep :
        /\ w = Step("write", <<tmp', Arg(t)>>) /\ r.type = "replace"
        /\ Moves(t, <<w, r>>) /\ Holds(<<w, r>>) = {w, r}
  BY OpenMoves
<1>4. w.type = "write" /\ w.arg[2] = Arg(t)
  BY <1>3 DEF Step
<1>5. TrackOf(t)
  BY <1>1, TrackIsAlone
<1>6. UNCHANGED <<cleanup, devices, session, broker, overwritten, uncleaned>>
  BY DEF OpenTemporary
<1>7. /\ cleanup => Arg(t) \subseteq devices
      /\ broker \subseteq Arg(t) \cup overwritten
  <2>1. Clears(t) = {}
    BY <1>1, <1>2 DEF Clears
  <2> QED
    BY <1>1, <1>2, <1>5, <2>1 DEF TrackOf, Fits, Tracks
<1>8. Pending(t)' = {w, r} /\ (TrackOf(t)' => TrackInv')
  BY <1>1, <1>3, TrackMoves
<1>9. ~At(t, "replace")'
  <2>1. todo'[t] = <<w, r>>
    BY <1>3, TodoPreserved DEF Moves
  <2> QED
    BY <1>4, <2>1 DEF At
<1>10. ASSUME NEW x \in {w, r}
       PROVE  Fits(t, x)' /\ Tracks(t, x)'
  BY <1>3, <1>4, <1>6, <1>7, <1>9 DEF Fits, Tracks
<1>11. w.type \in ToClean /\ w.type \in ToSave
  BY <1>4 DEF ToClean, ToSave
<1>12. TrackOf(t)'
  BY <1>8, <1>10, <1>11 DEF TrackOf
<1> QED
  BY <1>8, <1>12

\* Writing it:
LEMMA WriteTracks ==
    ASSUME TypeOK, TodoInv, FileInv, SingleInv, TrackInv, ~disturbed,
           NEW t \in Thread, WriteTemporary(t)
    PROVE  TrackInv'
<1> DEFINE h == Head(todo[t])
           s == Tail(todo[t])
<1>1. ~Idle(t) /\ h.type = "write" /\ h.arg = Arg(t)
  BY DEF WriteTemporary, At, Arg
<1>2. /\ h \in Pending(t) /\ Pending(t) = {h} \cup Holds(s)
      /\ \A z \in Holds(s) : Before(h, z)
  BY <1>1, FirstStep
<1>3. \A z \in Holds(s) : z.type = "replace"
  BY <1>1, <1>2 DEF Before
<1>4. TrackOf(t)
  BY <1>1, TrackIsAlone
<1>5. UNCHANGED <<cleanup, devices, session, broker, tmp, path, overwritten, uncleaned>>
  BY DEF WriteTemporary, ghosts
<1>6. content' = [content EXCEPT ![tmp] = Arg(t)[2]] /\ tmp \in Inode
  BY <1>1, Alone, WriteKeeps
<1>7. content'[tmp'] = Arg(t)[2]
  BY <1>5, <1>6 DEF TypeOK
<1>8. /\ cleanup => Arg(t)[2] \subseteq devices
      /\ broker \subseteq Arg(t)[2] \cup overwritten
  BY <1>1, <1>2, <1>4 DEF TrackOf, Fits, Tracks
<1>9. Moves(t, s)
  BY <1>1, NextMoves DEF WriteTemporary
<1> HIDE DEF h, s
<1>10. Pending(t)' = Holds(s) /\ (TrackOf(t)' => TrackInv')
  BY <1>1, <1>9, TrackMoves
<1>11. ASSUME NEW x \in Holds(s)
       PROVE  Fits(t, x)' /\ Tracks(t, x)'
  BY <1>3, <1>5, <1>7, <1>8 DEF Fits, Tracks
<1>12. \E x \in Holds(s) : x.type \in ToClean /\ x.type \in ToSave
  <2>1. s \in Seq(HandlerStep) /\ s # << >>
    BY <1>1, FirstStep DEF h, s
  <2>2. Head(s) \in Holds(s)
    BY <2>1, HeadAndTail
  <2> QED
    BY <1>3, <2>2 DEF ToClean, ToSave
<1>13. TrackOf(t)'
  BY <1>10, <1>11, <1>12 DEF TrackOf
<1> QED
  BY <1>10, <1>13

\* The rename, from which on the registry is what was written:
LEMMA ReplaceTracks ==
    ASSUME TypeOK, TodoInv, FileInv, SingleInv, TrackInv, ~disturbed,
           NEW t \in Thread, ReplaceFile(t)
    PROVE  TrackInv'
<1>1. ~Idle(t) /\ At(t, "replace") /\ Head(todo[t]) \in Pending(t)
  BY FirstStep DEF ReplaceFile, At
<1>2. TrackOf(t)
  BY <1>1, TrackIsAlone
<1>3. /\ UNCHANGED <<cleanup, devices, session, broker, content, uncleaned>>
      /\ overwritten' = overwritten \ Contents'
  BY DEF ReplaceFile
<1>4. path' = tmp /\ tmp # NoFile /\ content[tmp] # Torn /\ todo' = [todo EXCEPT ![t] = << >>]
  BY <1>1, Alone, ReplaceKeeps
<1>5. Contents' = content[tmp]
  BY <1>3, <1>4 DEF Contents
<1>6. Moves(t, << >>)
  BY <1>4, NothingToDo DEF Moves
<1>7. Pending(t)' = {} /\ (TrackOf(t)' => TrackInv')
  BY <1>1, <1>6, TrackMoves, NothingToDo
<1>8. /\ cleanup => content[tmp] \subseteq devices
      /\ broker \subseteq content[tmp] \cup overwritten
  BY <1>1, <1>2 DEF TrackOf, Fits, Tracks
<1>9. TrackOf(t)'
  BY <1>3, <1>5, <1>7, <1>8 DEF TrackOf
<1> QED
  BY <1>7, <1>9

\* A handler starts while no other is under way.
LEMMA StartTracks ==
    ASSUME TypeOK, TodoInv, TrackInv, ~disturbed', NEW t, NEW s, Starts(t, s)
    PROVE  TrackInv'
<1>1. /\ t \in Thread /\ Moves(t, s) /\ ~disturbed /\ Busy = {}
      /\ UNCHANGED <<cleanup, broker, overwritten, path, content>>
  BY DEF Starts, disk
<1>2. \A x \in Holds(s) :
        /\ x.type \in {"announce", "message", "desired", "save"}
        /\ x.type = "message" => x.arg \in devices'
        /\ x.type = "desired" /\ cleanup => x.arg # "merge"
        /\ x.type = "save" => Up /\ devices' = devices
  BY DEF Starts
<1>3. \A u \in Thread : Pending(u) = {}
  BY <1>1, NothingToDo DEF Busy, Idle, Pending
<1>4. None(ToClean) /\ None(ToSave)
  BY <1>3 DEF None
<1>5. /\ cleanup /\ Up /\ ~uncleaned => broker \subseteq devices \cup overwritten
      /\ broker \subseteq Contents \cup devices \cup overwritten
  BY <1>1, <1>4 DEF TrackInv, ToClean, ToSave
<1>6. Contents' = Contents
  BY <1>1 DEF Contents
<1>7. broker \subseteq Contents \cup devices' \cup overwritten
  BY <1>1, <1>5 DEF Starts, Unsaved
<1>8. /\ Pending(t)' = Holds(s)
      /\ \A u \in Thread \ {t} : Pending(u)' = {}
  BY <1>1, <1>3, TodoPreserved DEF Moves
<1>9. ASSUME NEW x \in Holds(s)
      PROVE  Fits(t, x)' /\ Tracks(t, x)'
  <2>1. ~At(t, "replace")'
    BY <1>1, <1>2, AtIsPending
  <2> QED
    BY <1>1, <1>2, <1>5, <2>1 DEF Fits, Tracks
<1>10. cleanup /\ Up' /\ ~uncleaned' /\ (\A x \in Holds(s) : x.type \notin ToClean)
         => broker \subseteq devices' \cup overwritten
  <2>1. ~uncleaned' => ~uncleaned \/ \E x \in Holds(s) : x.type = "desired"
    BY DEF Starts
  <2>2. Up' => (\E x \in Holds(s) : x.type = "desired") \/ (Up /\ devices \subseteq devices')
    BY DEF Starts
  <2> QED
    BY <1>5, <2>1, <2>2 DEF ToClean
<1>11. TrackOf(t)'
  BY <1>1, <1>6, <1>7, <1>8, <1>9, <1>10 DEF TrackOf
<1> QED
  BY <1>1, <1>8, <1>11, TrackAlone

\* The process is started again: what it forgets is in the registry.
LEMMA RestartTracks ==
    ASSUME TypeOK, TodoInv, TrackInv, ~disturbed', Restart
    PROVE  TrackInv'
<1>1. /\ ~disturbed /\ Busy = {} /\ Unsaved \subseteq file /\ devices' = file
      /\ session' = "none" /\ todo' = [t \in Thread |-> << >>]
      /\ UNCHANGED <<file, broker, overwritten>>
  BY DEF Restart
<1>2. \A u \in Thread : Pending(u)' = {}
  BY <1>1, NothingToDo DEF Pending
<1>3. Contents' = Contents
  <2>1. CASE path = NoFile
    <3> DEFINE i == IF tmp = NoFile THEN 1 ELSE tmp
    <3>1. i \in Inode
      BY InodeRange DEF TypeOK
    <3>2. path' = i /\ content' = [content EXCEPT ![i] = {}]
      BY <2>1 DEF Restart
    <3> HIDE DEF i
    <3>3. content'[path'] = {}
      BY <3>1, <3>2 DEF TypeOK
    <3> QED
      BY <2>1, <3>3 DEF Contents
  <2>2. CASE path # NoFile
    BY <2>2 DEF Restart, disk, Contents
  <2> QED
    BY <2>1, <2>2
<1>4. broker' \subseteq Contents' \cup devices'
  BY <1>1, <1>3 DEF Unsaved
<1>5. ~Up'
  BY <1>1 DEF Up
<1> QED
  BY <1>2, <1>4, <1>5 DEF TrackInv

\* Losing the session and editing the file leave it as it is.
LEMMA ListenTracks ==
    ASSUME TrackInv, Listens
    PROVE  TrackInv'
<1>1. UNCHANGED <<cleanup, devices, known, broker, path, tmp, content, todo,
                  disturbed, overwritten, uncleaned, collided>>
  BY ListenKeeps
<1>2. /\ \A t \in Thread : Pending(t)' = Pending(t) /\ Clears(t)' = Clears(t)
      /\ \A types : None(types)' = None(types)
      /\ Contents' = Contents
  BY <1>1 DEF Pending, Clears, None, Contents
<1>3. \A t \in Thread : \A x : Fits(t, x)' = Fits(t, x) /\ Tracks(t, x)' = Tracks(t, x)
  BY <1>1, <1>2 DEF Fits, Tracks, At, Idle
<1>4. Up' => Up
  BY DEF Listens, SessionLost, OnMqttDisconnected, EditFile, vars, Up
<1> QED
  BY <1>1, <1>2, <1>3, <1>4 DEF TrackInv

\* Every step keeps TrackInv.
LEMMA TrackStep ==
    ASSUME TypeOK, TodoInv, FileInv, SingleInv, TrackInv, [Next]_vars
    PROVE  TrackInv'
<1> SUFFICES ASSUME ~disturbed'
             PROVE  TrackInv'
  BY DEF TrackInv
<1>1. CASE Handler
  BY <1>1, HandlerStarts, StartTracks
<1>2. CASE Listens
  BY <1>2, ListenTracks
<1>3. CASE Restart
  BY <1>3, RestartTracks
<1>4. ASSUME NEW t \in Thread, Quiet(t)
      PROVE  TrackInv'
  <2>1. ~disturbed
    BY <1>4, WorkGoesOn
  <2>2. ~LoadFails(t) /\ ~SaveFails(t)
    BY DEF LoadFails, SaveFails
  <2> QED
    BY <1>4, <2>1, <2>2, BuildTracks, PublishTracks, ClearTracks, DesiredTracks, LoadTracks, SaveTracks
       DEF Quiet
<1>5. ASSUME NEW t \in Thread, OpenTemporary(t) \/ WriteTemporary(t) \/ ReplaceFile(t)
      PROVE  TrackInv'
  <2>1. ~disturbed
    BY <1>5, WorkGoesOn
  <2> QED
    BY <1>5, <2>1, OpenTracks, WriteTracks, ReplaceTracks
<1> QED
  BY <1>1, <1>2, <1>3, <1>4, <1>5, StepCases

RegistryInv == TypeOK /\ TodoInv /\ FileInv /\ SingleInv /\ TrackInv

\* All parts of the invariant hold throughout.
LEMMA RegistryInvariant == Spec => []RegistryInv
<1>1. Init => RegistryInv
  <2> SUFFICES ASSUME Init
               PROVE  RegistryInv
    OBVIOUS
  <2>1. Busy = {} /\ broker = {} /\ ~collided
    BY DEF Init, Busy, Idle
  <2>2. \A t \in Thread : Pending(t) = {}
    BY NothingToDo DEF Init, Pending
  <2>3. SingleInv
    BY <2>1 DEF SingleInv
  <2>4. TrackInv
    BY <2>1, <2>2 DEF TrackInv
  <2> QED
    BY <2>3, <2>4, TypeInitially, FileInitially DEF RegistryInv
<1>2. RegistryInv /\ [Next]_vars => RegistryInv'
  BY TypeStep, FileStep, SingleStep, TrackStep DEF RegistryInv
<1> QED
  BY <1>1, <1>2, PTL DEF Spec

\* At rest nothing is under way.
LEMMA RestIsIdle ==
    ASSUME AtRest
    PROVE  ~disturbed /\ None(ToClean) /\ None(ToSave)
<1>1. \A t \in Thread : Pending(t) = {}
  BY NothingToDo DEF AtRest, Busy, Idle, Pending
<1> QED
  BY <1>1 DEF AtRest, None

\* bridge.py:_run_discovery_cleanup and discovery_registry.py: a retained topic
\* that nobody wants is in the registry, unless handlers overlapped, something
\* was lost or failed, or hello, health or REDISCOVER dropped it.
THEOREM TrackedCorrect == Spec => []StaleIsTracked
<1>1. RegistryInv => StaleIsTracked
  BY RestIsIdle DEF RegistryInv, TrackInv, StaleIsTracked, Desired, ToSave
<1> QED
  BY <1>1, RegistryInvariant, PTL

\* DISCOVERY_CLEANUP, at whichever start it is set: while the bridge is
\* connected and at rest nothing that was tracked stays retained and stale,
\* unless the cleanup was broken off by a device that cannot be announced.
THEOREM NothingStaleCorrect == Spec => []NothingStale
<1>1. RegistryInv => NothingStale
  BY RestIsIdle DEF RegistryInv, TrackInv, NothingStale, Desired, Up, ToClean
<1> QED
  BY <1>1, RegistryInvariant, PTL
=============================================================================
