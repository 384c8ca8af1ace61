--------------------------- MODULE Plugins_proofs ---------------------------
(***************************************************************************)
(* What the registry promises for every set of plugins, every layout of    *)
(* directories and every scenario.                                         *)
(*                                                                         *)
(* EveryNameReachesItsPlugin is not inductive: it says who is asked, and   *)
(* the registry is only asked where the application has no answer.  The    *)
(* invariant below says it of the registry itself, keeps the names of the  *)
(* application out of it, and remembers that a reading begins with the     *)
(* application's factory set and with the registry open.                   *)
(***************************************************************************)
EXTENDS Plugins, SequenceTheorems, TLAPS

Open ==
  /\ phase \in {"start", "parsing"} => ~sealed
  /\ attempts = 0 => ~sealed
  /\ phase = "parsing" => builtinSet /\ program # "plugininfo" /\ attempts # 0

Owned ==
  /\ \A i \in DOMAIN loaded : \A n \in Declares[loaded[i]] :
       registry[n] = loaded[i] /\ n \in Builds[loaded[i]]
  /\ \A n \in Names : registry[n] # Nothing => IsLoaded(registry[n])

NoShadow ==
  program # "plugininfo" => \A n \in Builtins : registry[n] = Nothing

History ==
  /\ \A x \in made : Maker(x[1]) = x[2] /\ x[2] # Nothing
  /\ \A a \in asserted : registry[a[1]] = a[2] /\ program # "plugininfo"

RegistryInv == Open /\ Owned /\ NoShadow /\ History

-----------------------------------------------------------------------------
(* Types.                                                                  *)

\* What a registration leaves is of the right kind.
LEMMA RegisterType ==
  ASSUME TypeOK, NEW f \in Files, NEW provides \in SUBSET Names,
         Register(provides, f)
  PROVE  /\ registry' \in [Names -> Files \cup {Nothing}]
         /\ loaded' \in Seq(Files)
         /\ asserted' \subseteq Names \X Files
         /\ phase' = phase /\ made' = made
  BY DEF Register, TypeOK

\* So is what a load leaves, whichever way it ends.
LEMMA LoadType ==
  ASSUME TypeOK, NEW spec, NEW dirs, NEW provides \in SUBSET Names,
         LoadModule(spec, dirs, provides)
  PROVE  /\ registry' \in [Names -> Files \cup {Nothing}]
         /\ loaded' \in Seq(Files)
         /\ asserted' \subseteq Names \X Files
         /\ phase' \in {phase, "exited"} /\ made' = made
<1>1. CASE Exit
  BY <1>1 DEF Exit, TypeOK, regVars
<1>2. ASSUME NEW f \in Files, LoadFile(provides, f)
      PROVE  /\ registry' \in [Names -> Files \cup {Nothing}]
             /\ loaded' \in Seq(Files)
             /\ asserted' \subseteq Names \X Files
             /\ phase' \in {phase, "exited"} /\ made' = made
  <2>1. CASE Register(provides, f)
    BY <2>1, RegisterType
  <2>2. CASE Exit
    BY <2>2 DEF Exit, TypeOK, regVars
  <2>3. CASE asserted' = asserted \cup (provides \X {f}) /\ UNCHANGED <<phase, regVars, made>>
    BY <2>3 DEF TypeOK, regVars
  <2> QED
    BY <1>2, <2>1, <2>2, <2>3 DEF LoadFile, LoadAgain
<1> QED
  BY <1>1, <1>2 DEF LoadModule

\* Who answers for a name is a file or the framework, or nobody.
LEMMA MakerType ==
  ASSUME TypeOK, NEW n \in Names, Maker(n) # Nothing
  PROVE  Maker(n) \in Files \cup {Framework}
  BY DEF TypeOK, Maker

\* The initial values have their types.
LEMMA InitType == Init => TypeOK
<1> SUFFICES ASSUME Init PROVE TypeOK
  OBVIOUS
<1>1. 0 \in 0 .. MaxBuilds /\ 0 \in 0 .. MaxForms + 1
  BY PluginsAssumption DEF PluginsAssumption
<1>2. /\ loaded \in Seq(Files) /\ paths \in Seq(Dirs)
      /\ pending \in Seq([file : Specs, provides : SUBSET Names])
  BY EmptySeq DEF Init
<1> QED
  BY <1>1, <1>2 DEF Init, TypeOK

\* Every step keeps the types.
LEMMA TypeStep ==
  ASSUME TypeOK, [Next]_vars
  PROVE  TypeOK'
<1>1. CASE StartBuild
  <2>1. attempts' \in 0 .. MaxBuilds
    BY PluginsAssumption, <1>1 DEF PluginsAssumption, StartBuild, TypeOK
  <2>2. forms' \in 0 .. MaxForms + 1
    BY PluginsAssumption, <1>1 DEF PluginsAssumption, StartBuild
  <2> QED
    BY <1>1, <2>1, <2>2 DEF StartBuild, TypeOK, regVars
<1>2. ASSUME NEW n \in Names, BuildForm(n) PROVE TypeOK'
  <2>1. CASE Exit
    BY PluginsAssumption, <1>2, <2>1 DEF PluginsAssumption, BuildForm, Reading, Exit, TypeOK, regVars, buildVars
  <2>2. CASE Maker(n) # Nothing /\ made' = made \cup {<<n, Maker(n)>>}
                                /\ UNCHANGED <<phase, regVars, asserted>>
    <3>1. made' \subseteq Names \X (Files \cup {Framework})
      BY <2>2, MakerType DEF TypeOK
    <3> QED
      BY PluginsAssumption, <1>2, <2>2, <3>1 DEF PluginsAssumption, BuildForm, Reading, TypeOK, regVars, buildVars
  <2> QED
    BY <1>2, <2>1, <2>2 DEF BuildForm
<1>3. CASE SlotError
  BY PluginsAssumption, <1>3 DEF PluginsAssumption, SlotError, Reading, TypeOK, regVars
<1>4. ASSUME NEW b \in Blocks, OpenBlock(b) PROVE TypeOK'
  <2>1. b.modules \in Seq([file : Specs, provides : SUBSET Names]) /\ b.paths \in Seq(Dirs)
    BY PluginsAssumption DEF PluginsAssumption
  <2> QED
    BY PluginsAssumption, <1>4, <2>1 DEF PluginsAssumption, OpenBlock, Reading, TypeOK, regVars, buildVars
<1>5. CASE LoadNext
  <2> DEFINE Entries == [file : Specs, provides : SUBSET Names]
  <2>0. pending \in Seq(Entries) /\ pending # <<>>
    BY <1>5 DEF LoadNext, TypeOK
  <2> HIDE DEF Entries
  <2>1. Head(pending) \in Entries /\ Tail(pending) \in Seq(Entries)
    BY <2>0, HeadTailProperties
  <2> USE DEF Entries
  <2>2. Tail(pending) \in Seq([file : Specs, provides : SUBSET Names])
    BY <2>1
  <2>3. /\ registry' \in [Names -> Files \cup {Nothing}]
        /\ loaded' \in Seq(Files)
        /\ asserted' \subseteq Names \X Files
        /\ phase' \in {phase, "exited"} /\ made' = made
    BY <1>5, <2>1, LoadType DEF LoadNext
  <2> QED
    BY <1>5, <2>2, <2>3 DEF LoadNext, TypeOK, buildVars
<1>6. CASE EndParse
  BY <1>6 DEF EndParse, TypeOK, regVars
<1>7. ASSUME NEW spec \in Specs, Inspect(spec) PROVE TypeOK'
  <2>1. /\ registry' \in [Names -> Files \cup {Nothing}]
        /\ loaded' \in Seq(Files)
        /\ asserted' \subseteq Names \X Files
        /\ phase' \in {phase, "exited"} /\ made' = made
    BY <1>7, LoadType DEF Inspect
  <2> QED
    BY PluginsAssumption, <1>7, <2>1 DEF PluginsAssumption, Inspect, TypeOK, buildVars
<1>8. CASE UNCHANGED vars
  BY <1>8 DEF vars, regVars, buildVars, TypeOK
<1> QED
  BY <1>1, <1>2, <1>3, <1>4, <1>5, <1>6, <1>7, <1>8 DEF Next

\* Every variable keeps its type, for any plugins and any scenario.
THEOREM TypeCorrect == Spec => []TypeOK
<1>1. Init => TypeOK
  BY InitType
<1>2. TypeOK /\ [Next]_vars => TypeOK'
  BY TypeStep
<1> QED
  BY <1>1, <1>2, PTL DEF Spec

-----------------------------------------------------------------------------
(* The invariant.                                                          *)

\* A registration takes only names nobody answers for,
LEMMA RegisterKeepsOwners ==
  ASSUME TypeOK, NEW f \in Files, NEW provides \in SUBSET Names,
         Acceptable(provides, f), Register(provides, f)
  PROVE  /\ \A n \in Declares[f] : registry[n] = Nothing /\ registry'[n] = f
         /\ \A n \in Names : registry[n] # Nothing => registry'[n] = registry[n]
         /\ \A n \in Names \ Declares[f] : registry'[n] = registry[n]
<1>1. Declares[f] \subseteq Names
  BY PluginsAssumption DEF PluginsAssumption
<1>2. registry' = [n \in Names |-> IF n \in Declares[f] THEN f ELSE registry[n]]
  BY DEF Register
<1>3. \A n \in Declares[f] : registry[n] = Nothing
  BY DEF Acceptable, Collides
<1> QED
  BY <1>1, <1>2, <1>3

\* so that whoever makes a name goes on making it,
LEMMA RegisterKeepsMakers ==
  ASSUME TypeOK, NEW f \in Files, NEW provides \in SUBSET Names,
         Acceptable(provides, f), Register(provides, f)
  PROVE  \A n \in Names : Maker(n) # Nothing => Maker(n)' = Maker(n)
<1>1. \A n \in Names : registry[n] # Nothing => registry'[n] = registry[n]
  BY RegisterKeepsOwners
<1> QED
  BY <1>1 DEF Maker

\* every name of the file is its own, and every other keeps its file,
LEMMA RegisterKeepsOwned ==
  ASSUME TypeOK, Owned, NEW f \in Files, NEW provides \in SUBSET Names,
         Acceptable(provides, f), Register(provides, f)
  PROVE  Owned'
<1>1. /\ \A n \in Declares[f] : registry[n] = Nothing /\ registry'[n] = f
      /\ \A n \in Names : registry[n] # Nothing => registry'[n] = registry[n]
      /\ \A n \in Names \ Declares[f] : registry'[n] = registry[n]
  BY RegisterKeepsOwners
<1>2. loaded \in Seq(Files) /\ loaded' = Append(loaded, f)
  BY DEF Register, TypeOK
<1>3. /\ DOMAIN loaded' = DOMAIN loaded \cup {Len(loaded) + 1}
      /\ \A i \in DOMAIN loaded : loaded'[i] = loaded[i] /\ loaded[i] \in Files
      /\ loaded'[Len(loaded) + 1] = f
  BY <1>2
<1>4. Nothing \notin Files /\ \A g \in Files : Declares[g] \subseteq Names
  BY PluginsAssumption DEF PluginsAssumption
<1>5. \A i \in DOMAIN loaded' : \A n \in Declares[loaded'[i]] :
        registry'[n] = loaded'[i] /\ n \in Builds[loaded'[i]]
  <2> TAKE i \in DOMAIN loaded'
  <2>1. CASE i \in DOMAIN loaded
    BY <1>1, <1>3, <1>4, <2>1 DEF Owned
  <2>2. CASE i = Len(loaded) + 1
    BY <1>1, <1>3, <2>2 DEF Acceptable
  <2> QED
    BY <1>3, <2>1, <2>2
<1>6. \A n \in Names : registry'[n] # Nothing => \E i \in DOMAIN loaded' : loaded'[i] = registry'[n]
  <2> SUFFICES ASSUME NEW n \in Names, registry'[n] # Nothing
               PROVE  \E i \in DOMAIN loaded' : loaded'[i] = registry'[n]
    OBVIOUS
  <2>1. CASE n \in Declares[f]
    BY <1>1, <1>3, <2>1
  <2>2. CASE n \notin Declares[f]
    <3>1. PICK i \in DOMAIN loaded : loaded[i] = registry[n]
      BY <1>1, <2>2 DEF Owned, IsLoaded
    <3> QED
      BY <1>1, <1>3, <2>2, <3>1
  <2> QED
    BY <2>1, <2>2
<1> QED
  BY <1>5, <1>6 DEF Owned, IsLoaded

\* and the application's names stay out when its factory is set.
LEMMA RegisterShadowsNothing ==
  ASSUME TypeOK, NoShadow, program # "plugininfo" => builtinSet,
         NEW f \in Files, NEW provides \in SUBSET Names,
         Acceptable(provides, f), Register(provides, f), UNCHANGED program
  PROVE  NoShadow'
<1>1. \A n \in Names \ Declares[f] : registry'[n] = registry[n]
  BY RegisterKeepsOwners
<1>2. program # "plugininfo" => Declares[f] \cap Builtins = {}
  BY DEF Acceptable, Collides
<1>3. Builtins \subseteq Names
  BY PluginsAssumption DEF PluginsAssumption
<1> QED
  BY <1>1, <1>2, <1>3 DEF NoShadow

\* What was made and what was asserted stays true of the registry.
LEMMA RegisterKeepsHistory ==
  ASSUME TypeOK, History, NEW f \in Files, NEW provides \in SUBSET Names,
         Acceptable(provides, f), Register(provides, f), UNCHANGED program,
         program = "plugininfo" => provides = {}
  PROVE  History'
<1>1. \A n \in Names : Maker(n) # Nothing => Maker(n)' = Maker(n)
  BY RegisterKeepsMakers
<1>2. /\ \A n \in Declares[f] : registry'[n] = f
      /\ \A n \in Names : registry[n] # Nothing => registry'[n] = registry[n]
  BY RegisterKeepsOwners
<1>3. \A x \in made' : Maker(x[1])' = x[2] /\ x[2] # Nothing
  <2> SUFFICES ASSUME NEW x \in made PROVE Maker(x[1])' = x[2] /\ x[2] # Nothing
    BY DEF Register
  <2> QED
    BY <1>1 DEF History, TypeOK
<1>4. \A a \in asserted' : registry'[a[1]] = a[2] /\ program' # "plugininfo"
  <2> SUFFICES ASSUME NEW a \in asserted' PROVE registry'[a[1]] = a[2] /\ program # "plugininfo"
    OBVIOUS
  <2>1. CASE a \in asserted
    <3>1. a[1] \in Names /\ a[2] \in Files /\ a[2] # Nothing
      BY <2>1, PluginsAssumption DEF PluginsAssumption, TypeOK
    <3> QED
      BY <1>2, <2>1, <3>1 DEF History
  <2>2. CASE a \in provides \X {f}
    <3>1. provides # {} /\ provides = Declares[f] /\ a[1] \in provides /\ a[2] = f
      BY <2>2 DEF Acceptable, Honoured
    <3> QED
      BY <1>2, <3>1
  <2> QED
    BY <2>1, <2>2 DEF Register
<1> QED
  BY <1>3, <1>4 DEF History

\* A load, however it ends, keeps all three; so does a repeated one.
LEMMA LoadKeeps ==
  ASSUME TypeOK, Owned, NoShadow, History, program # "plugininfo" => builtinSet,
         NEW spec, NEW dirs, NEW provides \in SUBSET Names,
         program = "plugininfo" => provides = {},
         LoadModule(spec, dirs, provides), UNCHANGED program
  PROVE  Owned' /\ NoShadow' /\ History'
<1>1. CASE Exit
  BY <1>1 DEF Exit, regVars, Owned, NoShadow, History, IsLoaded, Maker
<1>2. ASSUME NEW f \in Files, LoadFile(provides, f) PROVE Owned' /\ NoShadow' /\ History'
  <2>1. CASE Acceptable(provides, f) /\ Register(provides, f)
    BY <2>1, RegisterKeepsOwned, RegisterShadowsNothing, RegisterKeepsHistory
  <2>2. CASE IsLoaded(f) /\ Honoured(provides, f)
             /\ asserted' = asserted \cup (provides \X {f}) /\ UNCHANGED <<phase, regVars, made>>
    <3>1. Owned' /\ NoShadow'
      BY <2>2 DEF regVars, Owned, NoShadow, IsLoaded
    <3>2. \A n \in Declares[f] : registry[n] = f
      BY <2>2 DEF IsLoaded, Owned
    <3>3. \A a \in asserted' : registry'[a[1]] = a[2] /\ program' # "plugininfo"
      <4> SUFFICES ASSUME NEW a \in asserted'
                   PROVE  registry[a[1]] = a[2] /\ program # "plugininfo"
        BY <2>2 DEF regVars
      <4>1. CASE a \in asserted
        BY <4>1 DEF History
      <4>2. CASE a \in provides \X {f}
        <5>1. provides # {} /\ provides = Declares[f] /\ a[1] \in provides /\ a[2] = f
          BY <2>2, <4>2 DEF Honoured
        <5> QED
          BY <3>2, <5>1
      <4> QED
        BY <2>2, <4>1, <4>2
    <3>4. \A x \in made' : Maker(x[1])' = x[2] /\ x[2] # Nothing
      BY <2>2 DEF regVars, History, Maker
    <3> QED
      BY <3>1, <3>3, <3>4 DEF History
  <2>3. CASE Exit
    BY <2>3 DEF Exit, regVars, Owned, NoShadow, History, IsLoaded, Maker
  <2> QED
    BY <1>2, <2>1, <2>2, <2>3 DEF LoadFile, LoadAgain
<1> QED
  BY <1>1, <1>2 DEF LoadModule

\* An empty registry owes nothing.
LEMMA InitRegistry == Init => RegistryInv
  BY PluginsAssumption DEF PluginsAssumption, Init, RegistryInv, Open, Owned, NoShadow, History

\* Nothing but a load touches what the invariant is about.
LEMMA UntouchedKeeps ==
  ASSUME Owned, NoShadow, History, UNCHANGED <<program, regVars, made, asserted>>
  PROVE  Owned' /\ NoShadow' /\ History'
  BY DEF regVars, Owned, NoShadow, History, IsLoaded, Maker

\* Every step keeps the invariant.
LEMMA RegistryStep ==
  ASSUME TypeOK, RegistryInv, [Next]_vars
  PROVE  RegistryInv'
<1> USE DEF RegistryInv
<1>1. CASE StartBuild
  <2>1. Open'
    BY <1>1 DEF StartBuild, MayBuild, Open, TypeOK
  <2> QED
    BY <1>1, <2>1, UntouchedKeeps DEF StartBuild
<1>2. ASSUME NEW n \in Names, BuildForm(n) PROVE RegistryInv'
  <2>1. Open'
    BY <1>2 DEF BuildForm, Reading, Exit, Open, buildVars, regVars
  <2>2. CASE Exit
    BY <1>2, <2>1, <2>2, UntouchedKeeps DEF BuildForm, Exit
  <2>3. CASE Maker(n) # Nothing /\ made' = made \cup {<<n, Maker(n)>>}
                                /\ UNCHANGED <<phase, regVars, asserted>>
    BY <1>2, <2>1, <2>3 DEF BuildForm, regVars, Owned, NoShadow, History, IsLoaded, Maker
  <2> QED
    BY <1>2, <2>2, <2>3 DEF BuildForm
<1>3. CASE SlotError
  BY <1>3, UntouchedKeeps DEF SlotError, Reading, Open
<1>4. ASSUME NEW b \in Blocks, OpenBlock(b) PROVE RegistryInv'
  BY <1>4, UntouchedKeeps DEF OpenBlock, Reading, Open, buildVars
<1>5. CASE LoadNext
  <2> DEFINE Entries == [file : Specs, provides : SUBSET Names]
  <2>1. pending \in Seq(Entries) /\ pending # <<>>
    BY <1>5 DEF LoadNext, TypeOK
  <2> HIDE DEF Entries
  <2>2. Head(pending) \in Entries
    BY <2>1, HeadTailProperties
  <2> USE DEF Entries
  <2>3. Head(pending).provides \in SUBSET Names
    BY <2>2
  <2>4. program # "plugininfo" /\ builtinSet
    BY <1>5 DEF LoadNext, Open
  <2>5. LoadModule(Head(pending).file, paths, Head(pending).provides) /\ UNCHANGED <<program, buildVars>>
    BY <1>5 DEF LoadNext
  <2>6. Owned' /\ NoShadow' /\ History'
    BY <2>3, <2>4, <2>5, LoadKeeps
  <2>7. phase' \in {phase, "exited"}
    BY <2>3, <2>5, LoadType
  <2>8. Open'
    BY <1>5, <2>4, <2>5, <2>7 DEF LoadNext, Open, buildVars
  <2> QED
    BY <2>6, <2>8
<1>6. CASE EndParse
  <2>1. Open'
    BY <1>6 DEF EndParse, Open, TypeOK
  <2> QED
    BY <1>6, <2>1, UntouchedKeeps DEF EndParse
<1>7. ASSUME NEW spec \in Specs, Inspect(spec) PROVE RegistryInv'
  <2>1. Owned' /\ NoShadow' /\ History'
    BY <1>7, LoadKeeps DEF Inspect
  <2>2. phase' \in {phase, "exited"}
    BY <1>7, LoadType DEF Inspect
  <2>3. Open'
    BY <1>7, <2>2 DEF Inspect, Open, buildVars
  <2> QED
    BY <2>1, <2>3
<1>8. CASE UNCHANGED vars
  BY <1>8, UntouchedKeeps DEF vars, Open, buildVars
<1> QED
  BY <1>1, <1>2, <1>3, <1>4, <1>5, <1>6, <1>7, <1>8 DEF Next

\* The invariant, with the types, holds in every behaviour.
LEMMA RegistryAlways == Spec => [](TypeOK /\ RegistryInv)
<1>1. Init => TypeOK /\ RegistryInv
  BY InitType, InitRegistry
<1>2. TypeOK /\ RegistryInv /\ [Next]_vars => (TypeOK /\ RegistryInv)'
  BY TypeStep, RegistryStep
<1> QED
  BY <1>1, <1>2, PTL DEF Spec

\* No plugin of a program that builds is ever inert.
THEOREM PluginsReached == Spec => []EveryNameReachesItsPlugin
<1>1. TypeOK /\ RegistryInv => EveryNameReachesItsPlugin
  <2> SUFFICES ASSUME TypeOK, RegistryInv, program # "plugininfo"
               PROVE  /\ \A i \in DOMAIN loaded : \A n \in Declares[loaded[i]] :
                           Maker(n) = loaded[i] /\ n \in Builds[loaded[i]]
                      /\ \A n \in Names : registry[n] # Nothing => IsLoaded(registry[n])
    BY DEF EveryNameReachesItsPlugin
  <2>1. ASSUME NEW i \in DOMAIN loaded, NEW n \in Declares[loaded[i]]
        PROVE  Maker(n) = loaded[i] /\ n \in Builds[loaded[i]]
    <3>1. loaded[i] \in Files /\ registry[n] = loaded[i]
      BY DEF TypeOK, RegistryInv, Owned
    <3>2. registry[n] # Nothing
      BY <3>1, PluginsAssumption DEF PluginsAssumption
    <3> QED
      BY <3>1, <3>2 DEF RegistryInv, Owned, NoShadow, Maker
  <2> QED
    BY <2>1 DEF RegistryInv, Owned
<1> QED
  BY <1>1, RegistryAlways, PTL

\* One maker per name.
THEOREM MadeByOne == Spec => []OneMakerPerName
<1>1. RegistryInv => OneMakerPerName
  BY DEF RegistryInv, History, OneMakerPerName
<1> QED
  BY <1>1, RegistryAlways, PTL

\* What provides: asserted goes on being served.
THEOREM Served == Spec => []AssertedNamesAreServed
<1>1. TypeOK /\ RegistryInv => AssertedNamesAreServed
  <2> SUFFICES ASSUME TypeOK, RegistryInv, NEW a \in asserted PROVE Maker(a[1]) = a[2]
    BY DEF AssertedNamesAreServed
  <2>1. a[1] \in Names /\ a[2] \in Files /\ a[2] # Nothing
    BY PluginsAssumption DEF PluginsAssumption, TypeOK
  <2> QED
    BY <2>1 DEF RegistryInv, History, NoShadow, Maker
<1> QED
  BY <1>1, RegistryAlways, PTL

-----------------------------------------------------------------------------
(* The registry implements the ownership of names.                         *)

\* The framework owns its names from the start and nothing is made yet.
LEMMA OwnersInit == Init => Owners!OInit
<1> SUFFICES ASSUME Init PROVE Owners!OInit
  OBVIOUS
<1>1. \A n \in Names : Maker(n) \in Files \cup {Framework} \cup {Nothing}
  BY DEF Init, Maker
<1> QED
  BY <1>1 DEF Init, Owners!OInit

\* A registration claims the names of the file which the framework has not.
LEMMA RegisterClaims ==
  ASSUME TypeOK, ~sealed, NEW f \in Files, NEW provides \in SUBSET Names,
         Acceptable(provides, f), Register(provides, f), UNCHANGED sealed
  PROVE  Owners!ONext
<1> DEFINE claimed == Declares[f] \ Builtins
<1>1. claimed \in SUBSET Names
  BY PluginsAssumption DEF PluginsAssumption
<1>2. \A n \in claimed : Maker(n) = Nothing
  BY RegisterKeepsOwners DEF Maker
<1>3. \A n \in Names : Maker(n)' = IF n \in claimed THEN f ELSE Maker(n)
  BY RegisterKeepsOwners DEF Maker
<1>4. made' = made
  BY DEF Register
<1>5. Owners!Claim(f, claimed)
  BY <1>1, <1>2, <1>3, <1>4 DEF Owners!Claim
<1> QED
  BY <1>1, <1>5 DEF Owners!ONext

\* A load claims names or changes nothing the owners know of.
LEMMA LoadClaims ==
  ASSUME TypeOK, NEW spec, NEW dirs, NEW provides \in SUBSET Names,
         LoadModule(spec, dirs, provides), UNCHANGED sealed
  PROVE  [Owners!ONext]_(Owners!ownersVars)
<1>1. CASE Exit
  BY <1>1 DEF Exit, regVars, Maker, Owners!ownersVars
<1>2. ASSUME ~sealed, NEW f \in Files, LoadFile(provides, f)
      PROVE  [Owners!ONext]_(Owners!ownersVars)
  <2>1. CASE Acceptable(provides, f) /\ Register(provides, f)
    BY <1>2, <2>1, RegisterClaims
  <2>2. CASE UNCHANGED <<regVars, made>>
    BY <2>2 DEF regVars, Maker, Owners!ownersVars
  <2>3. CASE Exit
    BY <2>3 DEF Exit, regVars, Maker, Owners!ownersVars
  <2> QED
    BY <1>2, <2>1, <2>2, <2>3 DEF LoadFile, LoadAgain, regVars
<1> QED
  BY <1>1, <1>2 DEF LoadModule

\* Every step of the registry is a step of the owners, or none.
LEMMA OwnersStep ==
  ASSUME TypeOK, RegistryInv, [Next]_vars
  PROVE  [Owners!ONext]_(Owners!ownersVars)
<1>1. ASSUME UNCHANGED <<regVars, made, sealed>> PROVE [Owners!ONext]_(Owners!ownersVars)
  BY <1>1 DEF regVars, Maker, Owners!ownersVars
<1>2. CASE StartBuild
  BY <1>1, <1>2 DEF StartBuild
<1>3. ASSUME NEW n \in Names, BuildForm(n) PROVE [Owners!ONext]_(Owners!ownersVars)
  <2>1. CASE Exit
    BY <1>1, <1>3, <2>1 DEF BuildForm, Exit, buildVars
  <2>2. CASE Maker(n) # Nothing /\ made' = made \cup {<<n, Maker(n)>>}
                                /\ UNCHANGED <<phase, regVars, asserted>>
    <3>1. ~sealed /\ UNCHANGED sealed
      BY <1>3 DEF BuildForm, Reading, RegistryInv, Open, buildVars
    <3>2. \A m \in Names : Maker(m)' = Maker(m)
      BY <2>2 DEF regVars, Maker
    <3>3. Owners!Make(n)
      BY <2>2, <3>1, <3>2 DEF Owners!Make
    <3> QED
      BY <3>3 DEF Owners!ONext
  <2> QED
    BY <1>3, <2>1, <2>2 DEF BuildForm
<1>4. CASE SlotError
  BY <1>1, <1>4 DEF SlotError
<1>5. ASSUME NEW b \in Blocks, OpenBlock(b) PROVE [Owners!ONext]_(Owners!ownersVars)
  BY <1>1, <1>5 DEF OpenBlock, buildVars
<1>6. CASE LoadNext
  <2> DEFINE Entries == [file : Specs, provides : SUBSET Names]
  <2>1. pending \in Seq(Entries) /\ pending # <<>>
    BY <1>6 DEF LoadNext, TypeOK
  <2> HIDE DEF Entries
  <2>2. Head(pending) \in Entries
    BY <2>1, HeadTailProperties
  <2> USE DEF Entries
  <2>3. Head(pending).provides \in SUBSET Names
    BY <2>2
  <2>4. LoadModule(Head(pending).file, paths, Head(pending).provides) /\ UNCHANGED sealed
    BY <1>6 DEF LoadNext, buildVars
  <2> QED
    BY <2>3, <2>4, LoadClaims
<1>7. CASE EndParse
  <2>1. sealed' = TRUE /\ UNCHANGED <<regVars, made>>
    BY <1>7 DEF EndParse
  <2>2. Owners!Freeze
    BY <2>1 DEF regVars, Maker, Owners!Freeze
  <2> QED
    BY <2>2 DEF Owners!ONext
<1>8. ASSUME NEW spec \in Specs, Inspect(spec) PROVE [Owners!ONext]_(Owners!ownersVars)
  BY <1>8, LoadClaims DEF Inspect, buildVars
<1>9. CASE UNCHANGED vars
  BY <1>1, <1>9 DEF vars, buildVars
<1> QED
  BY <1>2, <1>3, <1>4, <1>5, <1>6, <1>7, <1>8, <1>9 DEF Next

\* For any plugins and any scenario names are claimed once, for good, and
\* before the registry is sealed, and made by their owners.
THEOREM ImplementsOwners == Spec => OwnersSpec
<1>1. Init => Owners!OInit
  BY OwnersInit
<1>2. TypeOK /\ RegistryInv /\ [Next]_vars => [Owners!ONext]_(Owners!ownersVars)
  BY OwnersStep
<1> QED
  BY <1>1, <1>2, RegistryAlways, PTL DEF Spec, OwnersSpec, Owners!OwnersSpec

-----------------------------------------------------------------------------
(* Loading again.                                                          *)

Idle == phase \in {"start", "built", "failed"} => pending = <<>>

\* A block is only being loaded while the scenario is read.
LEMMA IdleStep == TypeOK /\ Idle /\ [Next]_vars => Idle'
<1> SUFFICES ASSUME TypeOK, Idle, [Next]_vars PROVE Idle'
  OBVIOUS
<1>1. ASSUME NEW spec \in Specs, Inspect(spec) PROVE Idle'
  <2>1. phase' \in {phase, "exited"}
    BY <1>1, LoadType DEF Inspect
  <2> QED
    BY <1>1, <2>1 DEF Inspect, Idle
<1>2. CASE LoadNext
  <2>1. phase' \in {phase, "exited"}
    BY <1>2 DEF LoadNext, LoadModule, LoadFile, LoadAgain, Register, Exit
  <2> QED
    BY <1>2, <2>1 DEF LoadNext, Idle
<1>3. ASSUME NEW n \in Names, BuildForm(n) PROVE Idle'
  BY <1>3 DEF BuildForm, Reading, Exit, Idle
<1> QED
  BY <1>1, <1>2, <1>3
     DEF Next, StartBuild, SlotError, OpenBlock, EndParse, Reading, Idle, vars

\* The path a scenario writes leads to one file.
LEMMA FoundOnce ==
  ASSUME NEW f \in Files, NEW g \in Files, NEW spec, NEW dirs \in Seq(Dirs),
         IsFound(f, spec, dirs), IsFound(g, spec, dirs)
  PROVE  f = g
<1> DEFINE places == Places(spec, dirs)
<1>1. places \in Seq(Dirs \cup {Here})
  <2>1. <<Here>> \in Seq(Dirs \cup {Here}) /\ dirs \in Seq(Dirs \cup {Here})
    OBVIOUS
  <2> QED
    BY <2>1, ConcatProperties DEF Places
<1>2. PICK i \in DOMAIN places :
        FileAt[places[i]][spec] = f /\ \A k \in 1 .. (i - 1) : FileAt[places[k]][spec] = Nothing
  BY DEF IsFound
<1>3. PICK j \in DOMAIN places :
        FileAt[places[j]][spec] = g /\ \A k \in 1 .. (j - 1) : FileAt[places[k]][spec] = Nothing
  BY DEF IsFound
<1> HIDE DEF places
<1>4. i \in Nat \ {0} /\ j \in Nat \ {0}
  BY <1>1
<1>5. f # Nothing /\ g # Nothing
  BY PluginsAssumption DEF PluginsAssumption
<1>6. i = j
  <2>1. ~(i < j)
    BY <1>2, <1>3, <1>4, <1>5
  <2>2. ~(j < i)
    BY <1>2, <1>3, <1>4, <1>5
  <2> QED
    BY <1>4, <2>1, <2>2
<1> QED
  BY <1>2, <1>3, <1>6

\* For any plugins, to load a file again changes nothing and ends nothing.
THEOREM RepeatsAreHarmless == Spec => RepeatIsHarmless
<1> DEFINE Again(f) == pending # <<>> /\ IsLoaded(f) /\ IsFound(f, Head(pending).file, paths)
                                      /\ Honoured(Head(pending).provides, f)
           Harmless == \A f \in Files : Again(f) => UNCHANGED <<phase, regVars>>
<1>1. Init => Idle
  BY DEF Init, Idle
<1>2. ASSUME TypeOK, RegistryInv, Idle, [Next]_vars PROVE Harmless \/ UNCHANGED vars
  <2> SUFFICES ASSUME Next, NEW f \in Files, Again(f) PROVE UNCHANGED <<phase, regVars>>
    BY <1>2
  <2>1. CASE LoadNext
    <3>1. ~sealed
      BY <1>2, <2>1 DEF LoadNext, RegistryInv, Open
    <3>2. PICK g \in Files : IsFound(g, Head(pending).file, paths) /\ LoadFile(Head(pending).provides, g)
      BY <2>1, <3>1 DEF LoadNext, LoadModule
    <3>3. paths \in Seq(Dirs)
      BY <1>2 DEF TypeOK
    <3>4. f = g
      BY <3>2, <3>3, FoundOnce
    <3> QED
      BY <3>2, <3>4 DEF LoadFile, LoadAgain
  <2>2. CASE StartBuild
    BY <1>2, <2>2 DEF StartBuild, Idle
  <2>3. ASSUME NEW spec \in Specs, Inspect(spec) PROVE FALSE
    BY <1>2, <2>3 DEF Inspect, Idle
  <2> QED
    BY <2>1, <2>2, <2>3 DEF Next, BuildForm, SlotError, OpenBlock, EndParse, Reading
<1>3. TypeOK /\ RegistryInv /\ Idle /\ [Next]_vars => [Harmless]_vars
  BY <1>2
<1>4. TypeOK /\ Idle /\ [Next]_vars => Idle'
  BY IdleStep
<1>5. Spec => [][Harmless]_vars
  <2> HIDE DEF Harmless
  <2> QED
    BY <1>1, <1>3, <1>4, RegistryAlways, PTL DEF Spec
<1> QED
  BY <1>5 DEF RepeatIsHarmless
=============================================================================
