------------------------------- MODULE Plugins -------------------------------
(***************************************************************************)
(* The registry of model plugins (libs/xplugin) and the reading of a       *)
(* scenario around it: PluginLoader::isValid(), run by the parser at the   *)
(* closing parenthesis of its block, loads shared objects while the forms  *)
(* after it wait to be built; buildStation() names the factory of the      *)
(* application before the reading and seals the registry after it.         *)
(*                                                                         *)
(* Three programs use it: those that build a Station and leave at any      *)
(* error (app, edlcheck, node), the Python extension of src/rl, which      *)
(* survives a failed build and may be asked for another, and plugininfo,   *)
(* which loads one file and reads no scenario.  Loading is synchronous:    *)
(* one thread, one module per step.  Every refusal of loadModule() is      *)
(* die(), the end of the process.  A list of names is a set: MIXR's lists  *)
(* are sorted before they are compared, and none repeats a name.           *)
(***************************************************************************)
EXTENDS Integers, Sequences

CONSTANTS
  Programs,     \* which of "station", "training", "plugininfo" are run
  Names,        \* factory names
  Builtins,     \* those the application builds without any plugin
  Files,        \* shared objects, by canonical path
  Nothing,      \* no file, no owner
  Declares,     \* the names the descriptor of a file lists
  Builds,       \* the names its factory does build
  Sound,        \* files that open and pass the guards of steps 3 to 6
  Specs,        \* what a scenario writes in `file:`
  Explicit,     \* those that begin with '/', './' or '../'
  Dirs,         \* search paths
  Here,         \* the working directory, or the root: the path as written
  FileAt,       \* FileAt[place][spec]: the canonical path found there
  Blocks,       \* PluginLoader blocks: searchPaths and modules
  MaxForms,     \* bound: forms of a scenario
  MaxBuilds     \* bound: calls of buildStation() by the Python program

Framework == "framework"

ASSUME PluginsAssumption ==
  /\ MaxForms \in Nat /\ MaxBuilds \in Nat
  /\ Programs \subseteq {"station", "training", "plugininfo"}
  /\ Builtins \subseteq Names
  /\ Nothing \notin Files /\ Framework \notin Files /\ Nothing # Framework
  /\ Declares \in [Files -> SUBSET Names]
  /\ Builds \in [Files -> SUBSET Names]
  /\ Sound \subseteq Files
  /\ Explicit \subseteq Specs
  /\ FileAt \in [Dirs \cup {Here} -> [Specs -> Files \cup {Nothing}]]
  /\ Blocks \subseteq [paths : Seq(Dirs),
                       modules : Seq([file : Specs, provides : SUBSET Names])]

VARIABLES
  program,    \* never changes
  phase,      \* "start", "parsing", "built", "failed", "exited"
  attempts,   \* builds that reached the parser; g_attemptedBuild is attempts > 0
  builtinSet, \* builtinFactory_ is set
  sealed,     \* sealed_
  registry,   \* registry(): the file that answers for a name, or Nothing
  loaded,     \* loaded(): the files in the order they were registered
  pending,    \* modules isValid() has not loaded yet
  paths,      \* searchPaths of the block being validated
  errors,     \* num_errors # 0
  forms,      \* forms read so far
  made,       \* history: <<name, maker>> of what the chain of factories made
  asserted    \* history: <<name, file>> of every provides: that was accepted

regVars   == <<registry, loaded>>
buildVars == <<attempts, builtinSet, sealed, errors>>
vars == <<program, phase, regVars, buildVars, pending, paths, forms, made, asserted>>

-----------------------------------------------------------------------------
(* Pure parts of the code.                                                 *)

IsLoaded(f) == \E i \in DOMAIN loaded : loaded[i] = f

\* resolve(): the first place that has the file.
Places(spec, dirs) == IF spec \in Explicit THEN <<Here>> \o dirs ELSE dirs \o <<Here>>
IsFound(f, spec, dirs) ==
  LET places == Places(spec, dirs)
  IN \E i \in DOMAIN places :
       /\ FileAt[places[i]][spec] = f
       /\ \A j \in 1 .. (i - 1) : FileAt[places[j]][spec] = Nothing

Honoured_Partly(provides, f) == provides = {} \/ provides \cap Declares[f] # {}

\* Steps 2 and 8 of loadModule(): provides: is an assertion, when there is one.
Honoured(provides, f) == provides = {} \/ provides = Declares[f]

Collides_PluginsOnly(f) == \E n \in Declares[f] : registry[n] # Nothing
Collides_FrameworkOnly(f) == builtinSet /\ Declares[f] \cap Builtins # {}

\* Step 9: a name with an owner, another plugin or the application.
Collides(f) ==
  \/ \E n \in Declares[f] : registry[n] # Nothing
  \/ builtinSet /\ Declares[f] \cap Builtins # {}

\* Steps 3 to 10: what a file must pass before it is registered.
Acceptable(provides, f) ==
  /\ f \in Sound
  /\ Declares[f] # {}
  /\ Honoured(provides, f)
  /\ ~Collides(f)
  /\ Declares[f] \subseteq Builds[f]

\* The chain of factories: the application first, plugins last.
Maker(n) == IF n \in Builtins THEN Framework ELSE registry[n]

-----------------------------------------------------------------------------
Init ==
  /\ program \in Programs
  /\ phase = "start"
  /\ attempts = 0
  /\ builtinSet = FALSE /\ sealed = FALSE /\ errors = FALSE
  /\ registry = [n \in Names |-> Nothing]
  /\ loaded = <<>>
  /\ pending = <<>> /\ paths = <<>>
  /\ forms = 0
  /\ made = {} /\ asserted = {}

\* exit(EXIT_FAILURE), wherever it is called.
Exit == phase' = "exited" /\ UNCHANGED <<regVars, made, asserted>>

Register_Anew(provides, f) ==
  /\ registry' = [n \in Names |-> IF n \in Declares[f] THEN f ELSE Nothing]
  /\ loaded' = Append(loaded, f)
  /\ asserted' = asserted \cup (provides \X {f})
  /\ UNCHANGED <<phase, made>>

\* loadModule(): names are registered all at once, after every guard.
Register(provides, f) ==
  /\ registry' = [n \in Names |-> IF n \in Declares[f] THEN f ELSE registry[n]]
  /\ loaded' = Append(loaded, f)
  /\ asserted' = asserted \cup (provides \X {f})
  /\ UNCHANGED <<phase, made>>

\* A file that is loaded already, under this name or another one.
LoadAgain(provides, f) ==
  IF Honoured(provides, f)
  THEN asserted' = asserted \cup (provides \X {f}) /\ UNCHANGED <<phase, regVars, made>>
  ELSE Exit

LoadFile(provides, f) ==
  IF IsLoaded(f) THEN LoadAgain(provides, f)
  ELSE IF Acceptable(provides, f) THEN Register(provides, f)
  ELSE Exit

LoadModule(spec, dirs, provides) ==
  \/ sealed /\ Exit
  \/ ~sealed /\ (\A f \in Files : ~IsFound(f, spec, dirs)) /\ Exit
  \/ ~sealed /\ \E f \in Files : IsFound(f, spec, dirs) /\ LoadFile(provides, f)

MayBuild_AfterFailure == program = "training" => phase \in {"start", "failed"}

\* The guard of rl::buildStation(): one attempt per process.
MayBuild == program = "training" => attempts = 0

\* buildStation() up to the parser. The applications call it once.
StartBuild ==
  /\ program # "plugininfo"
  /\ phase \in IF program = "training" THEN {"start", "built", "failed"} ELSE {"start"}
  /\ MayBuild
  /\ attempts < MaxBuilds
  /\ attempts' = attempts + 1
  /\ phase' = "parsing"
  /\ builtinSet' = TRUE
  /\ errors' = FALSE
  /\ forms' = 0
  /\ UNCHANGED <<program, sealed, regVars, pending, paths, made, asserted>>

Reading == phase = "parsing" /\ pending = <<>> /\ forms < MaxForms

\* parse(): a form other than a block of plugins is closed: mixrFactory().
BuildForm(n) ==
  /\ Reading
  /\ forms' = forms + 1
  /\ \/ Maker(n) # Nothing /\ made' = made \cup {<<n, Maker(n)>>}
                           /\ UNCHANGED <<phase, regVars, asserted>>
     \/ Maker(n) = Nothing /\ Exit
  /\ UNCHANGED <<program, buildVars, pending, paths>>

\* A slot or an isValid() refuses what it was given: counted, reading goes on.
SlotError ==
  /\ Reading
  /\ forms' = forms + 1
  /\ errors' = TRUE
  /\ UNCHANGED <<program, phase, attempts, builtinSet, sealed, regVars, pending, paths, made, asserted>>

\* A PluginLoader form is closed: isValid() begins its loop.
OpenBlock(b) ==
  /\ Reading
  /\ forms' = forms + 1
  /\ pending' = b.modules
  /\ paths' = b.paths
  /\ UNCHANGED <<program, phase, regVars, buildVars, made, asserted>>

\* One turn of that loop. An entry without a file is in nobody's directory.
LoadNext ==
  /\ phase = "parsing"
  /\ pending # <<>>
  /\ LoadModule(Head(pending).file, paths, Head(pending).provides)
  /\ pending' = Tail(pending)
  /\ UNCHANGED <<program, buildVars, paths, forms>>

\* The end of the file: the registry is sealed, then the errors are looked at;
\* what was read may also not be a Station.
EndParse ==
  /\ phase = "parsing"
  /\ pending = <<>>
  /\ sealed' = TRUE
  /\ \/ ~errors /\ phase' = "built"
     \/ phase' = IF program = "training" THEN "failed" ELSE "exited"
  /\ UNCHANGED <<program, attempts, builtinSet, errors, regVars, pending, paths, forms, made, asserted>>

\* plugininfo: one file, by its path, with no factory to collide with.
Inspect(spec) ==
  /\ program = "plugininfo"
  /\ phase = "start"
  /\ forms = 0
  /\ forms' = 1
  /\ LoadModule(spec, <<>>, {})
  /\ UNCHANGED <<program, buildVars, pending, paths>>

Next ==
  \/ StartBuild
  \/ \E n \in Names : BuildForm(n)
  \/ SlotError
  \/ \E b \in Blocks : OpenBlock(b)
  \/ LoadNext
  \/ EndParse
  \/ \E spec \in Specs : Inspect(spec)

Spec == Init /\ [][Next]_vars

-----------------------------------------------------------------------------
\* Every variable keeps its type.
TypeOK ==
  /\ program \in Programs
  /\ phase \in {"start", "parsing", "built", "failed", "exited"}
  /\ attempts \in 0 .. MaxBuilds
  /\ builtinSet \in BOOLEAN /\ sealed \in BOOLEAN /\ errors \in BOOLEAN
  /\ registry \in [Names -> Files \cup {Nothing}]
  /\ loaded \in Seq(Files)
  /\ pending \in Seq([file : Specs, provides : SUBSET Names])
  /\ paths \in Seq(Dirs)
  /\ forms \in 0 .. MaxForms + 1
  /\ made \subseteq Names \X (Files \cup {Framework})
  /\ asserted \subseteq Names \X Files

\* In a program that builds, no plugin is inert: each name of a loaded file is
\* made by that file and by no other, whatever was loaded in which order, and
\* the file does make it; and no name belongs to a file that is not loaded.
\* The probes of loadModule() are made before anything is registered for this.
EveryNameReachesItsPlugin ==
  program # "plugininfo" =>
    /\ \A i \in DOMAIN loaded : \A n \in Declares[loaded[i]] :
         Maker(n) = loaded[i] /\ n \in Builds[loaded[i]]
    /\ \A n \in Names : registry[n] # Nothing => IsLoaded(registry[n])

\* Two objects of one name come from one maker, wherever in the scenario the
\* plugin that brings the name stands: a use before it ends the process, it
\* does not fall to somebody else.
OneMakerPerName == \A x, y \in made : x[1] = y[1] => x[2] = y[2]

\* A provides: that was accepted, by a first or by a repeated load, says who
\* makes these names from then on.
AssertedNamesAreServed == \A a \in asserted : Maker(a[1]) = a[2]

\* To load a file again, under this name or through another path, is neither
\* an error nor a change, unless provides: contradicts it.
RepeatIsHarmless ==
  [][\A f \in Files :
       pending # <<>> /\ IsLoaded(f) /\ IsFound(f, Head(pending).file, paths)
                      /\ Honoured(Head(pending).provides, f)
         => UNCHANGED <<phase, regVars>>]_vars

\* Names are claimed once, for good and before the registry is sealed, and
\* whatever is made is made by the owner of its name.
Owners == INSTANCE NameOwners WITH
  Owners <- Files \cup {Framework}, Nobody <- Nothing,
  owner <- [n \in Names |-> Maker(n)], frozen <- sealed
OwnersSpec == Owners!OwnersSpec

=============================================================================
