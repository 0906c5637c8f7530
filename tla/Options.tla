------------------------------ MODULE Options ------------------------------
(***************************************************************************)
(* The configuration while rofi starts (xrmoptions.c, keyb.c, main).       *)
(* Options stand in a table or are added by modes and key bindings; the    *)
(* default, system and user configuration and the theme set them by name,  *)
(* also before they are added; the command line is read after them, and    *)
(* -theme-str last.  Several names may stand for one variable.  Loops over *)
(* options and arguments take a step for each.                             *)
(***************************************************************************)
EXTENDS Integers, Sequences, FiniteSets, FiniteSetsExt

CONSTANTS
  Args,     \* the command lines: sequences of [name, kind, value]
  Files,    \* the properties that a file may hold: [name, kind, value]
  MaxSets   \* bound: properties in all files together

VARIABLES
  stage, at,   \* where main is, and its place in a loop
  known,       \* names in xrmOptions and extra_options
  value,       \* what each variable holds
  owner,       \* the option whose allocated text a variable points at
  mem,         \* the options that own an allocated text (mem)
  source,      \* option->source
  backup,      \* extra_parsed_options: name -> property
  argv,        \* the command line
  failed,      \* list_of_error_msgs is not empty
  bound,       \* the key bindings: <<scope, key>> -> action
  asked        \* ghost: the last good value asked of each variable

ovars == <<stage, at, known, value, owner, mem, source, backup, argv, failed, bound, asked>>

(* xrmOptions, one option of each sort, and extra_options: "modi" and      *)
(* "modes" are one variable; the key bindings have two scopes.             *)
Type == [modi |-> "string", modes |-> "string", dpi |-> "number", sort |-> "boolean",
         pid |-> "string", kbaccept |-> "string", kbcancel |-> "string", merow |-> "string"]
Names == DOMAIN Type
Table == {"modi", "modes", "dpi", "sort"}
Var == [n \in Names |-> IF n = "modi" THEN "modes" ELSE n]
Vars == {Var[n] : n \in Names}
Keys == <<"kbaccept", "kbcancel", "merow">>
ScopeOf == [kbaccept |-> "global", kbcancel |-> "global", merow |-> "mouse"]
Dashed == {"kbaccept", "kbcancel", "merow"}     \* names with a second "-"
Default == [v \in Vars |-> CASE v = "kbaccept" -> 1 [] v = "kbcancel" -> 2 [] v = "merow" -> 1
                             [] OTHER -> 0]

(* A property gives an option a value; 0 is that of an option not given    *)
(* any.                                                                    *)
Property == [name : Names, kind : {"string", "list", "number", "boolean"}, value : Nat \ {0}]
NoProperty == [name |-> "", kind |-> "", value |-> 0]
OptionsAssumption == Args \subseteq Seq(Property) /\ Files \subseteq Property /\ MaxSets \in Nat
ASSUME OptionsAssumption

Follows == [start |-> "defaults", defaults |-> "modes", modes |-> "keys", keys |-> "system",
            system |-> "user", user |-> "theme", theme |-> "options", themestr |-> "bindings"]
FileStages == {"defaults", "system", "user", "theme", "themestr"}

OptionsInit ==
  /\ stage = "start" /\ at = 1 /\ known = Table /\ value = Default
  /\ owner = [v \in Vars |-> "static"] /\ mem = {} /\ source = [n \in Names |-> "default"]
  /\ backup = [n \in Names |-> NoProperty] /\ argv \in Args /\ failed = FALSE
  /\ bound = {} /\ asked = Default

(***************************************************************************)
(* The state without stage, at, argv and bound as a record, for the        *)
(* functions that the stages call.                                         *)
(***************************************************************************)
Settings ==
       [known |-> known, value |-> value, owner |-> owner, mem |-> mem, source |-> source,
        backup |-> backup, failed |-> failed, asked |-> asked]
Sets(s) ==
  /\ known' = s.known /\ value' = s.value /\ owner' = s.owner /\ mem' = s.mem
  /\ source' = s.source /\ backup' = s.backup /\ failed' = s.failed /\ asked' = s.asked

Fits(n, kind) ==
  CASE Type[n] = "string" -> kind \in {"string", "list", "number"}
    [] OTHER -> kind = Type[n]

Assign(s, n, v) == [s EXCEPT !.value[Var[n]] = v]

(* __config_parser_set_property *)
SetOption(s, p) ==
  IF ~Fits(p.name, p.kind) THEN [s EXCEPT !.failed = TRUE]
  ELSE IF Type[p.name] = "string"
       THEN [Assign(s, p.name, p.value) EXCEPT !.owner[Var[p.name]] = p.name,
                                              !.mem = @ \cup {p.name},
                                              !.source[p.name] = "file"]
       ELSE [Assign(s, p.name, p.value) EXCEPT !.source[p.name] = "file"]

(* config_parse_set_property: what is not known yet is kept, the newest    *)
(* instead of an older one.                                                *)
SetProperty(s, p) ==
  IF p.name \in s.known THEN SetOption(s, p) ELSE [s EXCEPT !.backup[p.name] = p]

(* Mutant: what was set before the option existed is forgotten. *)
AddOptionAlone(s, n) ==
  [s EXCEPT !.known = @ \cup {n}, !.mem = @ \cup {n}, !.owner[Var[n]] = n]

(* config_parser_add_option: a text that the option starts with is its own;*)
(* an error of a property that was kept is not reported.                   *)
AddOption(s, n) ==
  LET added == [s EXCEPT !.known = @ \cup {n}, !.mem = @ \cup {n}, !.owner[Var[n]] = n]
  IN  IF s.backup[n] # NoProperty /\ Fits(n, s.backup[n].kind)
      THEN SetOption(added, s.backup[n]) ELSE added

(* find_arg and its kin: the first place where the option is given.        *)
Occurrences(n) == {i \in 1 .. Len(argv) : argv[i].name = n}
FindArg(n) == IF Occurrences(n) = {} THEN 0 ELSE Min(Occurrences(n))

(* config_parse_cmd_option *)
CmdOption(s, n) ==
  LET i == FindArg(n) text == Type[n] = "string"
  IN  IF i = 0 THEN s
      ELSE [Assign(s, n, argv[i].value)
              EXCEPT !.source[n] = "argument",
                     !.owner[Var[n]] = IF text THEN "argv" ELSE @,
                     !.mem = IF text THEN @ \ {n} ELSE @]

(* What is asked for by a property of a file: an option that is not known  *)
(* yet keeps the newest one, and loses an earlier one to it, unreported,   *)
(* when that is of a wrong type.  On the command line the last place of an *)
(* option counts; of an option with a second dash, which does not become a *)
(* line of the configuration, the first.                                   *)
Wants(p) ==
  [asked EXCEPT ![Var[p.name]] = IF Fits(p.name, p.kind) THEN p.value
                                 ELSE IF p.name \in known THEN @ ELSE Default[p.name]]
Given(v) == {i \in 1 .. Len(argv) : Var[argv[i].name] = v}
WantsArguments ==
  [v \in Vars |-> IF Given(v) = {} THEN asked[v]
                  ELSE argv[IF v \in Dashed THEN Min(Given(v)) ELSE Max(Given(v))].value]

NumSets == Cardinality({n \in Names : source[n] = "file" \/ backup[n] # NoProperty})

(* A property of the file that is being read; the default configuration is *)
(* a part of the program and has no error.                                 *)
ReadProperty(p) ==
  /\ stage = "defaults" => Fits(p.name, p.kind)
  /\ stage \in FileStages /\ NumSets < MaxSets
  /\ Sets([SetProperty(Settings, p) EXCEPT !.asked = Wants(p)])
  /\ UNCHANGED <<stage, at, argv, bound>>

(* main, from the pid file to -theme-str: the modes and the keys add their *)
(* options between the default and the system configuration.  An error in  *)
(* a file makes main leave out the command line.                           *)
AddKeys(s) == AddOption(AddOption(AddOption(s, Keys[1]), Keys[2]), Keys[3])
Advance ==
  /\ stage \in DOMAIN Follows
  /\ stage' = IF stage = "theme" /\ failed THEN "themestr" ELSE Follows[stage]
  /\ Sets(CASE stage = "start" -> AddOption(Settings, "pid")
            [] stage = "keys" -> AddKeys(Settings)
            [] stage = "theme" /\ ~failed -> [Settings EXCEPT !.asked = WantsArguments]
            [] OTHER -> Settings)
  /\ UNCHANGED <<at, argv, bound>>

(* config_parse_cmd_options: the table, the other options, then every      *)
(* argument once more as a line of a configuration file; a name with a     *)
(* second dash is a section there, and no option.  What is no value of a   *)
(* configuration file is parsed again as a text, and all errors before it  *)
(* are forgotten; that of a value of a wrong type stays.                   *)
Options == <<"modi", "modes", "dpi", "sort", "pid", "kbaccept", "kbcancel", "merow">>
ParseOption ==
  /\ stage = "options" /\ Sets(CmdOption(Settings, Options[at]))
  /\ IF at < Len(Options) THEN at' = at + 1 /\ stage' = stage
     ELSE at' = 1 /\ stage' = "arguments"
  /\ UNCHANGED <<argv, bound>>
ParseArgument ==
  /\ stage = "arguments" /\ at <= Len(argv) /\ at' = at + 1
  /\ \E again \in BOOLEAN :
       LET s == IF again THEN [Settings EXCEPT !.failed = FALSE] ELSE Settings
       IN  /\ again => argv[at].kind = "string"
           /\ Sets(IF argv[at].name \in Dashed THEN s ELSE SetProperty(s, argv[at]))
  /\ UNCHANGED <<stage, argv, bound>>
ArgumentsEnd ==
  /\ stage = "arguments" /\ at > Len(argv) /\ at' = 1 /\ stage' = "themestr"
  /\ Sets(Settings) /\ UNCHANGED <<argv, bound>>

(* parse_keys_abe: one action for a key and scope, the first of them, the  *)
(* rest is an error; the buttons of the mouse are bound only when there is *)
(* none.                                                                   *)
KeyOf(i) == <<ScopeOf[Keys[i]], value[Keys[i]]>>
Earlier(i) == \E j \in 1 .. i - 1 : KeyOf(j) = KeyOf(i)
Binding(i) == [key |-> KeyOf(i), action |-> Keys[i]]
Click == [key |-> <<"mouse", 0>>, action |-> "click"]
ParseKeys ==
  /\ stage = "bindings" /\ stage' = "done"
  /\ LET clash == \E i \in 1 .. Len(Keys) : Earlier(i)
     IN  /\ bound' = {Binding(i) : i \in {k \in 1 .. Len(Keys) : ~Earlier(k)}}
                      \cup (IF clash THEN {} ELSE {Click})
         /\ failed' = (failed \/ clash)
  /\ UNCHANGED <<at, known, value, owner, mem, source, backup, argv, asked>>

OptionsNext ==
  \/ \E p \in Files : ReadProperty(p)
  \/ Advance \/ ParseOption \/ ParseArgument \/ ArgumentsEnd \/ ParseKeys

OptionsSpec == OptionsInit /\ [][OptionsNext]_ovars

(* print_options: of neighbours that share a variable only the last.       *)
Printed == {n \in known : n # "modi"}
(* config_parse_dump_config_rasi_format: commented out when the source of  *)
(* the option is default.                                                  *)
Dumped == {n \in Printed : source[n] # "default"}
(* The rows of the help-keys mode: the names that begin as keys do.        *)
HelpRows == {n \in Printed : n \in Dashed}

OptionsTypeOK ==
  /\ stage \in DOMAIN Follows \cup {"options", "arguments", "bindings", "done"}
  /\ at \in Nat \ {0} /\ known \subseteq Names /\ mem \subseteq Names /\ failed \in BOOLEAN
  /\ value \in [Vars -> Nat] /\ asked \in [Vars -> Nat] /\ argv \in Seq(Property)
  /\ owner \in [Vars -> Names \cup {"static", "argv"}]
  /\ source \in [Names -> {"default", "file", "argument"}]
  /\ backup \in [Names -> Property \cup {NoProperty}]

(* A variable never points at a text that was freed, whatever name it was  *)
(* set by before (the mem of every option, xrmoptions.c:740 and 523).      *)
TextsLive == \A v \in Vars : owner[v] \in Names => owner[v] \in mem /\ Var[owner[v]] = v

(* When there is no error and no argument of a wrong type (of which the    *)
(* error may be forgotten), the last word counts: -theme-str over the      *)
(* command line over the files, a later file over an earlier one, for      *)
(* options that were added after they were set as well (the backup list).  *)
SomeUnfit == \E i \in 1 .. Len(argv) : ~Fits(argv[i].name, argv[i].kind)
LastWordCounts ==
  stage \in {"themestr", "bindings", "done"} /\ ~failed /\ ~SomeUnfit =>
    \A n \in known : value[Var[n]] = asked[Var[n]]

(* Every key that is bound has one action, and without an error every      *)
(* action has its key and the buttons work; the help shows what is bound.  *)
KeysAreBound ==
  stage = "done" =>
    /\ \A d, e \in bound : d.key = e.key => d = e
    /\ \A e \in bound : e.action = "click" \/ e.action \in HelpRows
    /\ ~failed => /\ \A i \in 1 .. Len(Keys) : \E e \in bound : e.action = Keys[i]
                  /\ \E e \in bound : e.action = "click"

(* No variable points at a text that was freed although several options    *)
(* share it, the last good value that was asked for counts, and every key  *)
(* does one thing in its scope.                                            *)
OptionsSound == TextsLive /\ LastWordCounts /\ KeysAreBound

(* What -dump-config prints is the configuration in use, as the manual     *)
(* says (doc/rofi.1.markdown:153).  It is not: a value that was set by     *)
(* another name of a variable is left out.                                 *)
DumpIsComplete ==
  stage = "done" => \A n \in Table : value[Var[n]] # Default[Var[n]] =>
                      \E d \in Dumped : Var[d] = Var[n]
=============================================================================
