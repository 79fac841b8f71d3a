------------------------------- MODULE Options -------------------------------
(***************************************************************************)
(* From the command line to the configuration: parse and parseFromFile      *)
(* (pkg/monny/parse.go), newConfig and the options (pkg/monny/config.go), and *)
(* main, which runs the command only if neither reports an error.  The flags *)
(* are an input: each step reads one more, until the user's command.         *)
(*                                                                         *)
(* A configuration file is a map from keys to what its YAML holds there, and *)
(* the loop over a Go map takes the keys in any order.  A value is one of a  *)
(* few strings; Parsed says what the function of each option makes of it.    *)
(***************************************************************************)
EXTENDS Naturals, Sequences, SequencesExt, FiniteSets

CONSTANTS
    FlagNames,      \* flags that are given on the command line
    FileNames,      \* keys that a file may hold
    Values,         \* values of both, among Words
    MaxFlags,       \* bound: flags on the command line, files among them
    MaxFiles,       \* bound: files
    MaxKeys         \* bound: keys in a file

ListNames  == {"rule", "rule-json", "creates"}
FlagsOnly  == {"no-notify-on-success", "no-notify-on-failure", "daemon", "insecure",
               "no-error-reports"}
Histories  == {"stdout-history", "stderr-history"}
Memory     == {"memory-warn", "memory-kill"}
Timeouts   == {"timeout-warn", "timeout-kill"}
Settings   == {"id", "host", "shell"} \union Histories \union Memory \union Timeouts
KnownNames == ListNames \union FlagsOnly \union Settings

\* The strings for which Parsed says what the options make of them.
Words == {"", "f:a", "f:(", "1", "3m", "2K", "2M", "2G", "sh", "true", "false"}

ASSUME OptionsAssumption == Values \subseteq Words

\* What a key of the file may hold: a string or an integer, a boolean, a list of
\* strings, null, or anything else.
Entries == [kind : {"scalar"}, values : {<<v>> : v \in Values}]
             \union [kind : {"bool"}, values : {<<"true">>, <<"false">>}]
             \union {[kind |-> k, values |-> <<>>] : k \in {"list", "null", "other"}}
             \union [kind : {"list"}, values : {<<v, w>> : v \in Values, w \in {"f:a"}}]

Files == UNION {[keys -> Entries] :
                   keys \in {K \in SUBSET FileNames : K # {} /\ Cardinality(K) <= MaxKeys}}

NoFile == [n \in {} |-> <<>>]

VARIABLES
    shell,      \* SHELL in the environment
    given,      \* history: the flags that were read, each with its value or its file
    phase,      \* "flags", "file", "started" or "refused"
    file, left, \* the file that is read, and its keys that the loop has not taken
    options,    \* options.options, each with its name and its value
    config,     \* the Config that newConfig returns
    errors      \* the names of the options that newConfig reports

vars == <<shell, given, phase, file, left, options, config, errors>>

\* Config, as far as options set it: a setting is <<>> while it has its zero value.
Default == [set   |-> [n \in Settings |->
                         IF n \in Histories THEN <<"30">>
                         ELSE IF n = "host" THEN <<"api">> ELSE <<>>],
            flags |-> {}, rules |-> <<>>, creates |-> <<>>]
Zero == [Default EXCEPT !.set = [n \in Settings |-> <<>>]]

Init ==
    /\ shell \in {"", "bash"} /\ given = <<>> /\ phase = "flags"
    /\ file = NoFile /\ left = {} /\ options = <<>>
    /\ config = Zero /\ errors = {}

-----------------------------------------------------------------------------
(* The options *)

\* The limit in KB that MemoryWarn and MemoryKill make of a number and its unit.
Kilobytes(v) == CASE v = "2G" -> <<2000000>> [] v = "2M" -> <<2000>> [] v = "2K" -> <<2>>
                  [] v = "1" -> <<1>> [] OTHER -> <<>>

\* What an option stores for a value; <<>> if it returns an error.
Parsed(n, v) ==
    CASE n = "id"         -> <<v>>
      [] n = "creates"    -> <<v>>
      [] n = "rule"       -> IF v = "f:(" THEN <<>> ELSE <<[field |-> "", regex |-> v]>>
      [] n = "rule-json"  -> IF v = "f:(" THEN <<>> ELSE <<[field |-> "f", regex |-> "a"]>>
      [] n = "host"       -> IF v \in {"f:a", "f:("} THEN <<v>> ELSE <<>>
      [] n = "shell"      -> IF v = "sh" THEN <<v>> ELSE <<>>
      [] n \in Histories  -> IF v = "1" THEN <<v>> ELSE <<>>
      [] n \in Timeouts   -> IF v = "3m" THEN <<v>> ELSE <<>>
      [] n \in Memory     -> Kilobytes(v)

\* handleOption knows the name, and a JSON rule has its colon.
Handled(n, v) == /\ n \in KnownNames
                 /\ n = "rule-json" => v \in {"f:a", "f:("}

Refused(o) == o.name \notin FlagsOnly /\ Parsed(o.name, o.value) = <<>>

\* option(&c).  A rule that does not compile is stored all the same.
Apply(c, o) ==
    CASE o.name \in FlagsOnly -> [c EXCEPT !.flags = @ \union {o.name}]
      [] o.name = "creates"   -> [c EXCEPT !.creates = Append(@, o.value)]
      [] o.name \in {"rule", "rule-json"} ->
            [c EXCEPT !.rules = IF Refused(o) THEN Append(@, [field |-> "", regex |-> "nil"])
                                ELSE @ \o Parsed(o.name, o.value)]
      [] OTHER -> IF Refused(o) THEN c
                  ELSE [c EXCEPT !.set[o.name] = Parsed(o.name, o.value)]

\* The loop over the options.
Configured(os) ==
    LET after[k \in 0..Len(os)] ==
          IF k = 0 THEN Default ELSE Apply(after[k - 1], os[k])
    IN after[Len(os)]

Option(n, v) == [name |-> n, value |-> v]

-----------------------------------------------------------------------------
(* parseFlag *)

\* An error ends the parsing, and main with it.
Refuse == phase' = "refused" /\ UNCHANGED <<options, config, errors>>

\* Mutant of Take: the options are put before those that were read earlier.
TakeBefore(os) == options' = os \o options /\ UNCHANGED <<phase, config, errors>>

Take(os) == options' = options \o os /\ UNCHANGED <<phase, config, errors>>

Read(g) == /\ phase = "flags" /\ Len(given) < MaxFlags
           /\ given' = Append(given, g)

\* The library gives a flag that takes no value the value "true".
FlagValues(n) == IF n \in FlagsOnly THEN {"true", "false"} ELSE Values

\* A flag other than --config: handleOption.
Flag(n, v) ==
    /\ v \in FlagValues(n)
    /\ Read([name |-> n, value |-> v, file |-> NoFile])
    /\ IF Handled(n, v) THEN Take(<<Option(n, v)>>) ELSE Refuse
    /\ UNCHANGED <<shell, file, left>>

\* --config with a file that cannot be read or is no YAML map.
BadFile ==
    /\ Read([name |-> "config", value |-> "bad", file |-> NoFile])
    /\ Refuse
    /\ UNCHANGED <<shell, file, left>>

\* --config: parseFromFile begins.
ConfigFile ==
    /\ phase = "flags"
    /\ Cardinality({k \in DOMAIN given : given[k].name = "config"}) < MaxFiles
    /\ \E f \in Files :
          /\ Read([name |-> "config", value |-> "", file |-> f])
          /\ phase' = "file" /\ file' = f /\ left' = DOMAIN f
    /\ UNCHANGED <<shell, options, config, errors>>

-----------------------------------------------------------------------------
(* parseFromFile *)

\* The lists that the second decoding of the file yields for its list fields.
Listed(f, n) == IF n \in DOMAIN f /\ f[n].kind = "list" THEN f[n].values ELSE <<>>

\* It fails if one of these fields is neither a list nor null.
Decodable(f) == \A n \in ListNames \intersect DOMAIN f : f[n].kind \in {"list", "null"}

OptionsFor(f, n) == [k \in DOMAIN Listed(f, n) |-> Option(n, Listed(f, n)[k])]

AllLists(f) == OptionsFor(f, "rule") \o OptionsFor(f, "rule-json") \o OptionsFor(f, "creates")

\* A string or an integer, or a boolean, whose value is not looked at.
ScalarKey(n) ==
    LET v == IF file[n].kind = "bool" THEN "" ELSE file[n].values[1]
    IN /\ file[n].kind \in {"scalar", "bool"}
       /\ IF Handled(n, v) THEN Take(<<Option(n, v)>>) ELSE Refuse

\* null has no type.
NullKey(n) == file[n].kind = "null" /\ Refuse

\* Any other value: all list fields of the file are taken, whatever the key.
OtherKey(n) ==
    /\ file[n].kind \in {"list", "other"}
    /\ IF /\ Decodable(file) /\ AllLists(file) # <<>>
          /\ \A k \in DOMAIN AllLists(file) :
                Handled(AllLists(file)[k].name, AllLists(file)[k].value)
       THEN Take(AllLists(file)) ELSE Refuse

FileKey(n) ==
    /\ phase = "file" /\ n \in left /\ left' = left \ {n}
    /\ ScalarKey(n) \/ NullKey(n) \/ OtherKey(n)
    /\ UNCHANGED <<shell, given, file>>

FileDone ==
    /\ phase = "file" /\ left = {} /\ phase' = "flags" /\ file' = NoFile
    /\ UNCHANGED <<shell, given, left, options, config, errors>>

-----------------------------------------------------------------------------
(* newConfig, when all flags are read *)

NewConfig ==
    LET c == Configured(options)
        reported == {options[k].name : k \in {j \in DOMAIN options : Refused(options[j])}}
                      \union (IF c.set["id"] \in {<<>>, <<"">>} THEN {"id"} ELSE {})
                      \union (IF shell = "" THEN {"SHELL"} ELSE {})
    IN /\ phase = "flags"
       /\ errors' = reported
       /\ IF reported = {}
          THEN phase' = "started" /\ config' = [c EXCEPT !.set["shell"] = <<shell>>]
          ELSE phase' = "refused" /\ UNCHANGED config
       /\ UNCHANGED <<shell, given, file, left, options>>

Next ==
    \/ \E n \in FlagNames : \E v \in FlagValues(n) : Flag(n, v)
    \/ BadFile \/ ConfigFile \/ FileDone \/ NewConfig
    \/ \E n \in FileNames : FileKey(n)

Spec == Init /\ [][Next]_vars

-----------------------------------------------------------------------------
(***************************************************************************)
(* Properties.  What is given is read off the flags and files, not off what  *)
(* the loader does with them: a key is given a value of its own type, and     *)
(* anything else there is a fault.                                           *)
(***************************************************************************)

\* A switch takes a boolean, a list field one string or several, a setting a string
\* or an integer, and no other key is known (parse.go 44-61 and 202-206, and the
\* table of parse_test.go 60-87).
Fits(n, e) ==
    CASE n \in FlagsOnly -> e.kind = "bool"
      [] n \in ListNames -> e.kind \in {"scalar", "list"}
      [] n \in Settings  -> e.kind = "scalar"
      [] OTHER           -> FALSE

\* What one flag asks for under a name, a file in its place.
Asks(g, n) ==
    IF g.file = NoFile THEN (IF g.name = n THEN <<g.value>> ELSE <<>>)
    ELSE IF n \in DOMAIN g.file /\ Fits(n, g.file[n]) THEN g.file[n].values
    ELSE <<>>

\* What all of them ask for, in their order.
Asked(n) == FlattenSeq([k \in 1..Len(given) |-> Asks(given[k], n)])

\* A value that the option of the name does not take, or a key whose value is of
\* another type.
FaultIn(n) ==
    \/ \E v \in ToSet(Asked(n)) :
          ~Handled(n, v) \/ (n \notin FlagsOnly /\ Parsed(n, v) = <<>>)
    \/ \E k \in DOMAIN given :
          n \in DOMAIN given[k].file /\ ~Fits(n, given[k].file[n])

Unreadable == \E k \in DOMAIN given : given[k].name = "config" /\ given[k].value = "bad"

NoId == Asked("id") = <<>> \/ Last(Asked("id")) = ""

\* The command line is not valid.
Faulty ==
    \/ \E n \in FlagNames \union FileNames : FaultIn(n)
    \/ Unreadable \/ NoId \/ shell = ""

\* What was given under a name is valid, and is what the configuration holds: the
\* setting that was given last, the switch as it was put last, and all the rules and
\* files to expect.
Right(n) ==
    /\ ~FaultIn(n)
    /\ n \in Settings \ {"shell"} =>
          config.set[n] = IF Asked(n) = <<>> THEN Default.set[n]
                          ELSE Parsed(n, Last(Asked(n)))
    /\ n = "id" => ~NoId
    /\ n \in FlagsOnly =>
          (n \in config.flags <=> Asked(n) # <<>> /\ Last(Asked(n)) = "true")
    /\ n \in {"rule", "rule-json"} =>
          {r \in ToSet(config.rules) : r.field = (IF n = "rule" THEN "" ELSE "f")} =
             {Parsed(n, v)[1] : v \in ToSet(Asked(n))}
    /\ n = "creates" => ToSet(config.creates) = ToSet(Asked("creates"))

\* Some list field of the file has elements.
HasElements(f) == \E m \in ListNames \intersect DOMAIN f :
                      f[m].kind = "list" /\ f[m].values # <<>>

\* The loader takes a switch for on whatever is given with it, reads a boolean of
\* another option as the empty string, and drops what is no list field beside one
\* that has elements (parse.go 102-125 and 159-194).
Misread(n) ==
    \E k \in DOMAIN given :
        LET f == given[k].file IN
        \/ n \in FlagsOnly /\ f = NoFile /\ given[k].name = n /\ given[k].value # "true"
        \/ n \in FlagsOnly /\ n \in DOMAIN f /\ f[n] # [kind |-> "bool", values |-> <<"true">>]
        \/ n \in KnownNames \ FlagsOnly /\ n \in DOMAIN f /\ f[n].kind = "bool"
        \/ /\ n \notin ListNames /\ n \in DOMAIN f
           /\ f[n].kind \in {"list", "other"} /\ HasElements(f)

\* It refuses a list beside a list field that holds one string, and lists that are all
\* empty (parse.go 167-173).
Spurned ==
    \E k \in DOMAIN given :
        LET f == given[k].file IN
        /\ \E n \in DOMAIN f : f[n].kind = "list"
        /\ ~HasElements(f) \/ \E m \in ListNames \intersect DOMAIN f : f[m].kind = "scalar"

\* When a command starts, every name that is not misread is valid and configured as it
\* was given, and a command is refused only if what was given is not valid or spurned.
\* Neither depends on the order in which the loop over the file's map takes its keys,
\* although the list fields are taken at any of them (parse.go 66-86 and 133-200,
\* config.go 53-92).
ConfigIsAsGiven ==
    /\ phase = "started" =>
          /\ ~Unreadable /\ shell # ""
          /\ \A n \in FlagNames \union FileNames \union KnownNames : ~Misread(n) => Right(n)
    /\ phase = "refused" => Faulty \/ Spurned

-----------------------------------------------------------------------------
(* What the documentation says, and the code does not do *)

\* "Shell sets the shell that will execute the command" (config.go 333).
ShellIsAsGiven ==
    phase = "started" /\ Asked("shell") # <<>> => config.set["shell"] = <<Last(Asked("shell"))>>

\* A rule that is given once is one rule: a match of it counts once (config.go 136-138).
RulesOnce ==
    phase = "started" /\ ~Misread("rule") /\ ~Misread("rule-json") =>
        Len(config.rules) = Len(Asked("rule")) + Len(Asked("rule-json"))

\* A switch is off when it is given as false (parse.go 50-60).
SwitchesCanBeOff ==
    phase = "started" => \A n \in FlagsOnly :
        Asked(n) # <<>> /\ Last(Asked(n)) = "false" => n \notin config.flags

\* An option that is not known, or a value of another type, is an error
\* (parse.go 129, 172 and 196, parse_test.go 84).
FaultsAreRefused ==
    phase = "started" => \A n \in FileNames \ FlagsOnly : ~FaultIn(n)

\* What has its type is taken: one rule may be a string beside a list of files to
\* expect (parse_test.go 67 and 79).
ListsAreTaken == phase = "refused" => Faulty
=============================================================================
