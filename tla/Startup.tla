------------------------------ MODULE Startup ------------------------------
(***************************************************************************)
(* The main functions up to the point at which the program does its work:  *)
(* core/ArgumentParser.hpp, cfg/Loader.hpp, the singleton of               *)
(* core/Display.hpp, and then the threads and sessions of aggregator.cpp,  *)
(* the session of viewer.cpp, the server of internal-exchange.cpp, or the  *)
(* stream of one of the four subscribers.                                  *)
(*                                                                         *)
(* A text is an opaque value with an upper and a lower case form.  What is *)
(* in a file is known when it is loaded: nothing usable (no file, no JSON, *)
(* a member missing), or the members that main goes on to use.             *)
(***************************************************************************)
EXTENDS Integers, Sequences, FiniteSets

CONSTANTS
    Text,               \* arguments that do not start with a dash; "" is one
    upper, lower,       \* to_upper_copy and to_lower_copy
    MaxArguments,       \* bound: arguments after the name of the program
    MaxExchanges        \* the 7 of aggregator.cpp

Option == {"--config", "--verbose", "--help", "-?"}     \* "-?": any other one

ASSUME TextAssumption ==
    /\ "" \in Text
    /\ Text \cap Option = {}
    /\ DOMAIN upper = Text
    /\ lower \in [Text -> Text]

ASSUME NumbersAssumption == MaxArguments \in Nat /\ MaxExchanges \in Nat \ {0}

Exchange == {"BINANCE", "BITMEX", "BYBIT", "COINBASE", "HYPERLIQUID", "INTERNAL", "KRAKEN", "OKX"}

Program == {"aggregator", "viewer", "internal-exchange", "subscriber"}

VARIABLES
    program, argv,      \* what is started, and how
    stage,              \* how far main is
    i,                  \* the argument that is parsed next
    arguments,          \* the member of ArgumentParser
    file,               \* what the configuration file holds
    display,            \* the Display singleton, verbose or quiet
    threads,            \* the threads that main has started
    sessions            \* the exchanges that main has connected to

vars == <<program, argv, stage, i, arguments, file, display, threads, sessions>>

NoArguments == [configPath |-> "", verbose |-> FALSE, exchanges |-> << >>]

Unread  == [state |-> "unread"]
Useless == [state |-> "useless"]

(* The configurations: exchanges are found by their names, as written in    *)
(* the file; usable is whether the certificate, the key and the address of  *)
(* the internal exchange are.                                              *)
Configuration ==
    [verbose : BOOLEAN,
     exchanges : IF program \in {"aggregator", "viewer"} THEN SUBSET (Text \ {""}) ELSE {{}},
     usable : IF program = "internal-exchange" THEN BOOLEAN ELSE {TRUE}]

Init ==
    /\ program \in Program
    /\ argv \in UNION {[1..n -> Option \cup Text] : n \in 0..MaxArguments}
    /\ stage = "parsing"
    /\ i = 1
    /\ arguments = NoArguments
    /\ file = Unread
    /\ display = "none"
    /\ threads = {}
    /\ sessions = << >>

(***************************************************************************)
(* ArgumentParser                                                          *)
(***************************************************************************)
afterParsing == <<program, argv, file, display, threads, sessions>>

Parsing == stage = "parsing" /\ i \in DOMAIN argv

(* printUsageAndExit, with an error or without. *)
PrintUsageAndExit(status) ==
    /\ stage' = status
    /\ UNCHANGED <<i, arguments, afterParsing>>

(* A plausible bug: the path is parsed once more, as an argument. *)
ParseConfigTwice ==
    /\ Parsing
    /\ argv[i] = "--config"
    /\ IF i + 1 > Len(argv) THEN PrintUsageAndExit("failure")
       ELSE /\ arguments' = [arguments EXCEPT !.configPath = argv[i + 1]]
            /\ i' = i + 1
            /\ UNCHANGED <<stage, afterParsing>>

(* The next argument is the path, whatever it looks like. *)
ParseConfig ==
    /\ Parsing
    /\ argv[i] = "--config"
    /\ IF i + 1 > Len(argv) THEN PrintUsageAndExit("failure")
       ELSE /\ arguments' = [arguments EXCEPT !.configPath = argv[i + 1]]
            /\ i' = i + 2
            /\ UNCHANGED <<stage, afterParsing>>

ParseVerbose ==
    /\ Parsing
    /\ argv[i] = "--verbose"
    /\ arguments' = [arguments EXCEPT !.verbose = TRUE]
    /\ i' = i + 1
    /\ UNCHANGED <<stage, afterParsing>>

ParseHelp ==
    /\ Parsing
    /\ argv[i] = "--help"
    /\ PrintUsageAndExit("success")

ParseUnknown ==
    /\ Parsing
    /\ argv[i] = "-?"
    /\ PrintUsageAndExit("failure")

(* fromString<Exchange> looks at the text in upper case, and throws if it   *)
(* is no exchange; the name is kept in lower case.                         *)
ParseExchange ==
    /\ Parsing
    /\ argv[i] \in Text
    /\ IF upper[argv[i]] \notin Exchange THEN PrintUsageAndExit("failure")
       ELSE /\ arguments' = [arguments EXCEPT !.exchanges =
                                Append(@, [id |-> upper[argv[i]], name |-> lower[argv[i]]])]
            /\ i' = i + 1
            /\ UNCHANGED <<stage, afterParsing>>

ParseEnd ==
    /\ stage = "parsing"
    /\ i \notin DOMAIN argv
    /\ IF arguments.configPath = "" THEN PrintUsageAndExit("failure")
       ELSE stage' = "counting" /\ UNCHANGED <<i, arguments, afterParsing>>

(* A plausible bug: a maximum that is not given is taken as it is. *)
countIsRightNoDefault(count, min, max) == count >= min /\ count <= max

(* assertExchangeCount: without a maximum, the minimum is the maximum. *)
countIsRight(count, min, max) ==
    count >= min /\ count <= (IF max = 0 THEN min ELSE max)

AssertExchangeCount ==
    /\ stage = "counting"
    /\ LET count == Len(arguments.exchanges)
           right == CASE program = "aggregator" -> countIsRight(count, 0, MaxExchanges)
                      [] program = "viewer"     -> countIsRight(count, 1, 0)
                      [] OTHER                  -> countIsRight(count, 0, 0)
       IN  IF right THEN stage' = "loading" /\ UNCHANGED <<i, arguments, afterParsing>>
           ELSE PrintUsageAndExit("failure")

(***************************************************************************)
(* The configuration and the display                                       *)
(***************************************************************************)
(* The singleton is made by whoever asks for it first. *)
getInstance(instance, verbose) ==
    IF instance # "none" THEN instance ELSE IF verbose THEN "verbose" ELSE "quiet"

(* A plausible bug: the loader logs, which makes the display too early. *)
LoadConfigLogging ==
    /\ stage = "loading"
    /\ file' \in Configuration
    /\ stage' = "loaded"
    /\ display' = getInstance(display, FALSE)
    /\ UNCHANGED <<program, argv, i, arguments, threads, sessions>>

LoadConfig ==
    /\ stage = "loading"
    /\ file' \in Configuration
    /\ stage' = "loaded"
    /\ UNCHANGED <<program, argv, i, arguments, display, threads, sessions>>

(* FileOpenError, a parse error or a missing member: nothing catches it. *)
LoadConfigThrows ==
    /\ stage = "loading"
    /\ file' = Useless
    /\ stage' = "aborted"
    /\ UNCHANGED <<program, argv, i, arguments, display, threads, sessions>>

Instantiate ==
    /\ stage = "loaded"
    /\ display' = getInstance(display, file.verbose \/ arguments.verbose)
    /\ stage' = CASE program = "aggregator" -> "spawning"
                  [] program = "viewer"     -> "connecting"
                  [] OTHER                  -> "serving"
    /\ UNCHANGED <<program, argv, i, arguments, file, threads, sessions>>

(***************************************************************************)
(* The work begins                                                         *)
(***************************************************************************)
Spawn ==
    /\ stage = "spawning"
    /\ threads' = {"aggregatorThread", "serverThread"}
    /\ stage' = "connecting"
    /\ UNCHANGED <<program, argv, i, arguments, file, display, sessions>>

Unconnected == arguments.exchanges[Len(sessions) + 1]

(* The configuration of the exchange is found, the factory makes the        *)
(* session of its kind, and the session is run.                            *)
Connect ==
    /\ stage = "connecting"
    /\ Len(sessions) < Len(arguments.exchanges)
    /\ Unconnected.name \in file.exchanges
    /\ sessions' = Append(sessions, Unconnected.id)
    /\ UNCHANGED <<program, argv, stage, i, arguments, file, display, threads>>

(* exchanges.at throws, and nothing catches it: the process ends with the   *)
(* threads and the sessions it has started so far.                         *)
ConnectThrows ==
    /\ stage = "connecting"
    /\ Len(sessions) < Len(arguments.exchanges)
    /\ Unconnected.name \notin file.exchanges
    /\ stage' = "aborted"
    /\ UNCHANGED <<program, argv, i, arguments, file, display, threads, sessions>>

Run ==
    /\ stage = "connecting"
    /\ Len(sessions) = Len(arguments.exchanges)
    /\ stage' = "running"
    /\ UNCHANGED <<program, argv, i, arguments, file, display, threads, sessions>>

(* The internal exchange loads its certificate and its key and makes its    *)
(* address, each of which may throw.                                       *)
Serve ==
    /\ stage = "serving"
    /\ program = "internal-exchange"
    /\ stage' = IF file.usable THEN "running" ELSE "aborted"
    /\ UNCHANGED <<program, argv, i, arguments, file, display, threads, sessions>>

(* A subscriber makes its handler and its client and reads the stream. *)
Stream ==
    /\ stage = "serving"
    /\ program = "subscriber"
    /\ stage' = "running"
    /\ UNCHANGED <<program, argv, i, arguments, file, display, threads, sessions>>

(***************************************************************************)
(* The specification                                                       *)
(***************************************************************************)
Parse ==
    ParseConfig \/ ParseVerbose \/ ParseHelp \/ ParseUnknown \/ ParseExchange \/ ParseEnd

Next ==
    \/ Parse \/ AssertExchangeCount
    \/ LoadConfig \/ LoadConfigThrows \/ Instantiate
    \/ Spawn \/ Connect \/ ConnectThrows \/ Run \/ Serve \/ Stream

Spec == Init /\ [][Next]_vars

(***************************************************************************)
(* What a command line says                                                *)
(***************************************************************************)
(* The j-th argument is the value of a --config: an odd number of them      *)
(* stands right before it.                                                 *)
IsValue(line, j) ==
    \E n \in 1..(j - 1) :
        /\ n % 2 = 1
        /\ \A k \in (j - n)..(j - 1) : line[k] = "--config"
        /\ j - n > 1 => line[j - n - 1] # "--config"

Word(line) == {j \in DOMAIN line : ~IsValue(line, j)}

IsWrong(line, j) ==
    \/ line[j] = "-?"
    \/ line[j] = "--config" /\ j = Len(line)
    \/ line[j] \in Text /\ upper[line[j]] \notin Exchange

(* The first word that ends the program, if there is one. *)
Ends(line, j) ==
    /\ j \in Word(line)
    /\ line[j] = "--help" \/ IsWrong(line, j)
    /\ \A k \in Word(line) : k < j => line[k] # "--help" /\ ~IsWrong(line, k)

AsksForHelp(line) == \E j \in Word(line) : Ends(line, j) /\ line[j] = "--help"
IsRefused(line)   == \E j \in Word(line) : Ends(line, j) /\ line[j] # "--help"

(* What the arguments before the m-th say.  The last --config counts, and   *)
(* every word that is no option names an exchange.                         *)
ReadBefore(line, m) ==
    LET values == {j \in 1..(m - 1) : IsValue(line, j)}
        named[n \in 0..Len(line)] ==
            IF n = 0 THEN << >>
            ELSE IF n \in Word(line) /\ line[n] \in Text
              THEN Append(named[n - 1], [id |-> upper[line[n]], name |-> lower[line[n]]])
              ELSE named[n - 1]
    IN  [configPath |-> IF values = {} THEN ""
                        ELSE line[CHOOSE j \in values : \A k \in values : k <= j],
         verbose |-> \E j \in Word(line) : j < m /\ line[j] = "--verbose",
         exchanges |-> named[m - 1]]

Reading(line) == ReadBefore(line, Len(line) + 1)

(* The usage is right for the program. *)
IsUsable(name, line) ==
    /\ ~AsksForHelp(line) /\ ~IsRefused(line)
    /\ Reading(line).configPath # ""
    /\ CASE name = "aggregator" -> Len(Reading(line).exchanges) <= MaxExchanges
         [] name = "viewer"     -> Len(Reading(line).exchanges) = 1
         [] OTHER               -> Len(Reading(line).exchanges) = 0

(***************************************************************************)
(* Properties                                                              *)
(***************************************************************************)
(* The parser understands a command line the way a reader does: options     *)
(* and exchanges in any order, the last --config counts and takes the next  *)
(* argument even if it looks like an option, and the first word that asks   *)
(* for help or is wrong ends the program.                                  *)
ParsedAsRead ==
    /\ stage = "success" => AsksForHelp(argv)
    /\ stage = "failure" => ~AsksForHelp(argv) /\ ~IsUsable(program, argv)
    /\ stage \notin {"parsing", "success", "failure"} => arguments = Reading(argv)

(* The configuration has what the command line asks for. *)
IsComplete ==
    /\ file # Useless
    /\ file.usable
    /\ LET wanted == Reading(argv).exchanges
       IN  \A k \in DOMAIN wanted : wanted[k].name \in file.exchanges

(* The program gets to work exactly when the command line is usable and the *)
(* configuration has what it asks for, and then with one session for each   *)
(* exchange, in the order of the command line.  It is never refused or      *)
(* aborted otherwise; threads are left behind by an abort only when a       *)
(* configured exchange is missing.                                         *)
RunsWhenRight ==
    LET wanted == Reading(argv).exchanges
        ids == [k \in DOMAIN wanted |-> wanted[k].id]
    IN  /\ stage = "running" => IsUsable(program, argv) /\ IsComplete /\ sessions = ids
        /\ stage = "aborted" => IsUsable(program, argv) /\ ~IsComplete
        /\ stage = "aborted" /\ threads # {} =>
              \E k \in DOMAIN wanted :
                  wanted[k].name \notin file.exchanges /\ Len(sessions) = k - 1
        /\ stage = "failure" =>
              ~IsUsable(program, argv) /\ file = Unread /\ threads = {}

(* Debug messages are shown when the command line or the configuration asks *)
(* for them: nothing makes the display before both are known, as whoever    *)
(* asks for it first decides.                                              *)
VerboseIsHeard ==
    display # "none" => (display = "verbose" <=> file.verbose \/ Reading(argv).verbose)

=============================================================================
