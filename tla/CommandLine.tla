------------------------------- MODULE CommandLine -----------------------------
(***************************************************************************)
(* CommandLineInterface::acquire (command_line_interface.cpp): the words     *)
(* after the name of the program are consumed by one parser after the other. *)
(* The scheduler is set as soon as it is read, the theme and the verbosity    *)
(* when all of the words have been.                                        *)
(***************************************************************************)
EXTENDS Naturals, Sequences

CONSTANTS
    Words,      \* words the command line is made of
    MaxWords,   \* bound on their number
    Numerals    \* the words that std::stoi reads as a natural number, to it

ASSUME CommandLineAssumption ==
    DOMAIN Numerals \subseteq Words /\ \A w \in DOMAIN Numerals : Numerals[w] \in Nat

VARIABLES
    words,      \* the command line, as it was given
    stream,     \* what is left of it
    packs,      \* the settings to be processed, by identifier
    settings,   \* those of the Logger
    cli         \* "parsing", or what acquire returned: "accepted", "refused"

cliVars == <<words, stream, packs, settings, cli>>

Ids == {"help", "scheduler", "theme", "verbosity"}

\* is_consumable, by the short and the long identifier.
Names(id) == CASE id = "help"      -> {"-h", "--help"}
               [] id = "scheduler" -> {"-s", "--scheduler"}
               [] id = "theme"     -> {"-t", "--theme"}
               [] id = "verbosity" -> {"-v", "--verbosity"}

\* create_processor: the words that are a value, and the setting they make.
Values(id) == CASE id = "scheduler" -> {"immediate", "blocking", "nonblocking"}
                [] id = "theme"     -> {"none", "light", "dark"}
                [] id = "verbosity" -> DOMAIN Numerals
                [] OTHER            -> {}
Setting(id, w) == IF id = "verbosity" THEN Numerals[w] ELSE w

Defaults == [scheduler |-> "nonblocking", theme |-> "none", verbosity |-> 0]

CommandLines == UNION {[1..n -> Words] : n \in 0..MaxWords}

CliInit ==
    /\ words \in CommandLines
    /\ stream = words
    /\ packs = << >>
    /\ settings = Defaults
    /\ cli = "parsing"

Recognised(w) == \E id \in Ids : w \in Names(id)
IdOf(w) == CHOOSE id \in Ids : w \in Names(id)

\* Mutant: a setting may be given again.
CanConsumeAgain ==
    /\ Len(stream) > 1
    /\ Recognised(Head(stream))
    /\ stream[2] \in Values(IdOf(Head(stream)))

\* The first word has a parser, its value is there and valid, and the setting
\* is not there yet; the help is never consumed.
CanConsume ==
    /\ Len(stream) > 1
    /\ Recognised(Head(stream))
    /\ stream[2] \in Values(IdOf(Head(stream)))
    /\ IdOf(Head(stream)) \notin DOMAIN packs

Refused ==
    /\ cli = "parsing" /\ stream # <<>> /\ ~CanConsume
    /\ cli' = "refused"
    /\ UNCHANGED <<words, stream, packs, settings>>

Consume(id, w) ==
    IF id = "scheduler"
    THEN settings' = [settings EXCEPT ![id] = w] /\ UNCHANGED packs
    ELSE /\ packs' = [p \in DOMAIN packs \cup {id} |->
                         IF p = id THEN Setting(id, w) ELSE packs[p]]
         /\ UNCHANGED settings

Consumed ==
    /\ cli = "parsing" /\ CanConsume
    /\ Consume(IdOf(Head(stream)), stream[2])
    /\ stream' = SubSeq(stream, 3, Len(stream))
    /\ UNCHANGED <<words, cli>>

Accepted ==
    /\ cli = "parsing" /\ stream = <<>>
    /\ cli' = "accepted"
    /\ settings' = [id \in DOMAIN settings |->
                      IF id \in DOMAIN packs THEN packs[id] ELSE settings[id]]
    /\ UNCHANGED <<words, stream, packs>>

CliNext == Refused \/ Consumed \/ Accepted
-----------------------------------------------------------------------------
(* What a command line asks for: pairs of an identifier and a value of it,   *)
(* the theme and the verbosity at most once.                               *)
Asks(i) == i % 2 = 1 /\ i < Len(words)
Positions(id) == {i \in 1..Len(words) : Asks(i) /\ words[i] \in Names(id)}

WellFormed ==
    /\ Len(words) % 2 = 0
    /\ \A i \in 1..Len(words) : Asks(i) =>
          \E id \in Ids : i \in Positions(id) /\ words[i + 1] \in Values(id)
    /\ \A id \in {"theme", "verbosity"} : \A i, j \in Positions(id) : i = j

LastAsked(id) ==
    IF Positions(id) = {} THEN Defaults[id]
    ELSE Setting(id, words[1 + CHOOSE i \in Positions(id) : \A j \in Positions(id) : j <= i])

(* A command line is accepted exactly if it is well formed, and then the     *)
(* Logger has all that it asks for; if it is refused, by a later word too,   *)
(* the theme and the verbosity are as they were: no setting of a refused     *)
(* command line is half applied but for the scheduler, which is set at once  *)
(* (command_line_interface.cpp:224-268).                                    *)
SettingsAsAsked ==
    /\ cli = "accepted" =>
          WellFormed /\ \A id \in DOMAIN settings : settings[id] = LastAsked(id)
    /\ cli = "refused" =>
          ~WellFormed /\ settings = [Defaults EXCEPT !.scheduler = settings.scheduler]
=============================================================================
