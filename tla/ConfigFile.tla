------------------------------ MODULE ConfigFile ------------------------------
(***************************************************************************)
(* config.json: the proxy that loads it, at its start and at each reload,  *)
(* and the tools (tools/configrif.cpp) that load it, change a field and    *)
(* save it, each a process of its own; Config::load_from_file and          *)
(* save_to_file (src/config.cpp).                                          *)
(*                                                                         *)
(* A configuration is the fields the properties tell apart.  Its text is   *)
(* whatever TextOf and ConfigOf say; ConfigText gives them what the code   *)
(* has.  A stream reads and writes the file a block at a time; nothing     *)
(* locks it.                                                               *)
(***************************************************************************)
EXTENDS Naturals, Sequences

CONSTANTS
    Tools,      \* the processes that edit the file
    Initial,    \* what the file may be at first: texts, or Missing
    TextOf(_),  \* to_json_string
    ConfigOf(_),    \* from_json_string
    Ports, Names,   \* ports and names of a node that a user may type
    Configs,    \* bound: the configurations that editions stay in
    ReadBlock, WriteBlock,  \* what one read and one write of the file move
    MayFail,    \* whether an open may fail
    MayCrash,   \* whether a process may end in the middle
    Users,      \* what the user's editions may be, of Editions
    MaxEdits    \* bound: editions

Server  == "server"
Actors  == Tools \cup {Server}
Missing == <<"missing">>
Editions == {"add-node", "set-port", "kill-switch"}

Default == [port |-> "1080", kill |-> FALSE, nodes |-> <<>>]

ASSUME ConfigFileAssumption ==
    /\ Server \notin Tools /\ {"nobody", "several"} \cap Actors = {} /\ {MayFail, MayCrash} \subseteq BOOLEAN
    /\ Users \subseteq Editions /\ Initial \subseteq Seq(STRING)
    /\ Default \in Configs
    /\ ReadBlock \in Nat \ {0} /\ WriteBlock \in Nat \ {0} /\ MaxEdits \in Nat

VARIABLES
    file,       \* the text of the file, or Missing
    at,         \* at[a]: program point of the process
    cfg,        \* cfg[a]: its Config
    text,       \* text[a]: what it has read, or has to write
    pos,        \* pos[a]: where it is in the file
    edits,      \* editions so far
    saves,      \* history: the configurations saved in whole
    last,       \* history: the last of them
    owner,      \* history: who has emptied the file last, "several" when others
                \* have written into it since, "nobody" at first
    torn,       \* history: those under whose reading the file has been emptied
    quiet,      \* history: no save is under way, was broken off or came across
                \* another
    added       \* history: nodes whose tool has reported success

vars == <<file, at, cfg, text, pos, edits, saves, last, owner, torn, quiet, added>>

ConfigInit ==
    /\ file \in Initial
    /\ at = [a \in Actors |-> "idle"] /\ cfg = [a \in Actors |-> Default]
    /\ text = [a \in Actors |-> <<>>] /\ pos = [a \in Actors |-> 0]
    /\ edits = 0 /\ quiet = (file # Missing)
    /\ saves = IF file = Missing THEN {} ELSE {ConfigOf(file)}
    /\ last = ConfigOf(file) /\ added = {} /\ owner = "nobody" /\ torn = {}

-----------------------------------------------------------------------------
(* load_from_file.                                                         *)

Goes(a, p) == at' = [at EXCEPT ![a] = p]

\* The file is there, or its default is made.
Opens(a) ==
    /\ at[a] \in {"idle", "down"} /\ (a \in Tools => edits < MaxEdits)
    /\ \/ file # Missing /\ Goes(a, "reading") /\ UNCHANGED cfg
       \/ /\ file = Missing \/ MayFail
          /\ Goes(a, "create") /\ cfg' = [cfg EXCEPT ![a] = Default]
    /\ text' = [text EXCEPT ![a] = <<>>] /\ pos' = [pos EXCEPT ![a] = 0]
    /\ UNCHANGED <<file, edits, saves, last, owner, torn, quiet, added>>

\* A loaded configuration is used by the proxy, edited by a tool.
Loaded(a) == IF a = Server THEN "idle" ELSE "edit"

\* The next block; after the last the text is parsed.
Reads(a) ==
    /\ at[a] = "reading" /\ file # Missing
    /\ LET block == SubSeq(file, pos[a] + 1, pos[a] + ReadBlock)
           whole == text[a] \o SubSeq(file, pos[a] + 1, Len(file)) IN
       IF pos[a] + ReadBlock < Len(file)
       THEN /\ text' = [text EXCEPT ![a] = @ \o block]
            /\ pos' = [pos EXCEPT ![a] = @ + ReadBlock]
            /\ UNCHANGED <<at, cfg, torn>>
       ELSE /\ cfg' = [cfg EXCEPT ![a] = ConfigOf(whole)]
            /\ text' = [text EXCEPT ![a] = <<>>] /\ pos' = [pos EXCEPT ![a] = 0]
            /\ Goes(a, Loaded(a)) /\ torn' = torn \ {a}
    /\ UNCHANGED <<file, edits, saves, last, owner, quiet, added>>

-----------------------------------------------------------------------------
(* The tools' commands.                                                    *)

Edit(c, e) ==
    CASE e = "add-node" -> {[c EXCEPT !.nodes = Append(@, n)] : n \in Names}
      [] e = "set-port" -> {[c EXCEPT !.port = p] : p \in Ports}
      [] e = "kill-switch" -> {[c EXCEPT !.kill = ~@]}

Edits(a) ==
    /\ at[a] = "edit" /\ edits < MaxEdits
    /\ \E e \in Users : \E c \in Edit(cfg[a], e) \cap Configs : cfg' = [cfg EXCEPT ![a] = c]
    /\ edits' = edits + 1 /\ Goes(a, "save")
    /\ UNCHANGED <<file, text, pos, saves, last, owner, torn, quiet, added>>

\* "Exit without saving", the end of the input, a node that cannot be parsed.
GivesUp(a) ==
    /\ at[a] \in {"edit", "save"} /\ Goes(a, "idle")
    /\ UNCHANGED <<file, cfg, text, pos, edits, saves, last, owner, torn, quiet, added>>

-----------------------------------------------------------------------------
(* save_to_file: for a default that is missing, or for an edition.         *)

Writing == {"creating", "saving"}

\* Mutant: the file keeps what it has, and is written over.
WritesOver(a) ==
    /\ at[a] \in {"create", "save"}
    /\ file' = (IF file = Missing THEN <<>> ELSE file) /\ quiet' = FALSE /\ owner' = a
    /\ torn' = {b \in Actors : at[b] = "reading"}
    /\ text' = [text EXCEPT ![a] = TextOf(cfg[a])] /\ pos' = [pos EXCEPT ![a] = 0]
    /\ Goes(a, IF at[a] = "create" THEN "creating" ELSE "saving")
    /\ UNCHANGED <<cfg, edits, saves, last, added>>

\* The stream empties the file when it opens it, whoever is reading or writing.
Truncates(a) ==
    /\ at[a] \in {"create", "save"}
    /\ file' = <<>> /\ quiet' = FALSE /\ owner' = a
    /\ torn' = {b \in Actors : at[b] = "reading"}
    /\ text' = [text EXCEPT ![a] = TextOf(cfg[a])] /\ pos' = [pos EXCEPT ![a] = 0]
    /\ Goes(a, IF at[a] = "create" THEN "creating" ELSE "saving")
    /\ UNCHANGED <<cfg, edits, saves, last, added>>

NodesOf(c) == {c.nodes[i] : i \in DOMAIN c.nodes}
Reports(a) == added' = added \cup NodesOf(cfg[a])

\* It cannot be opened for writing; a tool does not look at the result.
TruncateFails(a) ==
    /\ at[a] \in {"create", "save"} /\ MayFail
    /\ Goes(a, IF at[a] = "create" THEN Loaded(a) ELSE "idle")
    /\ IF at[a] = "save" THEN Reports(a) ELSE UNCHANGED added
    /\ UNCHANGED <<file, cfg, text, pos, edits, saves, last, owner, torn, quiet>>

\* A block put at the position of the stream; what another process has cut off
\* before it reads as zeros.
Put(f, p, block) ==
    [i \in 1..(IF p + Len(block) > Len(f) THEN p + Len(block) ELSE Len(f)) |->
        IF i > p /\ i <= p + Len(block) THEN block[i - p]
        ELSE IF i <= Len(f) THEN f[i] ELSE "zero"]

\* The next block; with the last the file is closed.
Writes(a) ==
    /\ at[a] \in Writing
    /\ LET block == SubSeq(text[a], pos[a] + 1,
                           IF pos[a] + WriteBlock < Len(text[a]) THEN pos[a] + WriteBlock
                           ELSE Len(text[a])) IN
       /\ file' = Put(file, pos[a], block)
       /\ owner' = IF owner = a THEN a ELSE "several"
       /\ IF pos[a] + WriteBlock < Len(text[a])
          THEN /\ pos' = [pos EXCEPT ![a] = @ + WriteBlock]
               /\ UNCHANGED <<at, text, saves, last, quiet, added>>
          ELSE /\ text' = [text EXCEPT ![a] = <<>>] /\ pos' = [pos EXCEPT ![a] = 0]
               /\ Goes(a, IF at[a] = "creating" THEN Loaded(a) ELSE "idle")
               /\ saves' = saves \cup {cfg[a]} /\ last' = cfg[a]
               /\ quiet' = (owner = a /\ \A b \in Actors \ {a} : at[b] \notin Writing)
               /\ IF at[a] = "saving" THEN Reports(a) ELSE UNCHANGED added
    /\ UNCHANGED <<cfg, edits, torn>>

\* The process ends, or the machine does, wherever it is.
Crash(a) ==
    /\ MayCrash /\ at[a] \notin {"idle", "down"} /\ Goes(a, "down")
    /\ text' = [text EXCEPT ![a] = <<>>] /\ pos' = [pos EXCEPT ![a] = 0]
    /\ torn' = torn \ {a}
    /\ UNCHANGED <<file, cfg, edits, saves, last, owner, quiet, added>>

ConfigNext ==
    \E a \in Actors :
        \/ Opens(a) \/ Reads(a) \/ Truncates(a) \/ TruncateFails(a) \/ Writes(a)
        \/ Crash(a)
        \/ a \in Tools /\ (Edits(a) \/ GivesUp(a))

ConfigSpec == ConfigInit /\ [][ConfigNext]_vars

-----------------------------------------------------------------------------
(* Properties.                                                             *)

\* The values the variables may have.
ConfigTypeOK ==
    /\ at \in [Actors -> {"idle", "down", "reading", "create", "creating", "edit",
                          "save", "saving"}]
    /\ file \in Seq(STRING) /\ owner \in Actors \cup {"nobody", "several"}
    /\ \A a \in torn : at[a] = "reading"
    /\ \A c \in {cfg[a] : a \in Actors} \cup saves :
          /\ c.port \in Ports /\ c.kill \in BOOLEAN
          /\ \A n \in NodesOf(c) : n \in Seq(STRING)
    /\ \A a \in Actors : at[a] \in {"idle", "down", "edit"} => text[a] = <<>> /\ pos[a] = 0

\* The configurations whose text gives them back, and of whose text, cut off
\* anywhere, nothing is left but the default.
Whole(c) ==
    LET t == TextOf(c) IN
    /\ t \in Seq(STRING) \ {<<>>} /\ ConfigOf(t) = c
    /\ \A n \in 0..(Len(t) - 1) : ConfigOf(SubSeq(t, 1, n)) = Default
WholeConfigs == UNION {IF Whole(c) THEN {c} ELSE {} : c \in Configs}
TextsAreWhole == Configs \subseteq WholeConfigs

\* What a process writes gives back the configuration it is the text of, and
\* can be cut off anywhere without leaving another one in the file.
WritesWhole == \A a \in Actors : at[a] \in Writing => cfg[a] \in WholeConfigs

Loads(a) == at[a] = "reading" /\ at'[a] = Loaded(a)

\* Whatever of a save the file has when it is loaded, after a crash or with the
\* writer still at work, what is loaded is a configuration that somebody has
\* saved in whole, or the default, unless the file was emptied under the reader
\* or two saves came across each other in it.
SavedOrDefault ==
    [][\A a \in Actors : Loads(a) /\ a \notin torn /\ owner # "several" =>
           cfg'[a] \in saves \cup {Default}]_vars

\* A file that nobody is writing, nor has emptied since the load began, gives
\* back what was saved last, whatever characters its strings have.
LoadsWhatWasSaved ==
    [][\A a \in Actors : Loads(a) /\ a \notin torn /\ quiet => cfg'[a] = last]_vars

\* What is loaded is never made of parts of two saves.
LoadsNeverMix ==
    [][\A a \in Actors : Loads(a) => cfg'[a] \in saves \cup {Default}]_vars

\* A node that a tool has reported as added is in the file when nobody writes.
AddedStays ==
    (\A a \in Actors : at[a] \in {"idle", "down"}) => added \subseteq NodesOf(ConfigOf(file))

\* A proxy whose kill switch is on does not lose it by loading a file in which
\* nobody has turned it off.
KillSwitchLoads == [][cfg[Server].kill => cfg'[Server].kill]_vars
=============================================================================
