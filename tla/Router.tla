-------------------------------- MODULE Router --------------------------------
(***************************************************************************)
(* The smart router (src/router.cpp): the lines of a configuration become  *)
(* rules, and a host is routed by the first rule that matches it.  The     *)
(* check that `doctor` makes of the same lines (src/doctor.cpp) is here    *)
(* too, to be compared with what load_rules makes of them.                 *)
(*                                                                         *)
(* A line is the sequence of its comma-separated fields, a field a         *)
(* sequence of symbols: letters, "." and " ", or whole words (a keyword,   *)
(* an IPv4 address, a number).  An address is the set of its one bits, and *)
(* has Width bits instead of 32.                                           *)
(***************************************************************************)
EXTENDS Integers, Sequences, SequencesExt

CONSTANTS
    Lines,      \* the lines a configuration may hold
    MaxLines,   \* bound: lines of a configuration
    Hosts,      \* the hosts clients ask for
    Width,      \* bits of an address
    LowerOf,    \* LowerOf[s]: the lower case of a symbol that has one
    AddressOf,  \* AddressOf[s]: the value of a symbol that is an address
    NumberOf    \* NumberOf[s]: the value of a symbol that is a number

Types   == {"DOMAIN-SUFFIX", "DOMAIN-KEYWORD", "DOMAIN", "IP-CIDR", "FINAL"}
Actions == {"DIRECT", "PROXY", "REJECT"}
Bits    == 0..(Width - 1)

\* The words of a rule are written in upper case, so are no symbol's lower case.
ASSUME RouterAssumption ==
    /\ Width \in Nat \ {0} /\ MaxLines \in Nat
    /\ Lines \subseteq Seq(Seq(STRING)) /\ Hosts \subseteq Seq(STRING)
    /\ \A s \in DOMAIN LowerOf :
          LowerOf[s] \in STRING \ (Types \cup Actions \cup {"MATCH", "BLOCK"})
    /\ \A s \in DOMAIN AddressOf : AddressOf[s] \subseteq Bits
    /\ \A s \in DOMAIN NumberOf : NumberOf[s] \in Int

VARIABLES
    lines,      \* the lines being loaded, or loaded last
    next,       \* load_rules: the next line; past the end, it has returned
    rules,      \* Router::rules
    policy,     \* Router::default_policy
    crashed,    \* an exception has left load_rules
    asked       \* the last match: [host, answer]

routerVars == <<lines, next, rules, policy, crashed, asked>>

-----------------------------------------------------------------------------
(* Text.                                                                   *)

Lower(s) == [i \in DOMAIN s |-> IF s[i] \in DOMAIN LowerOf THEN LowerOf[s[i]]
                                ELSE s[i]]
UpperOf(c) == IF \E u \in DOMAIN LowerOf : LowerOf[u] = c
              THEN CHOOSE u \in DOMAIN LowerOf : LowerOf[u] = c ELSE c
Upper(s) == [i \in DOMAIN s |-> UpperOf(s[i])]

\* The text between the first and the last symbol that is no blank.
Blank == " "
Trim(s) ==
    LET inked == {i \in DOMAIN s : s[i] # Blank}
    IN  IF inked = {} THEN <<>> ELSE SubSeq(s, Min(inked), Max(inked))

\* Fields that are all blank are dropped, and the later ones move up.
Pushed(line) ==
    LET tokens[i \in 0..Len(line)] ==
            IF i = 0 THEN <<>>
            ELSE tokens[i - 1] \o (IF Trim(line[i]) = <<>> THEN <<>> ELSE <<Trim(line[i])>>)
    IN  tokens
Tokens(line) == Pushed(line)[Len(line)]

StringToAction(s) ==
    CASE Upper(s) = <<"DIRECT">> -> "DIRECT"
      [] Upper(s) \in {<<"REJECT">>, <<"BLOCK">>} -> "REJECT"
      [] OTHER -> "PROXY"

-----------------------------------------------------------------------------
(* Addresses.                                                              *)

IsIPv4(s) == Len(s) = 1 /\ s[1] \in DOMAIN AddressOf

\* All ones, shifted to the left; what goes beyond the width is lost.
Mask(n) == IF n = 0 THEN {} ELSE {b + (Width - n) : b \in Bits} \cap Bits

\* Mutant: the base keeps the bits its mask does not have.
BlockUnmasked(a, n) == [is |-> "block", base |-> a, mask |-> Mask(n)]

Block(a, n) == [is |-> "block", base |-> a \cap Mask(n), mask |-> Mask(n)]

\* std::stoi throws when its text does not start with a number.
ParseCidr(s) ==
    LET slash == {i \in DOMAIN s : s[i] = "/"}
        ip == IF slash = {} THEN s ELSE SubSeq(s, 1, Min(slash) - 1)
        prefix == SubSeq(s, Min(slash) + 1, Len(s))
        a == AddressOf[ip[1]]
        n == NumberOf[prefix[1]]
    IN  CASE ~IsIPv4(ip) -> [is |-> "invalid"]
          [] IsIPv4(ip) /\ slash = {} -> Block(a, Width)
          [] OTHER ->
                IF prefix = <<>> \/ prefix[1] \notin DOMAIN NumberOf
                THEN [is |-> "exception"]
                ELSE IF n \in 0..Width THEN Block(a, n) ELSE [is |-> "invalid"]

IpInCidr(a, r) == a \cap r.mask = r.base

-----------------------------------------------------------------------------
(* load_rules.                                                             *)

\* The rules a line adds: none, one, or an exception.
NoRule == [rules |-> <<>>, throws |-> FALSE]
RuleOf(type, pattern, action, cidr) ==
    [type |-> type, pattern |-> pattern, action |-> StringToAction(action),
     base |-> cidr.base, mask |-> cidr.mask]
OneRule(type, pattern, action) ==
    [rules |-> <<RuleOf(type, pattern, action, [base |-> {}, mask |-> {}])>>,
     throws |-> FALSE]

CidrRule(pattern, action) ==
    LET c == ParseCidr(pattern)
    IN  CASE c.is = "block" ->
                [rules |-> <<RuleOf("IP-CIDR", pattern, action, c)>>,
                 throws |-> FALSE]
          [] c.is = "invalid" -> NoRule
          [] c.is = "exception" -> [rules |-> <<>>, throws |-> TRUE]

CommentMarks == {"#", ";"}
Comment(line) == line[1] # <<>> /\ line[1][1] \in CommentMarks

\* Mutant: a final rule needs three fields, like the others.
RulesOfThreeFields(line) ==
    LET t == Tokens(line) IN
    IF Comment(line) \/ Len(t) < 3 THEN NoRule
    ELSE LET type == Upper(t[1])[1] IN
         CASE type \in {"DOMAIN-SUFFIX", "DOMAIN-KEYWORD", "DOMAIN"} ->
                 OneRule(type, Lower(t[2]), t[3])
           [] type = "IP-CIDR" -> CidrRule(t[2], t[3])
           [] type \in {"FINAL", "MATCH"} -> OneRule("FINAL", <<"MATCH">>, t[2])
           [] OTHER -> NoRule

RulesOf(line) ==
    LET t == Tokens(line) IN
    IF Comment(line) \/ Len(t) < 2 THEN NoRule
    ELSE LET type == Upper(t[1])[1]
             full == Len(t) >= 3 IN
         CASE type \in {"DOMAIN-SUFFIX", "DOMAIN-KEYWORD", "DOMAIN"} /\ full ->
                 OneRule(type, Lower(t[2]), t[3])
           [] type = "IP-CIDR" /\ full -> CidrRule(t[2], t[3])
           [] type \in {"FINAL", "MATCH"} -> OneRule("FINAL", <<"MATCH">>, t[2])
           [] OTHER -> NoRule

NotAsked == [host |-> <<>>, answer |-> "none"]
Loaded == next > Len(lines) /\ ~crashed

RouterInit ==
    /\ lines = <<>> /\ next = 1 /\ rules = <<>> /\ policy = "PROXY"
    /\ crashed = FALSE /\ asked = NotAsked

\* setup_pool passes DIRECT or PROXY.
LoadBegin(ls, d) ==
    /\ Loaded
    /\ lines' = ls /\ next' = 1 /\ rules' = <<>> /\ policy' = d
    /\ asked' = NotAsked
    /\ UNCHANGED crashed

LoadLine ==
    /\ ~Loaded /\ ~crashed
    /\ LET added == RulesOf(lines[next]) IN
          /\ rules' = rules \o added.rules
          /\ crashed' = added.throws
    /\ next' = next + 1
    /\ UNCHANGED <<lines, policy, asked>>

-----------------------------------------------------------------------------
(* match.                                                                  *)

Occurs(s, sub) ==
    {i \in 1..(Len(s) - Len(sub) + 1) : SubSeq(s, i, i + Len(sub) - 1) = sub}

\* Mutant: the suffix need not start at a label.
HasSuffixAnywhere(h, p) ==
    h = p \/ (Len(h) > Len(p) /\ Len(h) - Len(p) + 1 \in Occurs(h, p))

\* rfind("." + p), the last occurrence, is where the suffix would be.
HasSuffix(h, p) ==
    \/ h = p
    \/ LET at == Occurs(h, <<".">> \o p) IN
       Len(h) > Len(p) /\ at # {} /\ Max(at) = Len(h) - Len(p)

Matches(r, host) ==
    LET h == Lower(host) IN
    CASE r.type = "DOMAIN-SUFFIX"  -> HasSuffix(h, r.pattern)
      [] r.type = "DOMAIN-KEYWORD" -> Occurs(h, r.pattern) # {}
      [] r.type = "DOMAIN"         -> h = r.pattern
      [] r.type = "IP-CIDR" -> IsIPv4(host) /\ IpInCidr(AddressOf[host[1]], r)
      [] r.type = "FINAL"          -> TRUE

\* The loop returns at the first rule that matches.
Match(host) ==
    /\ Loaded
    /\ LET i == SelectInSeq(rules, LAMBDA r : Matches(r, host)) IN
       asked' = [host |-> host,
                 answer |-> IF i = 0 THEN policy ELSE rules[i].action]
    /\ UNCHANGED <<lines, next, rules, policy, crashed>>

RouterNext ==
    \/ \E n \in 0..MaxLines : \E ls \in [1..n -> Lines], d \in {"DIRECT", "PROXY"} :
          LoadBegin(ls, d)
    \/ LoadLine
    \/ \E h \in Hosts : Match(h)

RouterSpec == RouterInit /\ [][RouterNext]_routerVars

-----------------------------------------------------------------------------
(* doctor's check of a line, on its fields as they are written.            *)

Field(line, k) == IF k <= Len(line) THEN line[k] ELSE <<>>
Named == {<<a>> : a \in Actions}

DoctorValid(line) ==
    IF Field(line, 1) = <<"FINAL">> THEN Field(line, 2) \in Named
    ELSE /\ Field(line, 1) \in {<<t>> : t \in Types}
         /\ Field(line, 2) # <<>> /\ Field(line, 3) \in Named

-----------------------------------------------------------------------------
(* Properties.                                                             *)

\* Every variable has its type; no pattern is blank, a block's base has no bit
\* outside its mask, and a mask is some ones and then zeros.
RouterTypeOK ==
    /\ Len(lines) <= MaxLines /\ next \in 1..(Len(lines) + 1)
    /\ policy \in Actions /\ crashed \in BOOLEAN
    /\ asked.answer \in Actions \cup {"none"}
    /\ \A i \in DOMAIN rules :
          /\ rules[i].type \in Types /\ rules[i].action \in Actions
          /\ rules[i].pattern # <<>>
          /\ \E k \in 0..Width : rules[i].mask = k..(Width - 1)
          /\ rules[i].base \subseteq rules[i].mask

\* A line that doctor passes, whose pattern is not blank and, for IP-CIDR, is
\* a block.
BlockOf(line) == ParseCidr(Trim(line[2]))
Sound(line) ==
    /\ DoctorValid(line)
    /\ line[1] # <<"FINAL">> => Trim(line[2]) # <<>>
    /\ line[1] = <<"IP-CIDR">> => BlockOf(line).is = "block"

\* What src/src/cli.cpp:119-123 says of each type: the exact domain and all its
\* subdomains, a substring anywhere, the exact name, the subnet (the addresses
\* with the same leading bits), anything.
Documented(line, host) ==
    LET h == Lower(host)
        cidr == Trim(line[2])
        p == Lower(cidr)
        slash == SelectInSeq(cidr, LAMBDA c : c = "/")
        leading == IF slash = 0 THEN Width ELSE NumberOf[cidr[slash + 1]]
    IN  CASE line[1] = <<"DOMAIN-SUFFIX">> ->
                \/ h = p
                \/ \E i \in DOMAIN h : h[i] = "." /\ SubSeq(h, i + 1, Len(h)) = p
          [] line[1] = <<"DOMAIN-KEYWORD">> ->
                \E i, j \in DOMAIN h : SubSeq(h, i, j) = p
          [] line[1] = <<"DOMAIN">> -> h = p
          [] line[1] = <<"IP-CIDR">> ->
                /\ IsIPv4(host)
                /\ \A b \in Bits : b >= Width - leading =>
                      (b \in AddressOf[host[1]] <=> b \in AddressOf[cidr[1]])
          [] line[1] = <<"FINAL">> -> TRUE

\* The action a sound line names.
Written(line) == line[IF line[1] = <<"FINAL">> THEN 2 ELSE 3]

\* For a configuration of sound lines, the answer is what the documentation
\* says: the action written in the first line whose description fits the host,
\* and the default when there is none.
AnswerAsDocumented ==
    asked # NotAsked /\ (\A i \in DOMAIN lines : Sound(lines[i])) =>
       LET i == SelectInSeq(lines, LAMBDA l : Documented(l, asked.host)) IN
       <<asked.answer>> = IF i = 0 THEN <<policy>> ELSE Written(lines[i])

\* The rules are made of the lines that give one, in their order, and whatever
\* other lines a configuration holds, every sound line of it is among them with
\* the type and the action it names.
SoundLinesLoad ==
    Loaded =>
       LET giving == {i \in DOMAIN lines : RulesOf(lines[i]).rules # <<>>} IN
       \E at \in [giving -> DOMAIN rules] :
          /\ \A i, j \in giving : i < j => at[i] < at[j]
          /\ \A k \in DOMAIN rules : \E i \in giving : at[i] = k
          /\ \A i \in DOMAIN lines : Sound(lines[i]) =>
                /\ i \in giving
                /\ lines[i][1] = <<rules[at[i]].type>>
                /\ Written(lines[i]) = <<rules[at[i]].action>>

\* src/src/doctor.cpp:229: "All " + n + " rules are syntactically valid": every
\* line doctor passes becomes a rule.
DoctorValidLoads ==
    Loaded /\ (\A i \in DOMAIN lines : DoctorValid(lines[i])) =>
       Len(rules) = Len(lines)

\* No line a configuration may hold ends the process.
LoadReturns == ~crashed
=============================================================================
