---------------------------- MODULE SettingsFile ----------------------------
(***************************************************************************)
(* What the settings mean in each of the two files that hold them: the     *)
(* installer's .env (thebe/settings.py, and the installer's own reading of *)
(* it) and config.yaml (thebe/config.py).  A line of the .env is a record  *)
(* of what the parser tells apart, a value of config.yaml a node with its  *)
(* YAML type; spellings are a few that the conversions treat differently.  *)
(***************************************************************************)
EXTENDS Naturals, SequencesExt

DEFAULTS ==
    [JUPYTER_PASSWORD |-> "default", JUPYTER_PORT |-> "8888", STATS_ENABLED |-> "1",
     STATS_PORT |-> "8889", HTTPS |-> "auto"]

Known == DOMAIN DEFAULTS
Ports == {"JUPYTER_PORT", "STATS_PORT"}

----------------------------------------------------------------------------
(* Spellings                                                               *)

\* str.strip() of a port typed with white space around it.
Strip(v) == IF v \in {"8888 ", "8888\t"} THEN "8888" ELSE v

IsPort(v)    == v \in {"8888", "8889", "9000"}     \* _PORT_TEXT, 1024 to 65535
CheckPort(v) == IsPort(Strip(v))

HasControl(v) == v = "8888\t"

NormalizeBool(v) ==
    CASE v \in {"1", "true"} -> "1" [] v \in {"0", "off"} -> "0" [] OTHER -> ""

HttpsModes == {"auto", "off"}

\* validate_settings.
Valid(s) ==
    /\ s.JUPYTER_PASSWORD # "short"
    /\ \A k \in Ports : CheckPort(s[k])
    /\ Strip(s.JUPYTER_PORT) # Strip(s.STATS_PORT)
    /\ NormalizeBool(s.STATS_ENABLED) # ""
    /\ s.HTTPS \in HttpsModes

----------------------------------------------------------------------------
(* The .env                                                                *)

Comment           == [shape |-> "comment", key |-> "", value |-> ""]
Junk              == [shape |-> "junk", key |-> "", value |-> ""]
Assign(k, v)      == [shape |-> "assign", key |-> k, value |-> v]
OpenQuote(k)      == [shape |-> "open", key |-> k, value |-> ""]

\* Any text; the literals are named because the provers do not know that they are strings.
AnyText  == STRING \cup Known \cup {DEFAULTS[k] : k \in Known} \cup {"", "0", "1", "off"}
Line     == [shape : {"comment", "junk", "assign", "open"}, key : AnyText, value : AnyText]
Settings == [Known -> AnyText]

\* _parse_line: the key also of a line whose value has no closing quote.
ParseLine(l) == [key |-> l.key, value |-> l.value, problem |-> l.shape \in {"junk", "open"}]

\* parse_settings over the given defaults: a later duplicate wins.
ParseSettings(lines, defaults) ==
    [k \in Known |->
        LET says == {i \in DOMAIN lines : ParseLine(lines[i]).key = k /\ ~ParseLine(lines[i]).problem}
        IN IF says = {} THEN defaults[k] ELSE lines[Max(says)].value]

LineProblems(lines) == {i \in DOMAIN lines : ParseLine(lines[i]).problem}

\* render_settings: known keys in place, every other line kept, missing keys appended.
Appended(lines, values) ==
    LET One(k) == IF \A i \in DOMAIN lines : lines[i].key # k THEN <<Assign(k, values[k])>> ELSE <<>>
    IN  One("JUPYTER_PASSWORD") \o One("JUPYTER_PORT") \o One("STATS_ENABLED")
            \o One("STATS_PORT") \o One("HTTPS")
MutantRenderSettings(lines, values) ==   \* a key's first line alone is rewritten
    [i \in DOMAIN lines |->
        IF lines[i].key \in Known /\ \A j \in 1..i - 1 : lines[j].key # lines[i].key
        THEN Assign(lines[i].key, values[lines[i].key]) ELSE lines[i]]
    \o Appended(lines, values)
RenderSettings(lines, values) ==
    [i \in DOMAIN lines |->
        IF lines[i].key \in Known THEN Assign(lines[i].key, values[lines[i].key]) ELSE lines[i]]
    \o Appended(lines, values)

\* load_settings_file: what cannot be read or used falls back to a default.
LoadSettingsFile(env) ==
    IF env.state \in {"unreadable", "latin1"} THEN DEFAULTS
    ELSE LET s == ParseSettings(env.lines, DEFAULTS) IN
         [k \in Known |->
             CASE k \in Ports           -> IF CheckPort(s[k]) THEN s[k] ELSE DEFAULTS[k]
               [] k = "STATS_ENABLED"   -> IF NormalizeBool(s[k]) # "" THEN NormalizeBool(s[k]) ELSE "0"
               [] OTHER                 -> s[k]]

\* The installer's read_env_file and load_settings: the same lines, but a port is a
\* port without white space.
InstallerValues(lines) ==
    LET s == ParseSettings(lines, DEFAULTS)
    IN  [s EXCEPT !.STATS_ENABLED = NormalizeBool(@)]
InstallerAccepts(lines) ==
    LET s == ParseSettings(lines, DEFAULTS) IN
    LineProblems(lines) = {} /\ Valid(s) /\ \A k \in Ports : IsPort(s[k])

----------------------------------------------------------------------------
(* config.yaml                                                             *)

Node(type, v) == [type |-> type, v |-> v]
Null == Node("null", "")

Nodes    == [type : {"null", "str", "int", "bool"}, v : AnyText]

\* The converters of SETTING_FIELDS: text only for a password, a bare "off" is YAML's false.
Converts(k, n) ==
    CASE k = "JUPYTER_PASSWORD" -> n.type = "str"
      [] k \in Ports            -> n.type \in {"str", "int"} /\ CheckPort(n.v)
      [] k = "STATS_ENABLED"    -> NormalizeBool(n.v) # ""
      [] k = "HTTPS"            -> n = Node("bool", "0") \/ (n.type = "str" /\ n.v \in HttpsModes)
Convert(k, n) ==
    IF k = "STATS_ENABLED" THEN NormalizeBool(n.v)
    ELSE IF n.type = "bool" THEN "off" ELSE n.v

\* parse_config: a missing entry, or one with a problem, keeps the default.
ConfigProblems(c) ==
    {k \in Known : c.nodes[k] # Null /\ ~Converts(k, c.nodes[k])}
        \cup (IF c.imports = "unparsable" THEN {"import_dirs"} ELSE {})
ConfigSettings(c) ==
    [k \in Known |->
        IF c.nodes[k] = Null \/ k \in ConfigProblems(c) THEN DEFAULTS[k] ELSE Convert(k, c.nodes[k])]

IsDigits(v) == v \in {"8888", "8889", "9000", "80"}

\* render_config: strings quoted, digits and switches bare.
RenderConfig(s, imports) ==
    [state |-> "yaml", imports |-> imports,
     nodes |-> [k \in Known |->
         CASE k = "STATS_ENABLED" -> Node("bool", IF s[k] = "1" THEN "1" ELSE "0")
           [] k \in Ports -> Node(IF IsDigits(s[k]) THEN "int" ELSE "str", s[k])
           [] OTHER -> Node("str", s[k])]]
=============================================================================
