------------------------------ MODULE ConfigParse ------------------------------
(***************************************************************************)
(* src/paramiko/config.py SSHConfig.parse: the ssh_config reader that      *)
(* splits a file into sections.  One step is one pass of the for loop of   *)
(* parse.  A line is blank, a comment, or words: a keyword, the separator  *)
(* after it (a space or "=") and a value or none.  Keywords are lowercase  *)
(* here; line.lower() and key.lower() make the case of the file            *)
(* irrelevant to every test parse makes.  _get_hosts and _get_matches have *)
(* empty bodies in this tree and return None, as does _expand_variables,   *)
(* and SSHConfig has no _host_match, which lookup calls.                   *)
(***************************************************************************)
EXTENDS Integers, Sequences, SequencesExt

CONSTANTS
    Files,      \* the files parsed: sequences of lines
    NoValue     \* a line with a keyword only

VARIABLES
    lines,      \* the file
    i,          \* the next line of the for loop
    config,     \* self._config
    host,       \* the local host, the section being filled
    stage,      \* "start", "parse", "done", "error" (AttributeError)
    looked      \* what lookup raised: "none" (not called yet) or the exception

vars == <<lines, i, config, host, stage, looked>>

\* A section: host is ['*'] ("star") or the None of _get_hosts ("none");
\* match is whether a "match" key exists; cfg maps keys to values.
NoConfig == [k \in {} |-> NoValue]
DefaultSection == [host |-> "star", match |-> FALSE, cfg |-> NoConfig]

\* line.lower().startswith('host ') and ('match '), lines 98 and 101: the
\* keyword followed by a space and more words.
IsHost(l) == l.t = "words" /\ l.kw = "host" /\ l.sep = " " /\ l.val # NoValue
IsMatch(l) == l.t = "words" /\ l.kw = "match" /\ l.sep = " " /\ l.val # NoValue

\* SETTINGS_REGEX.match(line), lines 31 and 105: a word, then "=" or
\* spaces, then at least one character; None for a lone keyword.
SettingsMatches(l) == l.val # NoValue

-----------------------------------------------------------------------------

\* SSHConfig.__init__, line 53.
Init ==
    /\ lines = <<>> /\ i = 1
    /\ config = <<>>
    /\ host = DefaultSection
    /\ stage = "start"
    /\ looked = "none"

\* from_file(flo), lines 77-85: a new SSHConfig whose parse is entered,
\* line 93, with the default section.
Start(f) ==
    /\ stage = "start"
    /\ lines' = f /\ i' = 1
    /\ host' = DefaultSection
    /\ stage' = "parse"
    /\ UNCHANGED <<config, looked>>

\* One pass of the for loop, lines 94-106: a Host or Match line closes the
\* section and opens the next; any other line must match SETTINGS_REGEX,
\* or .groups() on None raises AttributeError out of parse; the setting
\* is stored under its lowercase key, replacing an earlier one.
ParseLine ==
    /\ stage = "parse"
    /\ i <= Len(lines)
    /\ LET l == lines[i] IN
       CASE l.t # "words" ->
              /\ i' = i + 1
              /\ UNCHANGED <<config, host, stage>>
         [] IsHost(l) ->
              /\ config' = Append(config, host)
              /\ host' = [host |-> "none", match |-> FALSE, cfg |-> NoConfig]
              /\ i' = i + 1
              /\ UNCHANGED stage
         [] IsMatch(l) ->
              /\ config' = Append(config, host)
              /\ host' = [host |-> "star", match |-> TRUE, cfg |-> NoConfig]
              /\ i' = i + 1
              /\ UNCHANGED stage
         [] ~SettingsMatches(l) ->
              /\ stage' = "error"
              /\ UNCHANGED <<config, host, i>>
         [] OTHER ->
              /\ host' = [host EXCEPT !.cfg = (l.kw :> l.val) @@ host.cfg]
              /\ i' = i + 1
              /\ UNCHANGED <<config, stage>>
    /\ UNCHANGED <<lines, looked>>

\* The end of parse that forgets the last section.
FinishNoAppend ==
    /\ stage = "parse"
    /\ i > Len(lines)
    /\ stage' = "done"
    /\ UNCHANGED <<lines, i, config, host, looked>>

\* The end of the file, line 107: the last section is appended.
Finish ==
    /\ stage = "parse"
    /\ i > Len(lines)
    /\ config' = Append(config, host)
    /\ stage' = "done"
    /\ UNCHANGED <<lines, i, host, looked>>

\* lookup(hostname), lines 149-159, before parse or after it returned or
\* raised: the list comprehension calls the missing self._host_match on
\* the first section, AttributeError; with no section, ret stays empty,
\* _expand_variables returns None and "'hostname' not in None" raises
\* TypeError.  The hostname does not change the outcome.
Lookup ==
    /\ stage \in {"start", "done", "error"}
    /\ looked = "none"
    /\ looked' = IF config = <<>> THEN "TypeError" ELSE "AttributeError"
    /\ UNCHANGED <<lines, i, config, host, stage>>

Done == stage \in {"done", "error"} /\ UNCHANGED vars

Next ==
    \/ \E f \in Files : Start(f)
    \/ ParseLine
    \/ Finish
    \/ Lookup
    \/ Done

Spec == Init /\ [][Next]_vars

-----------------------------------------------------------------------------
(* The sections of a file, read off the lines: section 1 starts before    *)
(* line 1, and one more starts at each Host or Match line.                *)

IsHeader(l) == IsHost(l) \/ IsMatch(l)

\* The lines opening sections among the first k, with 0 for the default.
Starts(ls, k) == <<0>> \o SetToSortSeq({j \in 1..k : IsHeader(ls[j])}, <)

\* The lines of section s among the first k.
Span(ls, k, s) ==
    LET st == Starts(ls, k) IN
    (st[s] + 1)..(IF s < Len(st) THEN st[s + 1] - 1 ELSE k)

\* The section s of the first k lines holds exactly the keys set in it,
\* each with a value one of its lines gave that key, and the host and
\* match of its opening line.
SectionOf(ls, k, s, sec) ==
    LET st == Starts(ls, k)
        sets == {j \in Span(ls, k, s) : ls[j].t = "words"}
    IN  /\ DOMAIN sec.cfg = {ls[j].kw : j \in sets}
        /\ \A key \in DOMAIN sec.cfg :
              \E j \in sets : ls[j].kw = key /\ ls[j].val = sec.cfg[key]
        /\ sec.host = IF st[s] > 0 /\ IsHost(ls[st[s]]) THEN "none" ELSE "star"
        /\ sec.match = (st[s] > 0 /\ IsMatch(ls[st[s]]))

TypeOK ==
    /\ stage \in {"start", "parse", "done", "error"}
    /\ i \in 1..(Len(lines) + 1)
    /\ looked \in {"none", "AttributeError", "TypeError"}

\* The docstring of parse (read the config into sections, each Host or
\* Match line starting one): _config holds every section closed so far,
\* in file order, with the keys and values its lines set, and host the one
\* being filled; when parse returns, every section is in _config, and when
\* it raises, the sections before the bad line are.
ParseSections ==
    stage # "start" =>
        LET k == i - 1
            st == Starts(lines, k)
            closed == IF stage = "done" THEN Len(st) ELSE Len(st) - 1
        IN  /\ Len(config) = closed
            /\ \A s \in 1..closed : SectionOf(lines, k, s, config[s])
            /\ stage # "done" => SectionOf(lines, k, Len(st), host)

====
