----------------------------- MODULE ConfigLoad -----------------------------
(***************************************************************************)
(* BdxInitConfig: how the configuration file is read.  Lines are taken     *)
(* until the first section; then the getter of the section reads on until  *)
(* the next section or the end of the file.  A section without a getter    *)
(* leaves the file where it is.                                            *)
(*                                                                         *)
(* A line is what CConf makes of it: a section, a key with its value, or   *)
(* neither (a remark, a blank line, no '=').  Values are abstract; those   *)
(* of URLS are groups of fields.                                           *)
(***************************************************************************)
EXTENDS Integers, Sequences, FiniteSets, SequencesExt

CONSTANTS
    Lines,      \* the lines a file may have
    MaxLines,   \* bound on the length of a file
    Unset       \* a setting no line has given: whatever the memory held

ASSUME MaxLinesAssumption == MaxLines \in Nat

SectionLine(s) == [kind |-> "section", name |-> s]
KeyLine(k, v) == [kind |-> "key", key |-> k, value |-> v]
OtherLine == [kind |-> "other"]

(* The keys each getter knows. *)
KeysOf ==
    [LOG               |-> {"RANK", "FILE", "PATH", "MAXLINE"},
     TRAFFICHIVELOG    |-> {"PATH", "FILE", "TIME"},
     TRAFFICSTATISTICS |-> {"PATH", "FILE", "TIME", "SSLPATH", "SSLPASSWORD", "APIQPSLIMIT"},
     REDISSERVER       |-> {"IP", "PORT", "IDX", "NUMS"},
     LOCALSERVER       |-> {"IP", "PORT", "IDX", "NUMS"},
     WORKTHREADS       |-> {"NUM"},
     QUERYAPIS         |-> {"URLS"}]

Sections == DOMAIN KeysOf
Settings == UNION {{<<s, k>> : k \in KeysOf[s]} : s \in Sections}
NoSection == ""

VARIABLES
    file,       \* the file, a sequence of lines
    pos,        \* lines read so far
    section,    \* szSection
    conf,       \* the settings
    apis,       \* g_vecUrlAPIS: <<host, parameter>>
    loadPc          \* where BdxInitConfig is

loadVars == <<file, pos, section, conf, apis, loadPc>>

LoadInit ==
    /\ file \in UNION {[1 .. n -> Lines] : n \in 0 .. MaxLines}
    /\ pos = 0
    /\ section = NoSection
    /\ conf = [x \in Settings |-> Unset]
    /\ apis = {}
    /\ loadPc = "first"

Eof == pos = Len(file)
Line == file[pos + 1]

(* The fields of all groups in a row, as the two strtok_r loops count them. *)
Fields(groups) == FlattenSeq(groups)

(* Faulty variant: a group is taken to have four fields. *)
FourUrlEntries(fs) ==
    [n \in 1 .. Len(fs) \div 4 |-> <<fs[4 * n - 3], fs[4 * n - 2]>>]

(* Every fifth field completes an entry of the four before it and itself; the  *)
(* first is the host, the second the parameter.                                *)
UrlEntries(fs) ==
    [n \in 1 .. Len(fs) \div 5 |-> <<fs[5 * n - 4], fs[5 * n - 3]>>]

(* g_vecUrlAPIS[host] = ... for one entry after the other. *)
AddApis(old, new) ==
    LET add[n \in 0 .. Len(new)] ==
            IF n = 0 THEN old ELSE {e \in add[n - 1] : e[1] # new[n][1]} \union {new[n]}
    IN add[Len(new)]

(* A line of URLS completes its last entry.  (The fields of one that does not  *)
(* would be joined with those of the next line, from a buffer that was reused.) *)
ASSUME UrlsAssumption ==
    \A l \in Lines : l.kind = "key" /\ l.key = "URLS" =>
        l.value \in Seq(Seq(STRING)) /\ Len(Fields(l.value)) % 5 = 0

-----------------------------------------------------------------------------
(* The lines before the first section. *)
FirstLine ==
    /\ loadPc = "first"
    /\ \/ Eof /\ loadPc' = "failed" /\ UNCHANGED <<pos, section>>
       \/ /\ ~Eof
          /\ pos' = pos + 1
          /\ IF Line.kind = "section"
             THEN section' = Line.name /\ loadPc' = "test"
             ELSE UNCHANGED <<section, loadPc>>
    /\ UNCHANGED <<file, conf, apis>>

(* while (strlen(szSection) != 0) *)
TestSection ==
    /\ loadPc = "test"
    /\ loadPc' = IF section = NoSection THEN "done" ELSE "dispatch"
    /\ UNCHANGED <<file, pos, section, conf, apis>>

(* The getter of the section is called; without one nothing happens. *)
CallGetter ==
    /\ loadPc = "dispatch"
    /\ loadPc' = IF section \in Sections THEN "get" ELSE "test"
    /\ UNCHANGED <<file, pos, section, conf, apis>>

(* Faulty variant: the line that ends the section is read and forgotten. *)
ForgetfulGetSection ==
    /\ loadPc = "get"
    /\ ~Eof
    /\ Line.kind = "section"
    /\ pos' = pos + 1
    /\ UNCHANGED <<file, section, conf, apis, loadPc>>

(* A getter meets a section: it is the next one. *)
GetSection ==
    /\ loadPc = "get"
    /\ ~Eof
    /\ Line.kind = "section"
    /\ pos' = pos + 1
    /\ section' = Line.name
    /\ loadPc' = "test"
    /\ UNCHANGED <<file, conf, apis>>

(* ... a key: kept if it knows it. *)
GetKey ==
    /\ loadPc = "get"
    /\ ~Eof
    /\ Line.kind = "key"
    /\ pos' = pos + 1
    /\ IF Line.key \in KeysOf[section]
       THEN /\ conf' = [conf EXCEPT ![<<section, Line.key>>] = Line.value]
            /\ apis' = IF Line.key = "URLS"
                       THEN AddApis(apis, UrlEntries(Fields(Line.value)))
                       ELSE apis
       ELSE UNCHANGED <<conf, apis>>
    /\ UNCHANGED <<file, section, loadPc>>

(* ... anything else: skipped. *)
GetOther ==
    /\ loadPc = "get"
    /\ ~Eof
    /\ Line.kind = "other"
    /\ pos' = pos + 1
    /\ UNCHANGED <<file, section, conf, apis, loadPc>>

(* Faulty variant: the getter does not return at the end of the file. *)
EndlessGetEnd ==
    /\ loadPc = "get"
    /\ Eof
    /\ section' = NoSection
    /\ UNCHANGED <<file, pos, conf, apis, loadPc>>

(* Faulty variant: the section is kept at the end of the file. *)
StickyGetEnd ==
    /\ loadPc = "get"
    /\ Eof
    /\ loadPc' = "test"
    /\ UNCHANGED <<file, pos, section, conf, apis>>

(* ... the end of the file: pszSection[0] = 0. *)
GetEnd ==
    /\ loadPc = "get"
    /\ Eof
    /\ section' = NoSection
    /\ loadPc' = "test"
    /\ UNCHANGED <<file, pos, conf, apis>>

LoadNext ==
    \/ FirstLine
    \/ TestSection
    \/ CallGetter
    \/ GetSection
    \/ GetKey
    \/ GetOther
    \/ GetEnd

-----------------------------------------------------------------------------
(* Types of all variables. *)
LoadTypeOK ==
    /\ file \in Seq(Lines)
    /\ pos \in 0 .. Len(file)
    /\ loadPc \in {"first", "test", "dispatch", "get", "done", "failed"}
    /\ (loadPc = "get") => section \in Sections
    /\ DOMAIN conf = Settings

(* The section line i of the file belongs to: the last one before it. *)
SectionAt(i) ==
    LET heads == {j \in 1 .. i : file[j].kind = "section"}
    IN IF heads = {} THEN NoSection
       ELSE file[CHOOSE j \in heads : \A h \in heads : h <= j].name

Giving(s, k) ==
    {i \in DOMAIN file : file[i].kind = "key" /\ file[i].key = k /\ SectionAt(i) = s}

(* When the file was read, every setting has the value of the last line that  *)
(* gives it below a header of its section, and no other line has touched it:  *)
(* no key strays into a neighbouring section, none before the first counts.   *)
SettingsFromFile ==
    loadPc = "done" =>
        \A x \in Settings :
            LET g == Giving(x[1], x[2])
            IN conf[x] = IF g = {} THEN Unset
                         ELSE file[CHOOSE i \in g : \A j \in g : j <= i].value

(* Where the groups of these lines are, line and number, and their order. *)
GroupsIn(given) == UNION {{i} \X DOMAIN file[i].value : i \in given}
GroupAt(p) == file[p[1]].value[p[2]]
Before(p, q) == p[1] < q[1] \/ (p[1] = q[1] /\ p[2] < q[2])

(* Groups of five fields give one entry each, their host and parameter, and   *)
(* of several for one host the last counts: the operator's API is found by    *)
(* that parameter.                                                            *)
ApisFromFile ==
    loadPc = "done" =>
        LET places == GroupsIn(Giving("QUERYAPIS", "URLS"))
            last == {p \in places : \A q \in places : Before(p, q) => GroupAt(q)[1] # GroupAt(p)[1]}
        IN (\A p \in places : Len(GroupAt(p)) = 5) =>
               apis = {<<GroupAt(p)[1], GroupAt(p)[2]>> : p \in last}

(* Both: what the program starts with is what its file says. *)
ConfFromFile == SettingsFromFile /\ ApisFromFile

(* How far BdxInitConfig is: lines that remain, and its place in the loop. *)
Remaining ==
    5 * (Len(file) - pos) +
    CASE loadPc = "first"                             -> 4
      [] loadPc = "test" /\ section # NoSection       -> 4
      [] loadPc = "dispatch"                          -> 3
      [] loadPc = "get"                               -> 2
      [] loadPc = "test" /\ section = NoSection       -> 1
      [] OTHER                                        -> 0

(* "get all parameters", "continue when read [ every time": the loop over the *)
(* sections comes to an end, for each of its steps leaves less to do - as     *)
(* long as the file has no section that lost its getter.                      *)
LoadProgress == [][Remaining' < Remaining]_loadVars

=============================================================================
