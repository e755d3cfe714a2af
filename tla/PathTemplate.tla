---------------------------- MODULE PathTemplate ----------------------------
(***************************************************************************)
(* From a local file to an object key and from the key to tags.  The agent *)
(* matches the file against path_pattern, parses its fields, composes the  *)
(* key from dest_path_template (buildStoragePath in                        *)
(* agent/cmd/agent/main.go, pkg/trollsift) and previews it in a dry run;   *)
(* the control plane parses the key back with the same template            *)
(* (applyPathVarTags in controlplane/internal/indexer).                    *)
(*                                                                         *)
(* A text is a sequence of symbols and a pattern a sequence of items: a    *)
(* literal symbol, a field, or a brace without its partner.  An instant is *)
(* a number of hours, days having DayHours of them, and a time zone an     *)
(* offset; a time format shows the day, the hour or literals.              *)
(***************************************************************************)
EXTENDS Integers, Sequences, FiniteSets

LOCAL INSTANCE FiniteSetsExt
LOCAL INSTANCE SequencesExt

CONSTANTS
    PathRule,    \* rules: [base, resolved, pattern, dest, cron]
    LocalFile,   \* absolute local paths
    Agent,       \* the agent's name, a text
    Instant,     \* the instants at which a file is submitted
    DayHours     \* hours of a day

VARIABLES
    job,      \* the rule, file and instant under study
    stage,    \* how far the upload has come
    fields,   \* field values found for the file
    objKey,   \* the object key, PathRefused or Unset
    preview,  \* what the dry run shows for the file
    tags      \* the values the control plane extracts from the key

pathVars == <<job, stage, fields, objKey, preview, tags>>

Unset == <<"unset">>
PathRefused == <<"refused">>
NoFields == [n \in {} |-> 0]
Digit == <<"0", "1", "2", "3", "4", "5", "6", "7", "8", "9">>
IsDigit(c) == \E i \in 1..10 : Digit[i] = c
DigitOf(n) == Digit[n + 1]
ValueOf(c) == (CHOOSE i \in 1..10 : Digit[i] = c) - 1

\* The three kinds of Value.
S(s) == [kind |-> "str", v |-> s]
I(n) == [kind |-> "int", v |-> n]
T(t) == [kind |-> "time", v |-> t]

Lit(c) == [is |-> "lit", c |-> c]
Field(name, spec) == [is |-> "field", name |-> name, spec |-> spec]

-----------------------------------------------------------------------------
(* Patterns.                                                               *)

\* parseFieldSpec: a zone is accepted on a time field only.
SpecOK(p) == p.zone = 0 \/ p.kind = "time"

\* New: balanced braces, valid specs and no empty time format.
New(pattern) ==
    \A i \in 1..Len(pattern) :
        /\ pattern[i].is # "brace"
        /\ pattern[i].is = "field" =>
             /\ SpecOK(pattern[i].spec)
             /\ pattern[i].spec.kind = "time" => pattern[i].spec.format # <<>>

IsTrollsiftPattern(pattern) ==
    \E i \in 1..Len(pattern) : pattern[i].is \in {"field", "brace"}

\* Symbols of a time format have one digit each here.
FormatSymbols == {"D", "H"}

\* formatTimeField: the instant in the zone, written by the format.
FormatTime(t, p) ==
    LET local == t + p.zone
    IN  [i \in 1..Len(p.format) |->
           CASE p.format[i] = "D" -> DigitOf((local \div DayHours) % 10)
             [] p.format[i] = "H" -> DigitOf(local % DayHours)
             [] OTHER -> p.format[i]]

\* parseTimeField: parts the format does not show are zero, and an hour out
\* of range is an error.
ParseTime(s, p) ==
    LET part(c) == IF \E i \in 1..Len(s) : p.format[i] = c
                   THEN ValueOf(s[CHOOSE i \in 1..Len(s) : p.format[i] = c])
                   ELSE 0
    IN  IF part("H") < DayHours
        THEN {part("D") * DayHours + part("H") - p.zone} ELSE {}

\* The decimal digits of n, padded to the width (numbers below 100).
Digits(n, width) ==
    LET plain == IF n < 10 THEN <<DigitOf(n)>>
                 ELSE <<DigitOf(n \div 10), DigitOf(n % 10)>>
    IN  IF width > Len(plain) THEN <<"0">> \o plain ELSE plain

\* formatValue: the text of a value, none when the kinds disagree.
FormatValue(x, p) ==
    IF x.kind # p.kind THEN {}
    ELSE CASE p.kind = "str" -> {x.v}
           [] p.kind = "int" -> {Digits(x.v, p.width)}
           [] p.kind = "time" -> {FormatTime(x.v, p)}

\* Compose with allowPartial false: every field has a value of its kind.
Compose(pattern, vals) ==
    LET texts(x) == IF x.is = "lit" THEN {<<x.c>>}
                    ELSE IF x.name \in DOMAIN vals
                         THEN FormatValue(vals[x.name], x.spec) ELSE {}
    IN  IF \E i \in 1..Len(pattern) : texts(pattern[i]) = {} THEN {}
        ELSE {FlattenSeq([i \in 1..Len(pattern) |->
                            CHOOSE t \in texts(pattern[i]) : TRUE])}

\* buildParseRegex: which texts the group of a field captures.
Captures(p, s) ==
    CASE p.kind = "str" -> s # <<>> /\ p.width \in {0, Len(s)}
      [] p.kind = "int" -> /\ s # <<>> /\ p.width \in {0, Len(s)}
                           /\ \A i \in 1..Len(s) : IsDigit(s[i])
      [] p.kind = "time" ->
           /\ Len(s) = Len(p.format)
           /\ \A i \in 1..Len(s) : IF p.format[i] \in FormatSymbols
                                   THEN IsDigit(s[i]) ELSE s[i] = p.format[i]

\* The captures of the anchored expression, or none.  The library tries a
\* string group shortest first and a number group longest first, the earlier
\* group deciding.
RECURSIVE Match(_, _)
Match(pattern, s) ==
    IF pattern = <<>> THEN IF s = <<>> THEN {<<>>} ELSE {}
    ELSE IF Head(pattern).is = "lit"
    THEN IF s # <<>> /\ Head(s) = Head(pattern).c
         THEN Match(Tail(pattern), Tail(s)) ELSE {}
    ELSE LET p == Head(pattern).spec
             after(n) == Match(Tail(pattern), SubSeq(s, n + 1, Len(s)))
             fits == {n \in 1..Len(s) : Captures(p, SubSeq(s, 1, n))
                                         /\ after(n) # {}}
             n == IF p.kind = "int" THEN Max(fits) ELSE Min(fits)
         IN  IF fits = {} THEN {}
             ELSE {<<SubSeq(s, 1, n)>> \o c : c \in after(n)}

FieldsOf(pattern) == SelectSeq(pattern, LAMBDA x : x.is = "field")

Number(s) == FoldLeft(LAMBDA n, c : n * 10 + ValueOf(c), 0, s)

\* The typed value of a capture.
Typed(p, c) ==
    CASE p.kind = "str" -> {S(c)}
      [] p.kind = "int" -> {I(Number(c))}
      [] p.kind = "time" -> {T(t) : t \in ParseTime(c, p)}

\* Parse: the fields with their raw text and their value; a name that occurs
\* twice has the value of its last occurrence.
Parse(pattern, s) ==
    LET fs == FieldsOf(pattern)
        last(name) == Max({i \in 1..Len(fs) : fs[i].name = name})
    IN  {[name \in {fs[i].name : i \in 1..Len(fs)} |->
            [raw |-> c[last(name)],
             val |-> CHOOSE x \in Typed(fs[last(name)].spec, c[last(name)]) : TRUE]]
         : c \in {d \in Match(pattern, s) :
                    \A i \in 1..Len(fs) : Typed(fs[i].spec, d[i]) # {}}}

\* Globify: a field is "*" or one "?" per symbol of its width.
Globify(pattern) ==
    LET glob(x) ==
          IF x.is = "lit" THEN <<x.c>>
          ELSE IF x.spec.kind = "time"
          THEN [i \in 1..Len(x.spec.format) |->
                  IF x.spec.format[i] \in FormatSymbols THEN "?"
                  ELSE x.spec.format[i]]
          ELSE IF x.spec.width > 0 THEN [i \in 1..x.spec.width |-> "?"]
          ELSE <<"*">>
    IN  FlattenSeq([i \in 1..Len(pattern) |-> glob(pattern[i])])

\* The glob library: neither wildcard crosses a separator.
RECURSIVE GlobMatch(_, _)
GlobMatch(g, s) ==
    IF g = <<>> THEN s = <<>>
    ELSE IF Head(g) = "*"
    THEN \/ GlobMatch(Tail(g), s)
         \/ s # <<>> /\ Head(s) # "/" /\ GlobMatch(g, Tail(s))
    ELSE /\ s # <<>>
         /\ (Head(s) = Head(g) \/ (Head(g) = "?" /\ Head(s) # "/"))
         /\ GlobMatch(Tail(g), Tail(s))

-----------------------------------------------------------------------------
(* Paths.  A path is a sequence of names and a name a text.                *)

Dots == <<".", ".">>

\* The text of a relative path.
Joined(path) ==
    FlattenSeq([i \in 1..Len(path) |->
                  IF i = 1 THEN path[1] ELSE <<"/">> \o path[i]])

\* filepath.Rel: up from what the two do not share, then down.
Rel(base, path) ==
    LET n == Max({i \in 0..Len(base) : i <= Len(path)
                    /\ \A j \in 1..i : base[j] = path[j]})
    IN  Joined([i \in 1..(Len(base) - n) |-> Dots]
               \o SubSeq(path, n + 1, Len(path)))

\* ResolvePath: the time variables of the base path at instant t.
ResolvePath(base, t) ==
    [i \in 1..Len(base) |-> [j \in 1..Len(base[i]) |->
        IF base[i][j] = "{D}" THEN DigitOf((t \div DayHours) % 10)
        ELSE base[i][j]]]

\* The directory that is walked: resolved for a cron rule, as it stands for
\* a watcher.
WalkRoot(j) == IF j.rule.cron THEN ResolvePath(j.rule.base, j.at)
               ELSE j.rule.base

\* NormalizeTemplate and NormalizeObjectKey: no leading separator.
\* Mutant: the template keeps its leading separator.
NormalizeNothing(pattern) == pattern
NormalizeTemplate(pattern) ==
    LET lead == Max({n \in 0..Len(pattern) :
                       \A i \in 1..n : pattern[i] = Lit("/")})
    IN  SubSeq(pattern, lead + 1, Len(pattern))
NormalizeObjectKey(key) ==
    LET lead == Max({n \in 0..Len(key) : \A i \in 1..n : key[i] = "/"})
    IN  SubSeq(key, lead + 1, Len(key))

-----------------------------------------------------------------------------
(* Fields.                                                                 *)

ReservedTime == {"submit_time", "time"}

\* ValidateReservedTimeUse.
MisusesTime(pattern) ==
    /\ New(pattern)
    /\ \E i \in 1..Len(pattern) :
         /\ pattern[i].is = "field" /\ pattern[i].name \in ReservedTime
         /\ pattern[i].spec.kind # "time"

\* reservedTimeMisuse looks at the pattern and at the template.
ReservedTimeMisuse(r) ==
    MisusesTime(r.pattern) \/ MisusesTime(NormalizeTemplate(r.dest))

\* A value only where the fields have none.
IfAbsent(name, x, vals) ==
    IF name \in DOMAIN vals THEN vals
    ELSE [n \in DOMAIN vals \cup {name} |-> IF n = name THEN x ELSE vals[n]]

\* InjectSubmitTime: the two words are aliases, a parsed one is mirrored.
InjectSubmitTime(vals, t) ==
    LET both(x) == IfAbsent("time", x, IfAbsent("submit_time", x, vals))
    IN  IF "submit_time" \in DOMAIN vals THEN both(vals["submit_time"])
        ELSE IF "time" \in DOMAIN vals THEN both(vals["time"]) ELSE both(T(t))

\* filepath.Ext without its dot: what follows the last dot of the name.
Ext(name) ==
    LET dots == {i \in 1..Len(name) : name[i] = "."}
    IN  IF dots = {} THEN <<>> ELSE SubSeq(name, Max(dots) + 1, Len(name))

\* InjectContext and injectUploadFields.
Inject(vals, path, t) ==
    LET name == path[Len(path)]
    IN  InjectSubmitTime(
          IfAbsent("ext", S(Ext(name)), IfAbsent("filename", S(name),
            IfAbsent("agent_name", S(Agent), vals))), t)

\* The fields parsed out of the relative path; none when it does not parse.
Parsed(j) ==
    LET found == IF IsTrollsiftPattern(j.rule.pattern) /\ New(j.rule.pattern)
                 THEN Parse(j.rule.pattern, Rel(j.rule.base, j.file)) ELSE {}
    IN  IF found = {} THEN NoFields
        ELSE LET f == CHOOSE x \in found : TRUE
             IN  [n \in DOMAIN f |-> f[n].val]

\* The glob of the pattern, which a plain pattern is itself.
GlobOf(r) == Globify(r.pattern)

-----------------------------------------------------------------------------
(* The upload.                                                             *)

PathInit ==
    /\ stage = "idle" /\ job = Unset /\ fields = NoFields
    /\ objKey = Unset /\ preview = Unset /\ tags = NoFields

\* A walk or a watcher comes upon a file below its root.
Find ==
    /\ stage = "idle"
    /\ \E r \in PathRule, f \in LocalFile, t \in Instant :
         LET j == [rule |-> r, file |-> f, at |-> t] IN
         /\ Len(WalkRoot(j)) < Len(f)
         /\ SubSeq(f, 1, Len(WalkRoot(j))) = WalkRoot(j)
         /\ job' = j
    /\ stage' = "found"
    /\ UNCHANGED <<fields, objKey, preview, tags>>

\* matchGlob, against the path relative to the rule's own base path.
MatchGlob ==
    /\ stage = "found"
    /\ stage' = IF New(job.rule.pattern)
                   /\ GlobMatch(GlobOf(job.rule), Rel(job.rule.base, job.file))
                THEN "matched" ELSE "skipped"
    /\ UNCHANGED <<job, fields, objKey, preview, tags>>

\* buildStoragePath up to the fields.
BuildFields ==
    /\ stage = "matched"
    /\ \/ /\ ReservedTimeMisuse(job.rule)
          /\ objKey' = PathRefused /\ stage' = "refused"
          /\ UNCHANGED fields
       \/ /\ ~ReservedTimeMisuse(job.rule)
          /\ fields' = Inject(Parsed(job), job.file, job.at)
          /\ stage' = "fields"
          /\ UNCHANGED objKey
    /\ UNCHANGED <<job, preview, tags>>

\* The key of a template, none when it cannot be resolved.
KeyOf(dest, vals) ==
    IF New(NormalizeTemplate(dest)) THEN Compose(NormalizeTemplate(dest), vals)
    ELSE {}

\* The rest of buildStoragePath; an unresolvable or empty key is refused.
ComposeKey ==
    /\ stage = "fields"
    /\ LET found == KeyOf(job.rule.dest, fields) \ {<<>>}
       IN  IF found = {} THEN objKey' = PathRefused /\ stage' = "refused"
           ELSE /\ stage' = "keyed"
                /\ objKey' = NormalizeObjectKey(CHOOSE k \in found : TRUE)
    /\ UNCHANGED <<job, fields, preview, tags>>

\* Mutant: the preview injects no upload fields.
DryRunFields(j) == Inject(Parsed(j), j.file, j.at)

\* handleDryRun, as far as this file goes: it walks the rule's base path.
DryRun ==
    /\ stage = "found" /\ preview = Unset /\ WalkRoot(job) = job.rule.base
    /\ preview' =
         IF ReservedTimeMisuse(job.rule) \/ ~New(job.rule.pattern) THEN PathRefused
         ELSE IF ~GlobMatch(GlobOf(job.rule), Rel(job.rule.base, job.file))
         THEN <<"absent">>
         ELSE LET found == KeyOf(job.rule.dest, DryRunFields(job))
              IN  IF found = {} THEN PathRefused
                  ELSE NormalizeObjectKey(CHOOSE k \in found : TRUE)
    /\ UNCHANGED <<job, stage, fields, objKey, tags>>

\* applyPathVarTags: the raw texts the control plane parses out of the key.
ApplyPathVarTags ==
    /\ stage = "keyed" /\ stage' = "tagged"
    /\ LET dest == NormalizeTemplate(job.rule.dest)
           found == IF New(dest) THEN Parse(dest, NormalizeObjectKey(objKey))
                    ELSE {}
       IN  tags' = IF found = {} THEN NoFields
                   ELSE LET f == CHOOSE x \in found : TRUE
                        IN  [n \in DOMAIN f |-> f[n].raw]
    /\ UNCHANGED <<job, fields, objKey, preview>>

PathNext == Find \/ MatchGlob \/ BuildFields \/ ComposeKey \/ DryRun
            \/ ApplyPathVarTags

PathSpec == PathInit /\ [][PathNext]_pathVars

-----------------------------------------------------------------------------
(* Properties.                                                             *)

\* The dry run shows exactly the key the upload writes, and neither shows one
\* where the upload is refused: an empty preview stands for a refusal.
PreviewIsKey ==
    preview # Unset =>
        /\ stage \in {"keyed", "tagged"} => preview = objKey
        /\ stage = "refused" => preview \in {PathRefused, <<>>}
        /\ stage = "skipped" => preview \in {PathRefused, <<"absent">>}

\* Every field of the template stands alone between separators.
Separated(dest) ==
    \A i \in 1..Len(dest) : dest[i].is = "field" =>
        /\ i > 1 => dest[i - 1] = Lit("/")
        /\ i < Len(dest) => dest[i + 1] = Lit("/")

TextOf(i, dest, vals) == CHOOSE t \in FormatValue(vals[dest[i].name], dest[i].spec) : TRUE

\* When the fields of a template stand between separators and their texts
\* hold none, the control plane finds in the key the very values the agent
\* put there, whatever leading separators the template has.
TagsAreFields ==
    LET dest == NormalizeTemplate(job.rule.dest)
        names == {i \in 1..Len(dest) : dest[i].is = "field"}
    IN  (stage = "tagged" /\ Separated(dest)
         /\ \A i \in names : LET t == TextOf(i, dest, fields) IN
              /\ t # <<>> /\ \A k \in 1..Len(t) : t[k] # "/"
              /\ dest[i].spec.kind = "int" \/ dest[i].spec.width \in {0, Len(t)})
        => \A i \in names : (\A j \in names : j > i => dest[j].name # dest[i].name)
            => /\ dest[i].name \in DOMAIN tags
               /\ tags[dest[i].name] = TextOf(i, dest, fields)

\* The template with the deprecated word replaced as its hint advises.
Migrated(dest) ==
    [i \in 1..Len(dest) |-> IF dest[i].is = "field" /\ dest[i].name = "time"
                            THEN [dest[i] EXCEPT !.name = "submit_time"]
                            ELSE dest[i]]

\* Following the deprecation hint from {time} to {submit_time} changes no
\* object key, unless the file's path gives the two words different values.
MigrationKeepsKey ==
    (stage \in {"keyed", "tagged"} /\ ~(ReservedTime \subseteq DOMAIN Parsed(job)))
        => {NormalizeObjectKey(k) : k \in KeyOf(Migrated(job.rule.dest), fields)}
             = {objKey}

\* Preview, object key and tags agree on the fields of a file.
PathsAgree == PreviewIsKey /\ TagsAreFields /\ MigrationKeepsKey
=============================================================================
