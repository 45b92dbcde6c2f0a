----------------------------- MODULE ConfigFile -----------------------------
(***************************************************************************)
(* internal/config: the project's configuration, how it is read and        *)
(* written and what it means for the hook.  A key of a file is a sequence  *)
(* of its value, empty when the key is not there; so is in memory what Go  *)
(* holds as a pointer.                                                     *)
(***************************************************************************)
EXTENDS Integers, Sequences, FiniteSets

CONSTANT Limits     \* the keys that must be positive and whose 0 means the default

Absent == <<>>

CurrentSchemaVersion == 1

DefaultLimit == 24

TrailerFields == {"coverage", "lines", "agent", "provenance-id"}

ValidateTrailerFields(fields) ==
    /\ fields # <<>>
    /\ \A i \in DOMAIN fields : fields[i] \in TrailerFields
    /\ \A i, j \in DOMAIN fields : i # j => fields[i] # fields[j]

Default ==
    [schema |-> CurrentSchemaVersion, maxFileBytes |-> DefaultLimit, strictVerify |-> FALSE,
     limits |-> [k \in Limits |-> DefaultLimit], hook |-> <<>>]

\* Defaults for the keys that are not there; in a hook section that is there
\* an absent boolean is false.
Decode(file) ==
    LET orElse(key, default) == IF key = Absent THEN default ELSE key[1]
    IN  [schema |-> orElse(file.schema, CurrentSchemaVersion),
         maxFileBytes |-> orElse(file.maxFileBytes, DefaultLimit),
         strictVerify |-> orElse(file.strictVerify, FALSE),
         limits |-> [k \in Limits |-> orElse(file.limits[k], DefaultLimit)],
         hook |-> [i \in DOMAIN file.hook |->
                     [file.hook[i] EXCEPT !.strict = orElse(@, FALSE),
                                          !.writeTrailer = orElse(@, FALSE)]]]

Normalise(cfg) ==
    [cfg EXCEPT !.limits = [k \in Limits |-> IF @[k] = 0 THEN DefaultLimit ELSE @[k]]]

Validate(cfg) ==
    /\ cfg.schema = CurrentSchemaVersion
    /\ cfg.maxFileBytes > 0
    /\ \A k \in Limits : cfg.limits[k] > 0

\* The configuration a file stands for, or {} when Load refuses it.
Load(file) ==
    LET cfg == Normalise(Decode(file)) IN IF Validate(cfg) THEN {cfg} ELSE {}

\* The file Save leaves, or {} when it refuses the configuration: every key
\* has its value.
Save(cfg) ==
    LET n == Normalise(cfg)
        file == [schema |-> <<n.schema>>, maxFileBytes |-> <<n.maxFileBytes>>,
                 strictVerify |-> <<n.strictVerify>>,
                 limits |-> [k \in Limits |-> <<n.limits[k]>>],
                 hook |-> [i \in DOMAIN n.hook |->
                             [n.hook[i] EXCEPT !.strict = <<@>>, !.writeTrailer = <<@>>]]]
    IN  IF Validate(n) THEN {file} ELSE {}

HookSettings(cfg) ==
    LET plain == [fields |-> <<"lines", "agent">>, comments |-> FALSE]
        trailer(h) ==
          IF h.trailer = <<>> THEN plain
          ELSE [fields |-> IF h.trailer[1].fields = <<>> THEN plain.fields
                           ELSE h.trailer[1].fields,
                comments |-> h.trailer[1].comments = <<TRUE>>]
    IN  IF cfg.hook = <<>>
        THEN [strict |-> cfg.strictVerify, writeTrailer |-> TRUE, titleCoverage |-> TRUE,
              trailer |-> plain]
        ELSE LET h == cfg.hook[1]
             IN  [strict |-> h.strict, writeTrailer |-> h.writeTrailer,
                  titleCoverage |-> h.titleCoverage # <<FALSE>>, trailer |-> trailer(h)]

\* Fault: a hook section that is made on the way starts from nothing.
EnsureHookEmpty(cfg) ==
    IF cfg.hook # <<>> THEN cfg.hook[1]
    ELSE [strict |-> FALSE, writeTrailer |-> FALSE, titleCoverage |-> <<>>, trailer |-> <<>>]

EnsureHook(cfg) ==
    IF cfg.hook # <<>> THEN cfg.hook[1]
    ELSE [strict |-> cfg.strictVerify, writeTrailer |-> TRUE, titleCoverage |-> <<>>,
          trailer |-> <<>>]

Trailer(fields, comments) == <<[fields |-> fields, comments |-> <<comments>>]>>

\* hook config set, before it is saved; {} when the fields are refused.
HookConfigSet(cfg, fields, comments) ==
    IF ValidateTrailerFields(fields)
    THEN {[cfg EXCEPT !.hook = <<[EnsureHook(cfg) EXCEPT !.trailer = Trailer(fields, comments)]>>]}
    ELSE {}

HookConfigReset(cfg) ==
    [cfg EXCEPT !.hook = <<[EnsureHook(cfg) EXCEPT !.titleCoverage = <<TRUE>>,
                              !.trailer = Trailer(<<"lines", "agent">>, FALSE)]>>]

\* What hook install saves.
HookInstallDefaults(cfg, trailerOnly) ==
    [cfg EXCEPT !.hook =
       <<[EnsureHook(cfg) EXCEPT
            !.titleCoverage = <<~trailerOnly>>, !.writeTrailer = TRUE,
            !.trailer = Trailer(IF trailerOnly THEN <<"coverage", "lines", "agent">>
                                ELSE <<"lines", "agent">>, FALSE)]>>]

-----------------------------------------------------------------------------

\* What an edit saves can be loaded again.  After hook config set the trailer
\* is the new one and the rest of what the hook does is as it was; the install
\* and a reset leave its strictness alone, and no edit touches the limits.
EditsKeepTheRest(file, fields) ==
    \A cfg \in Load(file) :
        LET was == HookSettings(cfg)
            set == HookConfigSet(cfg, fields, TRUE)
            others == {HookConfigReset(cfg)} \cup {HookInstallDefaults(cfg, t) : t \in BOOLEAN}
        IN  \A c \in set \cup others :
              \E f \in Save(c) : \E reloaded \in Load(f) :
                LET now == HookSettings(reloaded)
                IN  /\ reloaded = [cfg EXCEPT !.hook = c.hook]
                    /\ now.strict = was.strict
                    /\ c \in set =>
                         now = [was EXCEPT !.trailer = [fields |-> fields, comments |-> TRUE]]
=============================================================================
