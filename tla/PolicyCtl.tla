------------------------------ MODULE PolicyCtl ------------------------------
(***************************************************************************)
(* bin/policyctl.ts: the arguments, the policy files, one read after the   *)
(* other while their author may still edit them, the validation, and the   *)
(* three output files, written one after the other.  A file holds a        *)
(* version of its text; an output file holds the declaration that it was   *)
(* compiled from.                                                          *)
(***************************************************************************)
EXTENDS Naturals, Sequences, FiniteSets, SequencesExt

CONSTANTS
    Texts,          \* versions of the text of a file
    Valid(_),       \* which declarations validateDeclaration accepts
    ArgLists,       \* argument lists
    MaxEdits, MaxRuns

VARIABLES
    files,      \* files[f]: a text, "missing", "unparsable" YAML or "malformed" for the schema
    pc,         \* the step the run is at, or "idle"
    loaded,     \* the texts read so far
    out,        \* out[a]: the declaration an output file was compiled from, or None
    exit,       \* how the last run ended: "ok" (0), "message" (1), "usage" (2), "stack" (an internal error) or "killed"
    argv,       \* the arguments of the last run
    edits, nruns

vars == <<files, pc, loaded, out, exit, argv, edits, nruns>>

None == <<>>

Torn == <<"torn">>

Files == <<"roles", "groups", "resources", "catalog", "logins">>

Optional == {"catalog", "logins"}

Artifacts == <<"trino.rego", "roles.sql", "keycloak.json">>

Absent == "absent"     \* an optional file that is not there: an empty list

----------------------------------------------------------------------------
(* parseArgs *)

IsOption(a) == a \in {"--out", "--other"}

BadStep(state, i, args) ==
    IF args[i] = "--out" THEN [state EXCEPT !.outs = @ + 1, !.skip = TRUE]
    ELSE IF IsOption(args[i]) THEN [state EXCEPT !.refused = TRUE]
    ELSE [state EXCEPT !.positionals = @ + 1]

\* One turn of the loop: --out takes the next argument, which must be there and be no option.
Step(state, i, args) ==
    IF args[i] = "--out"
    THEN IF i = Len(args) THEN [state EXCEPT !.refused = TRUE]
         ELSE IF IsOption(args[i + 1]) THEN [state EXCEPT !.refused = TRUE]
         ELSE [state EXCEPT !.outs = @ + 1, !.skip = TRUE]
    ELSE IF IsOption(args[i]) THEN [state EXCEPT !.refused = TRUE]
    ELSE [state EXCEPT !.positionals = @ + 1]

ParseArgs(args) ==
    LET turn[i \in 0..Len(args)] ==
            IF i < 2 THEN [positionals |-> 0, outs |-> 0, skip |-> FALSE, refused |-> FALSE]
            ELSE IF turn[i - 1].refused THEN turn[i - 1]
            ELSE IF turn[i - 1].skip THEN [turn[i - 1] EXCEPT !.skip = FALSE]
            ELSE Step(turn[i - 1], i, args)
        end == turn[Len(args)]
    IN  args # <<>> /\ args[1] = "compile" /\ ~ end.refused /\ end.positionals = 1 /\ end.outs > 0

----------------------------------------------------------------------------
(* The run *)

Init ==
    /\ files \in [Range(Files) -> Texts \cup {"missing"}] /\ \A f \in Range(Files) : f \notin Optional => files[f] # "missing"
    /\ pc = "idle" /\ loaded = <<>> /\ exit = "none"
    /\ out = [a \in Range(Artifacts) |-> None]
    /\ argv = <<>> /\ edits = 0 /\ nruns = 0

End(code) == pc' = "idle" /\ exit' = code /\ loaded' = <<>>

Start(args) ==
    /\ pc = "idle" /\ nruns < MaxRuns
    /\ nruns' = nruns + 1 /\ argv' = args
    /\ IF ParseArgs(args) THEN pc' = "exists" /\ exit' = "none" /\ loaded' = <<>> ELSE End("usage")
    /\ UNCHANGED <<files, out, edits>>

NextFile == Files[Len(loaded) + 1]

Took(text) ==
    /\ loaded' = Append(loaded, text)
    /\ pc' = IF Len(loaded') = Len(Files) THEN "compile" ELSE "exists"
    /\ UNCHANGED exit

\* existsSync of the optional files; a required file is read at once.
CheckExists ==
    /\ pc = "exists"
    /\ IF NextFile \in Optional /\ files[NextFile] = "missing" THEN Took(Absent)
       ELSE pc' = "read" /\ UNCHANGED <<loaded, exit>>
    /\ UNCHANGED <<files, out, argv, edits, nruns>>

\* readPolicyFile: a missing file, bad YAML and a schema error end the run with a message.
ReadPolicyFile ==
    /\ pc = "read"
    /\ IF files[NextFile] \in Texts THEN Took(files[NextFile]) ELSE End("message")
    /\ UNCHANGED <<files, out, argv, edits, nruns>>

\* loadPolicies and compileAll: nothing is written of a declaration with errors.
CompileAll ==
    /\ pc = "compile"
    /\ IF Valid(loaded) THEN pc' = "mkdir" /\ UNCHANGED <<loaded, exit>> ELSE End("message")
    /\ UNCHANGED <<files, out, argv, edits, nruns>>

\* A file in the place of the output directory ends the run with a message, another error with a stack.
MakeDirectory ==
    /\ pc = "mkdir"
    /\ \/ pc' = "trino.rego" /\ UNCHANGED <<loaded, exit>>
       \/ End("message")
       \/ End("stack")
    /\ UNCHANGED <<files, out, argv, edits, nruns>>

AfterWrite(a) == IF a = "trino.rego" THEN "roles.sql" ELSE "keycloak.json"

BadWritten(a) == IF a = "keycloak.json" THEN End("ok") ELSE pc' = "keycloak.json" /\ UNCHANGED <<loaded, exit>>

Written(a) == IF a = "keycloak.json" THEN End("ok") ELSE pc' = AfterWrite(a) /\ UNCHANGED <<loaded, exit>>

\* One writeFileSync: it replaces the file, or fails half way and leaves it torn.
WriteArtifact ==
    /\ pc \in Range(Artifacts)
    /\ \/ out' = [out EXCEPT ![pc] = loaded] /\ Written(pc)
       \/ out' \in {out, [out EXCEPT ![pc] = Torn]} /\ End("stack")
    /\ UNCHANGED <<files, argv, edits, nruns>>

\* The process is killed between two steps.
Kill ==
    /\ pc # "idle"
    /\ End("killed")
    /\ UNCHANGED <<files, out, argv, edits, nruns>>

Edit(f, t) ==
    /\ edits < MaxEdits /\ files[f] # t
    /\ edits' = edits + 1 /\ files' = [files EXCEPT ![f] = t]
    /\ UNCHANGED <<pc, loaded, out, exit, argv, nruns>>

Next ==
    \/ \E args \in ArgLists : Start(args)
    \/ CheckExists \/ ReadPolicyFile \/ CompileAll \/ MakeDirectory \/ WriteArtifact \/ Kill
    \/ \E f \in Range(Files), t \in Texts \cup {"missing", "unparsable"} : Edit(f, t)

Spec == Init /\ [][Next]_vars

----------------------------------------------------------------------------
(* Properties *)

\* The three output files are of one declaration after every run that reports success, and they differ
\* only after a run that was killed or failed in the middle and that nobody has run again.
SuccessIsWhole == exit = "ok" => \E d \in Range(out) : \A a \in Range(Artifacts) : out[a] = d

\* No output file is ever compiled from a declaration that validation refuses, even from the mixture that
\* edits between two reads give.
OnlyValidWritten == \A a \in Range(Artifacts) : out[a] \notin {None, Torn} => Valid(out[a])

\* A run that ends with a message for the author, of usage, of a file or of validation, has written nothing.
MessageMeansUntouched == [][exit' \in {"message", "usage"} /\ exit = "none" => out' = out]_vars

\* An argument list is accepted exactly when it is the command, one directory and one or more --out with a
\* value that is no option.
Shape(args) ==
    /\ args # <<>> /\ args[1] = "compile"
    /\ \E outs \in SUBSET (2..Len(args)) :
          /\ outs # {} /\ \A i \in outs : args[i] = "--out" /\ i < Len(args) /\ i + 1 \notin outs /\ ~ IsOption(args[i + 1])
          /\ LET rest == (2..Len(args)) \ (outs \cup {i + 1 : i \in outs})
             IN  Cardinality(rest) = 1 /\ \A i \in rest : ~ IsOption(args[i])

ArgsAsUsage == nruns > 0 => (exit = "usage" <=> ~ Shape(argv))
=============================================================================
