------------------------------ MODULE Migrations ------------------------------
(***************************************************************************)
(* The chain of Alembic revisions, run to its head at every start-up.      *)
(*                                                                         *)
(* SQLite commits each CREATE and ALTER by itself: the transaction of a    *)
(* revision covers its version number and, where a batch copies a table    *)
(* (a new column with an expression as default), what follows the copy.    *)
(* A process that is killed between two statements therefore starts again  *)
(* at the first statement of a revision that is partly applied.            *)
(***************************************************************************)
EXTENDS Integers, Sequences

VARIABLES
    server,       \* down, migrating, serving
    schema,       \* the tables, columns and indexes of the file
    version,      \* how many revisions are recorded in it
    done,         \* how many statements of the next one this start has run
    failed,       \* history: whether a statement was refused
    interrupted   \* history: whether a process was killed while migrating

vars == <<server, schema, version, done, failed, interrupted>>

\* A table is <<table>>; a column or an index is <<table, name>>.
Creates(objects) == [creates |-> objects, copied |-> {}]

Tables == <<<<"clips">>, <<"items">>, <<"items", "ix_name">>, <<"soundtracks">>,
            <<"compilations">>, <<"compilation_clips">>>>
Codec == <<<<"clips", "codec_name">>>>
ClipIndexes == <<<<"clips", "ix_recorded_at">>, <<"clips", "ix_sort_index">>>>
ErrorMessage == <<<<"clips", "error_message">>>>
SoundtrackIndex == <<<<"soundtracks", "ix_uploaded_at">>>>
CompilationTables == <<<<"compilations">>, <<"compilation_clips">>>>
Duration == <<<<"compilations", "duration_s">>>>

\* The batch creates a copy of the table, fills it and renames it.
Temporary == <<"_alembic_tmp_compilations">>
AudioColumns ==
    [creates |-> <<Temporary>>,
     copied |-> {<<"compilations", "mix_clip_audio">>, <<"compilations", "clip_audio_volume">>}]

Chain == <<Creates(Tables), Creates(Codec), Creates(ClipIndexes), Creates(ErrorMessage),
           Creates(SoundtrackIndex), Creates(CompilationTables), Creates(Duration), AudioColumns>>

Init ==
    /\ server = "down" /\ schema = {} /\ version = 0 /\ done = 0
    /\ failed = FALSE /\ interrupted = FALSE

Behind == server = "migrating" /\ version < Len(Chain)
Revision == Chain[version + 1]
Pending == Behind /\ done < Len(Revision.creates)
Object == Revision.creates[done + 1]

\* CREATE TABLE and CREATE INDEX have no IF NOT EXISTS; a part needs its table.
Accepted == Object \notin schema /\ (Len(Object) = 2 => <<Object[1]>> \in schema)

StartUp ==
    /\ server = "down"
    /\ server' = "migrating" /\ done' = 0
    /\ UNCHANGED <<schema, version, failed, interrupted>>

RunStatement ==
    /\ Pending /\ Accepted
    /\ schema' = schema \cup {Object} /\ done' = done + 1
    /\ UNCHANGED <<server, version, failed, interrupted>>

\* command.upgrade raises, so lifespan does, and the process ends.
StatementFails ==
    /\ Pending /\ ~Accepted
    /\ server' = "down" /\ failed' = TRUE
    /\ UNCHANGED <<schema, version, done, interrupted>>

RecordVersion ==
    /\ Behind /\ ~Pending
    /\ schema' = (schema \ {Temporary}) \cup Revision.copied
    /\ version' = version + 1 /\ done' = 0
    /\ UNCHANGED <<server, failed, interrupted>>

Serve ==
    /\ server = "migrating" /\ ~Behind
    /\ server' = "serving"
    /\ UNCHANGED <<schema, version, done, failed, interrupted>>

\* The container stops or is killed; Docker starts it again.
Stop ==
    /\ server # "down"
    /\ server' = "down"
    /\ interrupted' = (interrupted \/ server = "migrating")
    /\ UNCHANGED <<schema, version, done, failed>>

Next == StartUp \/ RunStatement \/ StatementFails \/ RecordVersion \/ Serve \/ Stop

Spec == Init /\ [][Next]_vars

\* Migrations run by themselves at start-up: no statement of the chain is refused,
\* unless a process was killed in the middle of it.
StartsByItself == failed => interrupted

=============================================================================
