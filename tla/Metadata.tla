------------------------------ MODULE Metadata ------------------------------
(***************************************************************************)
(* containers.meta in container.c: save_metadata writes every record as a  *)
(* line of ten fields, container_manager_init reads them back after a      *)
(* restart.  The record is that of the container whose command the user    *)
(* typed (CommandLine); another one was there before.  The manager may die *)
(* between any two steps.                                                  *)
(*                                                                         *)
(* Every field but the command is one character here; what the command     *)
(* shows of tabs and carriage returns holds for the names as well.         *)
(***************************************************************************)
EXTENDS CommandLine

CONSTANT Piece   \* bound: characters that one failed write leaves out

ASSUME PieceAssumption == Piece \in Nat \ {0}

VARIABLES
    mpc,   \* where save_metadata or the restart is
    tmp,   \* containers.meta.tmp
    file,  \* containers.meta
    back,  \* the containers the restarted manager knows
    torn   \* history: a failed write went unnoticed

mvars == <<mpc, tmp, file, back, torn>>
allvars == <<vars, mvars>>

Tab == "\t"
Newline == "\n"

Limits == << <<"4">>, <<"5">>, <<"6">> >>

\* id, name, pid, hostname, rootfs, state, command, limits.
Fields(id, cmd, lim) == << <<id>>, <<"n">>, <<"9">>, <<"h">>, <<"/">>, <<"C">>, cmd >> \o lim

Encoded(fields) == Joined(fields, <<Tab>>) \o <<Newline>>

Earlier == Encoded(Fields("1", <<"a">>, Limits))

\* An empty command is stored as DEFAULT_CONTAINER_COMMAND.
Default == <<"d">>
Stored == IF command_line = << >> THEN Default ELSE command_line

Both == Earlier \o Encoded(Fields("2", Stored, Limits))

----------------------------------------------------------------------------
(* save_metadata, called by container_create *)

\* Faulty: containers.meta itself is opened, and so truncated.
OpenInPlace ==
    /\ pc \in {"exec", "default"} /\ mpc = "idle"
    /\ tmp' = << >> /\ file' = << >>
    /\ mpc' = "write"
    /\ UNCHANGED <<vars, back, torn>>

SaveOpen ==
    /\ pc \in {"exec", "default"} /\ mpc = "idle"
    /\ tmp' = << >>
    /\ mpc' = "write"
    /\ UNCHANGED <<vars, file, back, torn>>

\* The text less the piece of it that begins after position b.
Without(text, b) == SubSeq(text, 1, b) \o SubSeq(text, b + Piece + 1, Len(text))

\* The fprintf calls.  Their results are not tested, and a write error that has
\* passed by the time of fclose leaves a piece out.
SaveWrite ==
    /\ mpc = "write"
    /\ \/ tmp' = Both /\ UNCHANGED torn
       \/ /\ \E n \in 0 .. Len(Both) \div Piece :
               /\ (n + 1) * Piece < Len(Both)
               /\ tmp' = Without(Both, n * Piece)
          /\ torn' = TRUE
    /\ mpc' = "close"
    /\ UNCHANGED <<vars, file, back>>

SaveClose ==
    /\ mpc = "close"
    /\ mpc' = "rename"
    /\ UNCHANGED <<vars, tmp, file, back, torn>>

SaveRename ==
    /\ mpc = "rename"
    /\ file' = tmp
    /\ tmp' = << >>
    /\ mpc' = "saved"
    /\ UNCHANGED <<vars, back, torn>>

\* fopen, fclose or rename failed: container_create drops the record.
SaveFails ==
    /\ pc \in {"exec", "default"} /\ mpc \in {"idle", "close", "rename"}
    /\ mpc' = "failed"
    /\ UNCHANGED <<vars, tmp, file, back, torn>>

Crash ==
    /\ mpc \in {"write", "close", "rename", "saved", "failed"}
    /\ mpc' = "down"
    /\ UNCHANGED <<vars, tmp, file, back, torn>>

----------------------------------------------------------------------------
(* container_manager_init *)

\* trim_newline: up to the first line end of either kind.
Trimmed(text) ==
    LET ends == {i \in 1 .. Len(text) : text[i] \in {Newline, Return}}
    IN  IF ends = {} THEN text
        ELSE SubSeq(text, 1, (CHOOSE i \in ends : \A j \in ends : i <= j) - 1)

\* strtok drops empty fields; the array holds ten.  Faulty: only nine.
NineFields(words) == UpTo(words, 9)
TenFields(words) == UpTo(words, 10)

\* strtoul of a limit, or of a text that is no number.
Number(text) == IF text \in Range(Limits) THEN text ELSE <<"0">>

Accepted(fields) == Len(fields) \in {6, 7, 10}

\* What a line becomes; without a command it gets the default one.
Decoded(fields) ==
    [id     |-> fields[1],
     cmd    |-> IF Len(fields) >= 7 THEN fields[7] ELSE Default,
     limits |-> [i \in 1 .. 3 |-> IF Len(fields) = 10 THEN Number(fields[7 + i]) ELSE <<"0">>]]

\* Line by line; one with another number of fields is skipped.
Recovered(text) ==
    LET lines  == Tokens(text, {Newline})
        fields == [i \in 1 .. Len(lines) |-> TenFields(Tokens(Trimmed(lines[i]), {Tab}))]
    IN  {Decoded(fields[i]) : i \in {j \in 1 .. Len(lines) : Accepted(fields[j])}}

Restore ==
    /\ mpc = "down"
    /\ back' = Recovered(file)
    /\ mpc' = "restored"
    /\ UNCHANGED <<vars, tmp, file, torn>>

----------------------------------------------------------------------------
MetaInit ==
    /\ Init
    /\ mpc = "idle" /\ tmp = << >> /\ file = Earlier /\ back = {} /\ torn = FALSE

\* The command is executed once its record is saved.
MetaNext ==
    \/ (ParseWord \/ ParseDone \/ Join) /\ UNCHANGED mvars
    \/ mpc = "saved" /\ build_exec_argv /\ UNCHANGED mvars
    \/ SaveOpen \/ SaveWrite \/ SaveClose \/ SaveRename \/ SaveFails
    \/ Crash \/ Restore

MetaSpec == MetaInit /\ [][MetaNext]_allvars

----------------------------------------------------------------------------
\* Whenever the manager dies, containers.meta holds the records of one complete
\* save, the last or the one before: the temporary file is complete when it is
\* renamed.  Only a write error that fprintf reported to nobody breaks this.
SaveAtomic == file \in {Earlier, Both} \/ torn

Record(id, cmd) == [id |-> <<id>>, cmd |-> cmd, limits |-> Limits]

\* A restart brings back every saved container with its command, as the line
\* was parsed, and its limits; unless the command has a carriage return, which
\* cuts the record before the limits, or a tab that was typed between quotes,
\* which moves the limits by a field or makes the record one that is skipped.
RecordsSurvive ==
    mpc = "restored" /\ ~torn =>
      /\ Record("1", <<"a">>) \in back
      /\ /\ file = Both /\ Return \notin Range(Stored)
         /\ HasQuote => Tab \notin Range(Stored)
         => Record("2", Stored) \in back
=============================================================================
