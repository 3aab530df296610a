------------------------------- MODULE Logger -------------------------------
(***************************************************************************)
(* The event log and the logs command of logger.c: lines are appended, by  *)
(* this manager and by any other one in the directory; logs renders them   *)
(* as rows with the name, pid and status rebuilt from the lines before;    *)
(* logs -f goes on with what is appended, and survives a truncation.       *)
(*                                                                         *)
(* A line is what parse_log_line and the extract functions find in it.  It *)
(* reaches the file in one write, so an offset counts lines.               *)
(***************************************************************************)
EXTENDS Integers, Sequences, FiniteSetsExt

CONSTANTS
    Ids,      \* container ids
    None,     \* a line without an id, a name or a pid; no filter
    Lines,    \* the lines other commands and other managers may write
    MaxLog    \* bound: lines of the file, and lines read if others write

ASSUME LoggerAssumption ==
    /\ Ids \subseteq Nat \ {0} /\ IsFiniteSet(Ids) /\ None \notin Ids
    /\ MaxLog \in Nat
    /\ \A line \in Lines : line.id \in Ids \cup {None}

VARIABLES
    at,         \* where the main thread is
    interrupt,  \* g_interrupt_requested
    log,        \* the file
    query,      \* the arguments of logs: filter, tail, follow
    seen,       \* the lines read so far
    first,      \* how many of them the first pass read
    offset,
    catalog,
    rows,       \* what has been printed
    base,       \* history: how many had been read when the file began anew
    whole       \* history: no line has been passed over since

lvars == <<log, query, seen, first, offset, catalog, rows, base, whole>>
view == <<query, seen, first, offset, catalog, rows, base, whole>>

\* id is the first one in the message, mentions are all a filter would match.
Line(event, id, name, pid, mentions) ==
    [event |-> event, id |-> id, name |-> name, pid |-> pid, mentions |-> mentions]

\* log_event_type; it gives up silently when the file cannot be opened.
Appended(lines) == LET text == log \o lines IN SubSeq(text, 1, Min({MaxLog, Len(text)}))

----------------------------------------------------------------------------
(* Records, the catalog and the selection *)

infer_record_status(line) ==
    CASE line.event = "CONTAINER_CREATED" -> "CREATED"
      [] line.event = "CONTAINER_STARTED" -> "RUNNING"
      [] line.event \in {"CONTAINER_STOPPED", "RESOURCE_LIMIT_HIT"} -> "STOPPED"
      [] line.event = "CONTAINER_DELETED" -> "DELETED"
      [] line.event = "ERROR" -> "ERROR"
      [] OTHER -> IF line.id = None THEN "SYSTEM" ELSE None

EmptyCatalog == [id \in Ids |-> [name |-> None, pid |-> None, status |-> None]]

Known(new, old) == IF new = None THEN old ELSE new

logger_catalog_update(cat, line) ==
    IF line.id = None THEN cat
    ELSE [cat EXCEPT ![line.id] =
            [name   |-> Known(line.name, @.name),
             pid    |-> Known(line.pid, @.pid),
             status |-> Known(infer_record_status(line), @.status)]]

\* The name is the catalog's only; the line's own pid stands in for a missing one.
logger_render_record(cat, line) ==
    LET entry == IF line.id = None THEN [name |-> None, pid |-> None, status |-> None]
                 ELSE cat[line.id]
    IN  [line   |-> line,
         name   |-> entry.name,
         pid    |-> Known(entry.pid, line.pid),
         status |-> Known(entry.status, infer_record_status(line))]

\* strstr: the line of one container may match the filter of another.
line_matches_container(line, filter) == filter = None \/ filter \in line.mentions

Matches(lines, filter) == {i \in 1 .. Len(lines) : line_matches_container(lines[i], filter)}

\* The last tail matches, or all of them.
logger_build_selection(lines, filter, tail) ==
    LET matches     == Matches(lines, filter)
        match_count == Cardinality(matches)
        index(i)    == Cardinality({j \in matches : j < i})
        start       == IF tail > 0 /\ match_count > tail THEN match_count - tail ELSE 0
    IN  {i \in matches : index(i) >= start}

\* One turn of logger_render_records.  Faulty: lines not shown are not learned.
LearnShown(acc, line, shown) ==
    LET cat == IF shown THEN logger_catalog_update(acc.cat, line) ELSE acc.cat
    IN  [cat |-> cat, rows |-> IF shown THEN Append(acc.rows, logger_render_record(cat, line)) ELSE acc.rows]
Rendered(acc, line, shown) ==
    LET cat == logger_catalog_update(acc.cat, line)
    IN  [cat |-> cat, rows |-> IF shown THEN Append(acc.rows, logger_render_record(cat, line)) ELSE acc.rows]

logger_render_records(acc, lines, selection) ==
    LET render[n \in 0 .. Len(lines)] ==
          IF n = 0 THEN acc ELSE Rendered(render[n - 1], lines[n], n \in selection)
    IN  render[Len(lines)]

Shows(lines, selection, from) ==
    LET result == logger_render_records(from, lines, selection)
    IN  catalog' = result.cat /\ rows' = result.rows

Nothing == [cat |-> EmptyCatalog, rows |-> << >>]

----------------------------------------------------------------------------
(* logger_print, logger_tail and logger_follow *)

\* logger_read_records.  Without a file or without memory the command is over.
LogsRead ==
    /\ at = "logs"
    /\ \/ /\ seen' = log /\ first' = Len(log)
          /\ whole' = TRUE
          /\ at' = IF query.follow THEN "seek" ELSE "render"
       \/ at' = "free" /\ UNCHANGED <<seen, first, whole>>
    /\ UNCHANGED <<interrupt, log, query, offset, catalog, rows, base>>

\* fseek to the end and ftell: not where the reading ended.  If the file cannot
\* be positioned the command is over.
FollowSeek ==
    /\ at = "seek"
    /\ \/ offset' = Len(log) /\ at' = "render" /\ UNCHANGED <<seen, first>>
       \/ at' = "free" /\ seen' = << >> /\ first' = 0 /\ UNCHANGED offset
    /\ UNCHANGED <<interrupt, log, query, catalog, rows, base, whole>>

LogsRender ==
    /\ at = "render"
    /\ Shows(seen, logger_build_selection(seen, query.filter, query.tail), Nothing)
    /\ at' = IF query.follow THEN "follow" ELSE "free"
    /\ UNCHANGED <<interrupt, log, query, seen, first, offset, base, whole>>

\* A file smaller than before is read anew.  Faulty: that goes unnoticed.
KeepOffset(size) == offset
Rewound(size) == IF size < offset THEN 0 ELSE offset

\* stat; there may be no file.
FollowStat ==
    /\ at = "stat"
    /\ \/ /\ offset' = Rewound(Len(log))
          /\ at' = IF Len(log) > offset' THEN "read" ELSE "follow_sleep"
          /\ base' = IF Len(log) < offset THEN Len(seen) ELSE base
          /\ whole' = (whole \/ Len(log) < offset)
       \/ log = << >> /\ at' = "follow_sleep" /\ UNCHANGED <<offset, base, whole>>
    /\ UNCHANGED <<interrupt, log, query, seen, first, catalog, rows>>

\* What is appended after stat is read too.  fopen may fail.
FollowRead ==
    /\ at = "read"
    /\ \/ LET lines == SubSeq(log, offset + 1, Len(log))
          IN  /\ seen' = seen \o lines
              /\ Shows(lines, Matches(lines, query.filter), [cat |-> catalog, rows |-> rows])
              /\ offset' = Max({offset, Len(log)})
       \/ UNCHANGED <<seen, catalog, rows, offset>>
    /\ at' = "follow_sleep"
    /\ UNCHANGED <<interrupt, log, query, first, base, whole>>

NoQuery == [filter |-> None, tail |-> 0, follow |-> FALSE]

\* The command returns; its local variables are gone.
LogsReturn ==
    /\ at = "free"
    /\ at' = "prompt"
    /\ query' = NoQuery /\ seen' = << >> /\ first' = 0 /\ offset' = 0
    /\ catalog' = EmptyCatalog /\ rows' = << >> /\ base' = 0 /\ whole' = TRUE
    /\ UNCHANGED <<interrupt, log>>

----------------------------------------------------------------------------
(* The rest of the world *)

\* A second manager appends at any time.
OtherAppends ==
    /\ Len(log) < MaxLog /\ Len(seen) < MaxLog
    /\ \E line \in Lines : log' = Append(log, line)
    /\ whole' = (whole /\ at # "seek")
    /\ UNCHANGED <<at, interrupt, query, seen, first, offset, catalog, rows, base>>

\* The file is emptied or removed.
Truncate ==
    /\ log # << >>
    /\ whole /\ base = 0     \* bound: once in a command
    /\ log' = << >>
    /\ whole' = (whole /\ at \in {"prompt", "logs"})
    /\ UNCHANGED <<at, interrupt, query, seen, first, offset, catalog, rows, base>>

LoggerInit ==
    /\ log = << >>
    /\ query = NoQuery /\ seen = << >> /\ first = 0 /\ offset = 0
    /\ catalog = EmptyCatalog /\ rows = << >> /\ base = 0 /\ whole = TRUE

----------------------------------------------------------------------------
Following == at \in {"follow", "poll", "stat", "read", "follow_sleep"}

\* What the lines say: the name, the pid and the status of each.
Names(lines) == [i \in 1 .. Len(lines) |-> lines[i].name]
LoggedPids(lines) == [i \in 1 .. Len(lines) |-> lines[i].pid]
Statuses(lines) == [i \in 1 .. Len(lines) |-> infer_record_status(lines[i])]

\* What the lines up to n say last of container id, where line i says says[i].
LastSaid(lines, n, id, says) ==
    LET said == {i \in 1 .. n : lines[i].id = id /\ says[i] # None}
    IN  IF said = {} THEN None ELSE says[Max(said)]

\* The row of line n shows what the lines up to it say of its container.
Tells(row, lines, n) ==
    LET last(says) == LastSaid(lines, n, lines[n].id, says)
    IN  /\ row.line = lines[n]
        /\ lines[n].id # None =>
             /\ row.name = last(Names(lines))
             /\ row.pid = last(LoggedPids(lines))
             /\ row.status = last(Statuses(lines))

\* The last tail matches of the first pass, and every match after it.
Asked ==
    {i \in Matches(seen, query.filter) :
       query.tail > 0 =>
         Cardinality({j \in Matches(seen, query.filter) : i <= j /\ j <= first}) <= query.tail}

\* How many members of S come up to n.
Rank(S, n) == Cardinality({i \in S : i <= n})

\* Whatever was filtered out or cut off by -n, and however the lines were split
\* between the first pass and the polls of -f, the rows are those of the lines
\* asked for, in order; and each shows the last name, pid and status that the
\* lines up to it give for its container.  After a container id has been used
\* again these may be the older container's, until a line says otherwise.
RowsTellTheLog ==
    Following \/ at = "free" =>
      /\ Len(rows) = Cardinality(Asked)
      /\ \A n \in Asked : Tells(rows[Rank(Asked, n)], seen, n)

\* logs -f shows every line once and in order: since the file last began anew,
\* what was read is the file up to offset, whoever wrote to it between any two
\* of the steps.  There are two exceptions: a line a second manager appends
\* after the first pass and before ftell, and a file truncated that has grown
\* past the old offset by the next stat.
FollowLosesNothing ==
    Following /\ whole =>
      /\ offset <= Len(log)
      /\ SubSeq(seen, base + 1, Len(seen)) = SubSeq(log, 1, offset)
=============================================================================
