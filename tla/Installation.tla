---------------------------- MODULE Installation ----------------------------
\* What one installation of the portal consists of on the server, and what the
\* two deployment tools (deploy/staging_tool.py, deploy/production_tool.py) ask
\* of it.  A release stands for everything that is built from it: its directory,
\* its venv, the unit files it carries.
CONSTANTS
    Releases,    \* the releases installed side by side under the immutable roots
    Ingesting,   \* those that carry the two ticket-ingest units
    None         \* an absent link, unit or process

ASSUME ReleasesAssumption == /\ Ingesting \subseteq Releases
                             /\ None \notin Releases

Maybe == Releases \cup {None}

\* release, venv: the two symlinks; unit: the installed app unit, isvc and ipath
\* the installed ingest units, each named by the release whose bytes it holds;
\* enabled: the app unit starts at boot; runs: the release and the venv the app
\* process has loaded; watching: the ingest path unit is active (production_tool
\* enables and disables it at the same time, staging_tool before it returns).
Processes == (Releases \X Releases) \cup {None}
Installations == [release : Maybe, venv : Maybe, unit : Maybe, isvc : Maybe,
                  ipath : Maybe, enabled : BOOLEAN, runs : Processes, watching : BOOLEAN]

Nothing == [release |-> None, venv |-> None, unit |-> None, isvc |-> None,
            ipath |-> None, enabled |-> FALSE, runs |-> None, watching |-> FALSE]

\* The ingest unit files of a release; a historical release has none.
IngestUnit(r) == IF r \in Ingesting THEN r ELSE None

\* A complete installation of r as either tool leaves it.
Whole(r) == [release |-> r, venv |-> r, unit |-> r, isvc |-> IngestUnit(r),
             ipath |-> IngestUnit(r), enabled |-> TRUE, runs |-> <<r, r>>,
             watching |-> r \in Ingesting]

\* Everything in its place, whatever the path unit does.
IsWhole(i) == \/ [i EXCEPT !.watching = FALSE] = Nothing
              \/ \E r \in Releases : [i EXCEPT !.watching = FALSE]
                                       = [Whole(r) EXCEPT !.watching = FALSE]

\* What a restart of the app unit loads: the code behind one link, the venv
\* behind the other; nothing starts without them or without the unit.
Loaded(i) == IF None \in {i.release, i.venv, i.unit} THEN None ELSE <<i.release, i.venv>>

\* The pair of ingest units is captured only whole, and a path that is on must
\* have its unit.
Capturable(i) == /\ (i.isvc = None) <=> (i.ipath = None)
                 /\ i.watching => i.ipath # None
=============================================================================
