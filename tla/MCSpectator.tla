----------------------------- MODULE MCSpectator -----------------------------
(* Small programs around a spectator, for TLC.                             *)
EXTENDS SpectatorLifecycle

MCNodes == {<<"externalView", "r1">>, <<"externalView", "r2">>, <<"idealState", "r1">>,
            <<"instanceConfig", "i1">>, <<"liveInstance", "i1">>, <<"controllerMessage", "m1">>}

Program(before, called, most, traces, n, setUp) ==
    [before |-> before, calls |-> called, most |-> most, tracing |-> traces, changes |-> n,
     up |-> setUp]

\* External views alone, with two resources; ideal states and controller
\* messages, which are announced once; live instances and their configs, read
\* by a program and by the tracer; and a program that calls whatever there is.
MCScenarios ==
    {Program({"externalView"}, {"connect"}, 1, FALSE, 3, TRUE),
     Program({"idealState", "controllerMessage"}, {"connect"}, 1, FALSE, 2, TRUE),
     Program({"liveInstance", "instanceConfig"}, {"connect"}, 1, FALSE, 3, TRUE),
     Program({"liveInstance", "instanceConfig"}, {"connect"}, 1, TRUE, 2, TRUE),
     Program({}, {"connect", "disconnect", "setContext", "liveInstance", "currentState",
                  "message"}, 4, FALSE, 2, FALSE)}

\* One external view that is created and written.
OneNode == {<<"externalView", "r1">>}
OneProgram == {Program({"externalView"}, {"connect"}, 1, FALSE, 3, TRUE)}
=============================================================================
