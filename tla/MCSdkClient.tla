---------------------------- MODULE MCSdkClient ----------------------------
(* Small instances of SdkClient for TLC. *)
EXTENDS SdkClient

Opts(found, socket) ==
    [enabled |-> TRUE, config |-> "none", data_dir |-> FALSE,
     socket_path |-> socket, agent |-> found]

\* A spawned agent, an agent that runs already, and the ways open can end early.
MCOptions ==
    {Opts("found", FALSE), Opts("none", TRUE), Opts("none", FALSE), Opts("bad_path", FALSE),
     [Opts("found", FALSE) EXCEPT !.enabled = FALSE],
     [Opts("found", FALSE) EXCEPT !.config = "missing"],
     [Opts("found", FALSE) EXCEPT !.config = "found"]}

MCArgs(d, n, corr, field, value) ==
    [domain |-> d, category |-> "a", name |-> n, correlation |-> corr,
     field_name |-> field, value |-> value]

\* The same string under several kinds, optional parts present and absent, a
\* string too long, and a value that cannot be encoded.
MCEmitArgs ==
    {MCArgs("a", "a", None, "a", None), MCArgs("a", "b", "b", "a", None),
     MCArgs("a", "a", None, "a", "b"), MCArgs("a", "a", "long", "a", None),
     MCArgs("a", "a", None, "a", "bad")}
MCLongNames == {"long"}
MCBadValues == {"bad"}

MCFewOptions == {Opts("found", FALSE)}
=============================================================================
