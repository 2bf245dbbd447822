--------------------------- MODULE MCProjectFiles ---------------------------
(* Small instances of ProjectFiles for TLC: files a user may have written. *)
EXTENDS ProjectFiles, TLC

Utf8(lines) == [state |-> "utf8", lines |-> lines]

MCEnvs ==
    {Missing, [state |-> "unreadable", lines |-> <<>>],
     Utf8(<<Comment, Assign("JUPYTER_PASSWORD", "12345678"), Assign("OTHER", "x")>>),
     Utf8(<<Assign("JUPYTER_PORT", "80"), Assign("OTHER", "x"), Assign("JUPYTER_PORT", "9000"),
            Assign("STATS_ENABLED", "true")>>),
     Utf8(<<OpenQuote("JUPYTER_PASSWORD"), Comment>>),
     Utf8(<<OpenQuote("OTHER"), Assign("STATS_ENABLED", "what")>>),
     Utf8(<<Junk>>)}

Written == RenderConfig([DEFAULTS EXCEPT !.JUPYTER_PASSWORD = "mine"], "none")
With(k, n) == [Written EXCEPT !.nodes[k] = n]

MCConfigs ==
    {NoConfig, [NoConfig EXCEPT !.state = "broken"],
     With("JUPYTER_PASSWORD", Node("int", "12345678")), With("JUPYTER_PASSWORD", Node("str", "short")),
     With("JUPYTER_PORT", Node("str", "8888\t")), With("JUPYTER_PORT", Node("str", "8888 ")),
     With("JUPYTER_PORT", Node("int", "8889")),
     With("STATS_ENABLED", Node("str", "off")),
     [With("HTTPS", Node("bool", "0")) EXCEPT !.imports = "ok"],
     [Written EXCEPT !.imports = "unplannable"], [Written EXCEPT !.imports = "unparsable"]}

MCFormEdits == {<<"JUPYTER_PASSWORD", "12345678">>, <<"JUPYTER_PORT", "8889">>}
=============================================================================
