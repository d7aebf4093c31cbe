------------------------------ MODULE MCSettings ------------------------------
EXTENDS SettingsStore
MCNormalized == [u \in UnsafeIds |-> IF u = "" THEN "factory" ELSE "own"]
Net(n, p) == [ssid |-> n, pass |-> p]
MCQueries == {Net("n1", "p1"), Net("n2", "")}
Line(ota) == [ssid |-> "n1", pass |-> "p1", enabled |-> 1, rest |-> "own", id |-> "own", root |-> <<"home", "attic">>, ota |-> ota]
MCLines == {Line(""), Line("k1")}
MCForms == {Net("", ""), [rest |-> "wild", root |-> <<"", "">>], [enabled |-> 0, id |-> "o/wn"], [enabled |-> 1, root |-> <<>>]}
MCRecords == {Line("k1"), Defaults}
MCOwnRoots == {<<"home", "attic">>}
MCUnsafeRoots == {<<>>, <<"", "">>}
=============================================================================
