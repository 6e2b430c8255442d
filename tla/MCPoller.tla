------------------------------ MODULE MCPoller ------------------------------
\* Messages of one sort, two routes that match them and one that does not.
EXTENDS Poller

MCRoute == {[NoRoute EXCEPT !.type = "cmd", !.all = {"a"}],
            [NoRoute EXCEPT !.tag = "a", !.any = {"b"}],
            [NoRoute EXCEPT !.type = "cmd", !.any = {"a"}, !.all = {"c"}]}

MCSort(m) == [type |-> "cmd", tags |-> {"a", "b"}]
=============================================================================
