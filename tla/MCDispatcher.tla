---------------------------- MODULE MCDispatcher ----------------------------
EXTENDS Dispatcher

\* One spec hears of apps through two patterns and retries once, the other
\* is inactive.
Hears == [active |-> TRUE, subjects |-> {<<"app", "*">>, <<">">>}, retries |-> 1]
Muted == [active |-> FALSE, subjects |-> {<<">">>}, retries |-> 0]

MCSpecs == {Hears, Muted}
MCLoud == {Hears}
MCOther == {<<"app", "created">>, <<"subscription", "status_changed">>}
=============================================================================
