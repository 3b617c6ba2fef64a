---------------------------- MODULE MCMqttBroker ----------------------------
EXTENDS MqttBroker

CONSTANTS a, all, ta, tb

\* "a" matches itself, "#" matches everything.
Wild == {<<a, ta>>, <<a, a>>, <<all, ta>>, <<all, tb>>, <<all, a>>, <<all, all>>}

\* Only the filter "a".
Exact == {<<a, ta>>, <<a, a>>}
=============================================================================
