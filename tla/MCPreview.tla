----------------------------- MODULE MCPreview -----------------------------
EXTENDS PreviewSink

CONSTANTS c1, c2

MCSettings == {{"memory"}, {"events"}, {"events", "mjpeg"}, {"events", "stream"}}

Scenario(setting, clients, kinds, packets, configures) ==
  [setting |-> setting, clients |-> clients, kinds |-> kinds, packets |-> packets,
   configures |-> configures]

MCScenarios ==
  { Scenario({"memory"}, {}, {}, 2, 0),
    Scenario({"events"}, {c1}, {"events"}, 1, 1),
    Scenario({"events"}, {c1}, {"events"}, 3, 0),
    Scenario({"events"}, {c1, c2}, {"events", "mjpeg"}, 0, 0),
    Scenario({"events", "mjpeg"}, {c1}, {"mjpeg"}, 1, 0),
    Scenario({"events", "stream"}, {c1}, {"stream"}, 2, 0),
    Scenario({"events", "stream"}, {c1, c2}, {"stream"}, 0, 0) }

=============================================================================
