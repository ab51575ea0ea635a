----------------------- MODULE MCServiceRegistration ------------------------
EXTENDS ServiceRegistration

OnlyVolume   == {"volume"}
ApiAndWorker == {"api", "worker"}
OneTopology  == {"t1"}
TwoURLs == {"http", "https"}
OneURL  == {"http"}

=============================================================================
