------------------------------- MODULE MCStream --------------------------------
EXTENDS StreamSender

MCStreams ==
    {[bytes |-> 0, params |-> "bytes", onError |-> FALSE],
     [bytes |-> 2, params |-> "bytes", onError |-> TRUE],
     [bytes |-> 2, params |-> "encoded", onError |-> FALSE],
     [bytes |-> 2, params |-> "data", onError |-> FALSE]}
=============================================================================
