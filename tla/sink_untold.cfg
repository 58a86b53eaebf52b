SPECIFICATION SinkSpec
CONSTANT SinkRequests = {s1, s2}
INVARIANT EveryAnswerTold
