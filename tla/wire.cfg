CONSTANTS
    MaxTopicName = 3
    MaxKeySize = 3
    MaxMessageSize = 3
    MaxFrameSize = 87
    MaxBatchMessages = 2
    MaxBatchSize = 40
    MaxFetchBytes = 40
    MaxFetchWait = 9
    MaxClusterNodes = 3
    Calls <- SomeCalls
    Replicated <- SomeReplicated
    Answers <- SomeAnswers
    Clusters <- SomeClusters
    Home = 1
    KeyHash <- SomeHash
SPECIFICATION Spec
INVARIANTS ReceivedAsSent AnswersInOrder NeverRefused
PROPERTIES CallsEnd
CHECK_DEADLOCK FALSE
