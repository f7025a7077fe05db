SPECIFICATION MCSpec
CONSTANTS
    Elem = {a, b}
    Zero = zero
    QUEUE_INIT_SIZE = 2
    InitSizes <- MCInitSizes
    MaxLen = 3
    Committers = {c1, c2}
    Owner = o
    Threads = {w1, w2}
    min_thread_num = 1
    max_thread_num = 1
    MaxPauses = 1
    StopRaces = FALSE
    NoThread = NoThread
    Worker = {b1, b2, b3}
    Object = {o1, o2, o3}
    MaxNum = 2
    BusyClear = FALSE
    EarlyStop = FALSE
    Task = {k1, k2}
    MaxConns = 3
    RetryCount = 1
    MaxHops = 1
    Reply = {"bad", "last", "ok", "redirect"}
    Publisher = {p1, p2}
    MaxIos = 3
    MaxRetry = 2
    ConnectTimeout = TRUE
    SlowTimeout = FALSE
    SlowPublish = FALSE
    Session = {s1, s2}
    Filters <- MCFilters
    Topics <- MCTopics
    QoS = {0, 1}
SYMMETRY Symmetry
INVARIANTS TasksServed PoolCounts OneBorrower  LoopThreadStops RequestsAnswered MqttReconnects PacketsWhole  ResponsesInOrder NothingOwed
PROPERTY ImplementsFifo
CHECK_DEADLOCK FALSE
