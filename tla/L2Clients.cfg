SPECIFICATION Spec
CONSTANTS
    private = private
    plain = plain
    redis = redis
    memcached = memcached
    Ops = {o1, o2}
    Conns = {c1, c2}
    Requests = {r1}
    Contexts = {private, plain}
    Servers = {redis, memcached}
    Server <- ServerOf
    Memcached = {plain}
    Tls = {private}
    PreReplies <- PreambleOf
    KeepAlive = 1
    Chunks = {2}
    None = None
INVARIANTS
    OwnReplies
    ConnOwned
    ParkedPaired
PROPERTIES
    DrainHonest
    AnswersCome
