CONSTANTS
  Names = {"memory_db", "ollama", "late"}
  Async = {"ollama", "late"}
  Webhook = TRUE
  First <- MCFirst
SPECIFICATION FairHeart
PROPERTY StatusTruthful
PROPERTY HeartbeatGoesOn
