SPECIFICATION MetricsSpec
CONSTANTS
    MaxInstance = 2
    MaxSample = 2
    MaxFlight = 2
PROPERTIES
    NoRollback
